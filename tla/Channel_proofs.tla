---------------------------- MODULE Channel_proofs ----------------------------
(***************************************************************************)
(* The theorems about a channel, in three parts.                           *)
(*                                                                         *)
(* ChannelWorker, for any calls, keys, weights and maxsize: no item is     *)
(* lost or handed out twice, no queue exceeds its bound, no batch exceeds  *)
(* its target and, when the event loop is idle, no put waits for room that *)
(* is there and, if no batch stops early, no get for an item.              *)
(*                                                                         *)
(* ChannelPut, for any producers and programs: no item is lost but by a    *)
(* put_nowait of its worker that was refused, and none is stored twice or  *)
(* under a wrong key.  When each producer keeps to one key, items come out *)
(* in the order of their puts and the refused put_nowait is that of the    *)
(* item.                                                                   *)
(*                                                                         *)
(* ChannelGet, for any consumers: no item is lost or taken twice on its    *)
(* way, and a get returns an item of its key, unless it is a synchronous   *)
(* one of a consumer that makes asynchronous gets too.                     *)
(*                                                                         *)
(* The two client sides are instances.  Every theorem is about one of the  *)
(* three specifications; where two modules have a constant or variable of  *)
(* the same name, here one declaration stands for both.                    *)
(***************************************************************************)
EXTENDS ChannelWorker, FiniteSets, FiniteSetTheorems, TLAPS

(* A call is in one place at a time: to be run, parked as a getter, parked  *)
(* as a putter, or none of these when it has not arrived or has ended.      *)
OnePlace ==
    /\ Unique(ready)
    /\ \A c \in Calls : Has(ready, c) => pc[c] \in {"scheduled", "waiting"}
    /\ \A k \in Keys :
        /\ Unique(queue[k].getters)
        /\ Unique(queue[k].putters)
        /\ \A c \in Calls :
            /\ Has(queue[k].getters, c) =>
                   pc[c] = "waiting" /\ Key[c] = k /\ ~IsPut(c) /\ ~Has(ready, c)
            /\ Has(queue[k].putters, c) =>
                   pc[c] = "waiting" /\ Key[c] = k /\ IsPut(c) /\ ~Has(ready, c)

(* Puts on k that were woken and have yet to run. *)
Woken(k) == {c \in Calls : IsPut(c) /\ Key[c] = k /\ pc[c] = "waiting" /\ Has(ready, c)}

(* While puts are parked there is a woken put for every free place. *)
RoomIsClaimed ==
    \A k \in Keys :
        /\ IsFiniteSet(Woken(k))
        /\ queue[k].putters # <<>> =>
               MaxSize > 0 /\ Len(queue[k].items) + Cardinality(Woken(k)) >= MaxSize

IInv == TypeOK /\ OnePlace /\ EachItemOnce /\ WithinMaxSize /\ RoomIsClaimed

-----------------------------------------------------------------------------
(* Waking splits a waiting list into the first waiter and the others. *)
LEMMA WaiterFacts ==
    ASSUME NEW S, NEW s \in Seq(S), Unique(s)
    PROVE  /\ First(s) \in Seq(S) /\ Others(s) \in Seq(S)
           /\ Unique(First(s)) /\ Unique(Others(s))
           /\ \A e : Has(s, e) <=> Has(First(s), e) \/ Has(Others(s), e)
           /\ \A e : ~(Has(First(s), e) /\ Has(Others(s), e))
           /\ s = <<>> => First(s) = <<>> /\ Others(s) = <<>>
           /\ s # <<>> => Head(s) \in S /\ \A e : Has(First(s), e) <=> e = Head(s)
           /\ \A e : Has(First(s), e) => e \in S
<1>1. CASE s = <<>>
  BY <1>1 DEF First, Others, Has, Unique
<1>2. CASE s # <<>>
  <2>1. First(s) = <<Head(s)>> /\ Others(s) = Tail(s)
    BY <1>2 DEF First, Others
  <2>2. Head(s) \in S
    BY <1>2, TailFacts
  <2>3. /\ <<Head(s)>> \in Seq(S)
        /\ Unique(<<Head(s)>>)
        /\ \A e : Has(<<Head(s)>>, e) <=> e = Head(s)
    BY <2>2 DEF Unique, Has
  <2> QED BY <1>2, <2>1, <2>2, <2>3, TailFacts
<1> QED BY <1>1, <1>2

(* The coroutine that runs leaves ready, and those it wakes join it. *)
LEMMA ReadyFacts ==
    ASSUME TypeOK, Unique(ready), ready # <<>>,
           NEW s \in Seq(Calls), Unique(s), \A e : Has(s, e) => ~Has(ready, e)
    PROVE  /\ Tail(ready) \o First(s) \in Seq(Calls)
           /\ Unique(Tail(ready) \o First(s))
           /\ \A e : Has(Tail(ready) \o First(s), e) <=>
                        (Has(ready, e) /\ e # Head(ready)) \/ Has(First(s), e)
           /\ ready \o First(s) \in Seq(Calls)
           /\ Unique(ready \o First(s))
           /\ \A e : Has(ready \o First(s), e) <=> Has(ready, e) \/ Has(First(s), e)
           /\ Tail(ready) \in Seq(Calls)
           /\ Unique(Tail(ready))
           /\ \A e : Has(Tail(ready), e) <=> Has(ready, e) /\ e # Head(ready)
           /\ Has(ready, Head(ready))
<1>1. ready \in Seq(Calls)
  BY DEF TypeOK
<1>2. /\ Tail(ready) \in Seq(Calls)
      /\ Unique(Tail(ready))
      /\ \A e : Has(Tail(ready), e) <=> Has(ready, e) /\ e # Head(ready)
      /\ Has(ready, Head(ready))
  BY <1>1, TailFacts
<1>3. /\ First(s) \in Seq(Calls) /\ Unique(First(s))
      /\ \A e : Has(First(s), e) => Has(s, e)
  BY WaiterFacts
<1>4. \A e : ~(Has(ready, e) /\ Has(First(s), e)) /\ ~(Has(Tail(ready), e) /\ Has(First(s), e))
  BY <1>2, <1>3
<1>5. /\ Tail(ready) \o First(s) \in Seq(Calls)
      /\ Unique(Tail(ready) \o First(s))
      /\ \A e : Has(Tail(ready) \o First(s), e) <=> Has(Tail(ready), e) \/ Has(First(s), e)
  BY <1>2, <1>3, <1>4, ConcatFacts
<1>6. /\ ready \o First(s) \in Seq(Calls)
      /\ Unique(ready \o First(s))
      /\ \A e : Has(ready \o First(s), e) <=> Has(ready, e) \/ Has(First(s), e)
  BY <1>1, <1>3, <1>4, ConcatFacts
<1> QED BY <1>2, <1>5, <1>6

(* What a queue record holds, as TypeOK and the bound of its size say. *)
LEMMA QueueType ==
    ASSUME TypeOK, NEW c \in Calls
    PROVE  /\ Key[c] \in Keys
           /\ Q(c) = queue[Key[c]]
           /\ Q(c).items \in Seq(Puts) /\ Q(c).getters \in Seq(Calls) /\ Q(c).putters \in Seq(Calls)
           /\ Len(Q(c).items) \in Nat
BY CallsAssumption DEF TypeOK, Q

LEMMA IInvInit == Init => IInv
<1> SUFFICES ASSUME Init PROVE IInv
  OBVIOUS
<1> USE DEF Init, NewQueue
<1>1. TypeOK
  BY DEF TypeOK
<1>2. OnePlace
  BY DEF OnePlace, Has, Unique
<1>3. EachItemOnce
  BY DEF EachItemOnce, Has, Unique, InQueue, TakenBy, Puts
<1>4. WithinMaxSize
  BY MaxSizeAssumption DEF WithinMaxSize
<1>5. RoomIsClaimed
  <2>1. \A k \in Keys : Woken(k) = {}
    BY DEF Woken, Has
  <2> QED BY <2>1, FS_EmptySet DEF RoomIsClaimed
<1> QED BY <1>1, <1>2, <1>3, <1>4, <1>5 DEF IInv

-----------------------------------------------------------------------------
(* The call that runs is scheduled or was woken, and is in no waiting list. *)
LEMMA RunningFacts ==
    ASSUME IInv, NEW c \in Calls, ready # <<>>, Head(ready) = c
    PROVE  /\ Has(ready, c)
           /\ pc[c] \in {"scheduled", "waiting"}
           /\ \A k \in Keys : ~Has(queue[k].getters, c) /\ ~Has(queue[k].putters, c)
<1>1. ready \in Seq(Calls) /\ Unique(ready)
  BY DEF IInv, TypeOK, OnePlace
<1>2. Has(ready, c)
  BY <1>1, TailFacts
<1> QED BY <1>2 DEF IInv, OnePlace

(* A woken put that runs no longer claims a place. *)
LEMMA WokenLess ==
    ASSUME RoomIsClaimed, NEW c \in Calls, NEW k \in Keys, Woken(k)' = Woken(k) \ {c}
    PROVE  /\ IsFiniteSet(Woken(k)')
           /\ Cardinality(Woken(k)) \in Nat /\ Cardinality(Woken(k)') \in Nat
           /\ Cardinality(Woken(k)') >= Cardinality(Woken(k)) - 1
<1>1. IsFiniteSet(Woken(k))
  BY DEF RoomIsClaimed
<1>2. /\ IsFiniteSet(Woken(k) \ {c})
      /\ Cardinality(Woken(k) \ {c}) =
            IF c \in Woken(k) THEN Cardinality(Woken(k)) - 1 ELSE Cardinality(Woken(k))
  BY <1>1, FS_RemoveElement
<1>3. Cardinality(Woken(k)) \in Nat /\ Cardinality(Woken(k) \ {c}) \in Nat
  BY <1>1, <1>2, FS_CardinalityType
<1> QED BY <1>1, <1>2, <1>3

LEMMA ArriveInv ==
    ASSUME IInv, NEW c \in Calls, Arrive(c)
    PROVE  IInv'
<1> USE DEF IInv
<1>1. /\ pc[c] = "unsent" /\ pc' = [pc EXCEPT ![c] = "scheduled"]
      /\ ready' = Append(ready, c) /\ UNCHANGED <<queue, taken, weight>>
  BY DEF Arrive
<1>2. ~Has(ready, c) /\ ready \in Seq(Calls)
  BY <1>1 DEF OnePlace, TypeOK
<1>3. /\ ready' \in Seq(Calls)
      /\ \A e : Has(ready', e) <=> Has(ready, e) \/ e = c
      /\ Unique(ready')
  BY <1>1, <1>2, AppendFacts DEF OnePlace
<1>4. TypeOK'
  BY <1>1, <1>3 DEF TypeOK
<1>5. OnePlace'
  <2>1. \A e \in Calls : Has(ready', e) => pc'[e] \in {"scheduled", "waiting"}
    BY <1>1, <1>2, <1>3 DEF OnePlace, TypeOK
  <2>2. \A e \in Calls : pc[e] = "waiting" => pc'[e] = "waiting" /\ e # c
    BY <1>1 DEF TypeOK
  <2> QED BY <1>1, <1>3, <2>1, <2>2 DEF OnePlace
<1>6. EachItemOnce'
  BY <1>1 DEF EachItemOnce, InQueue, TakenBy, Puts, TypeOK
<1>7. WithinMaxSize'
  BY <1>1 DEF WithinMaxSize
<1>8. RoomIsClaimed'
  <2>1. \A k \in Keys : Woken(k)' = Woken(k)
    BY <1>1, <1>2, <1>3 DEF Woken, TypeOK
  <2> QED BY <1>1, <2>1 DEF RoomIsClaimed
<1> QED BY <1>4, <1>5, <1>6, <1>7, <1>8

(* Storing an item: it was nowhere, since its put had not returned.  A free *)
(* place is used up, by a woken put that no longer claims one or by a       *)
(* newcomer.                                                                *)
LEMMA PutInv ==
    ASSUME IInv, NEW c \in Calls, Put(c)
    PROVE  IInv'
<1> USE DEF IInv
<1> DEFINE K == Key[c]
           q == queue[K]
<1>1. /\ ready # <<>> /\ Head(ready) = c /\ IsPut(c) /\ ~Full(q)
      /\ queue' = [queue EXCEPT ![K] = Stored(q, c)]
      /\ ready' = Tail(ready) \o First(q.getters)
      /\ pc' = [pc EXCEPT ![c] = "returned"]
      /\ UNCHANGED <<taken, weight>>
  BY DEF Put, Running, Progress, IsPut, Q
<1>2. /\ K \in Keys /\ c \in Puts /\ pc[c] # "returned" /\ Has(ready, c)
      /\ \A k \in Keys : ~Has(queue[k].getters, c) /\ ~Has(queue[k].putters, c)
      /\ q.items \in Seq(Puts) /\ q.getters \in Seq(Calls) /\ q.putters \in Seq(Calls)
      /\ Len(q.items) \in Nat
      /\ Unique(q.getters)
      /\ \A e : Has(q.getters, e) => e \in Calls
  <2>1. K \in Keys /\ q.getters \in Seq(Calls) /\ Unique(q.getters)
    BY <1>1, QueueType DEF Q, OnePlace
  <2>2. \A e : Has(q.getters, e) => e \in Calls
    BY <2>1, WaiterFacts, TailFacts DEF Has
  <2> QED BY <1>1, <2>1, <2>2, RunningFacts, QueueType DEF Puts, Q
<1>3. \A e : Has(q.getters, e) => ~Has(ready, e)
  BY <1>2 DEF OnePlace
<1>4. /\ ready' \in Seq(Calls) /\ Unique(ready')
      /\ \A e : Has(ready', e) <=> (Has(ready, e) /\ e # c) \/ Has(First(q.getters), e)
  BY <1>1, <1>2, <1>3, ReadyFacts DEF OnePlace
<1>5. /\ Others(q.getters) \in Seq(Calls) /\ Unique(Others(q.getters))
      /\ \A e : Has(q.getters, e) <=> Has(First(q.getters), e) \/ Has(Others(q.getters), e)
      /\ \A e : ~(Has(First(q.getters), e) /\ Has(Others(q.getters), e))
  BY <1>2, WaiterFacts, ZenonT(60)
<1>6. /\ Append(q.items, c) \in Seq(Puts)
      /\ \A e : Has(Append(q.items, c), e) <=> Has(q.items, e) \/ e = c
      /\ Unique(q.items) /\ ~Has(q.items, c) => Unique(Append(q.items, c))
      /\ Len(Append(q.items, c)) = Len(q.items) + 1
  BY <1>2, AppendFacts, AppendProperties
<1>7. /\ queue'[K].items = Append(q.items, c)
      /\ queue'[K].getters = Others(q.getters)
      /\ queue'[K].putters = q.putters
      /\ \A k \in Keys : k # K => queue'[k] = queue[k]
      /\ queue' \in [Keys -> [items : Seq(Puts), getters : Seq(Calls), putters : Seq(Calls)]]
  <2>1. q \in [items : Seq(Puts), getters : Seq(Calls), putters : Seq(Calls)]
    BY <1>2 DEF TypeOK
  <2>2. /\ Stored(q, c) \in [items : Seq(Puts), getters : Seq(Calls), putters : Seq(Calls)]
        /\ Stored(q, c).items = Append(q.items, c)
        /\ Stored(q, c).getters = Others(q.getters)
        /\ Stored(q, c).putters = q.putters
    BY <1>5, <1>6, <2>1 DEF Stored
  <2> QED BY <1>1, <1>2, <2>2 DEF TypeOK
<1>8. TypeOK'
  BY <1>1, <1>4, <1>7 DEF TypeOK
<1>9. OnePlace'
  <2>1. \A e \in Calls : Has(ready', e) => pc'[e] \in {"scheduled", "waiting"}
    BY <1>1, <1>2, <1>4, <1>5, SMTT(30) DEF OnePlace, TypeOK
  <2>2. \A k \in Keys : Unique(queue'[k].getters) /\ Unique(queue'[k].putters)
    BY <1>5, <1>7 DEF OnePlace
  <2>3. \A k \in Keys, e \in Calls :
            /\ Has(queue'[k].getters, e) => Has(queue[k].getters, e)
            /\ Has(queue'[k].putters, e) => Has(queue[k].putters, e)
    BY <1>2, <1>5, <1>7
  <2>4. \A e \in Calls : Has(First(q.getters), e) => Key[e] = K /\ ~IsPut(e)
    BY <1>2, <1>5 DEF OnePlace
  <2>5. \A k \in Keys, e \in Calls :
            Has(queue'[k].getters, e) \/ Has(queue'[k].putters, e) => ~Has(ready', e)
    <3>1. ASSUME NEW k \in Keys, NEW e \in Calls,
                 Has(queue'[k].getters, e) \/ Has(queue'[k].putters, e)
          PROVE  ~Has(ready, e) /\ (IsPut(e) \/ k # K => ~Has(First(q.getters), e))
      BY <2>3, <2>4, <3>1 DEF OnePlace
    <3>2. \A e \in Calls : Has(queue'[K].getters, e) => ~Has(First(q.getters), e)
      BY <1>5, <1>7
    <3>3. \A e \in Calls : Has(queue'[K].putters, e) => IsPut(e)
      BY <1>2, <2>3 DEF OnePlace
    <3> QED BY <1>2, <1>4, <3>1, <3>2, <3>3
  <2> QED BY <1>1, <1>2, <1>4, <2>1, <2>2, <2>3, <2>5, SMTT(30) DEF OnePlace, TypeOK
<1>10. EachItemOnce'
  <2>1. ~InQueue(c) /\ \A b \in Calls : ~TakenBy(c, b)
    BY <1>2 DEF EachItemOnce
  <2>2. \A k \in Keys : Unique(queue'[k].items)
    BY <1>2, <1>6, <1>7, <2>1 DEF EachItemOnce, InQueue
  <2>3. \A k \in Keys, p \in Puts : Has(queue'[k].items, p) <=>
            Has(queue[k].items, p) \/ (k = K /\ p = c)
    BY <1>2, <1>6, <1>7
  <2>4. \A p \in Puts : /\ InQueue(p)' <=> InQueue(p) \/ p = c
                        /\ pc'[p] = "returned" <=> pc[p] = "returned" \/ p = c
    BY <1>1, <1>2, <2>3 DEF InQueue, TypeOK, Puts
  <2>5. \A p \in Puts, b \in Calls : TakenBy(p, b)' <=> TakenBy(p, b)
    BY <1>1 DEF TakenBy
  <2> QED BY <1>1, <1>2, <2>1, <2>2, <2>3, <2>4, <2>5 DEF EachItemOnce
<1>11. WithinMaxSize'
  BY <1>1, <1>2, <1>6, <1>7, MaxSizeAssumption DEF WithinMaxSize, Full
<1>12. RoomIsClaimed'
  <2>1. \A k \in Keys : k # K => Woken(k)' = Woken(k)
    BY <1>1, <1>2, <1>4, <1>5, SMTT(30) DEF Woken, OnePlace, TypeOK
  <2>2. Woken(K)' = Woken(K) \ {c}
    BY <1>1, <1>2, <1>4, <1>5 DEF Woken, OnePlace, TypeOK
  <2>3. /\ IsFiniteSet(Woken(K)')
        /\ Cardinality(Woken(K)) \in Nat /\ Cardinality(Woken(K)') \in Nat
        /\ Cardinality(Woken(K)') >= Cardinality(Woken(K)) - 1
    BY <1>2, <2>2, WokenLess
  <2>4. queue'[K].putters # <<>> =>
            MaxSize > 0 /\ Len(queue'[K].items) + Cardinality(Woken(K)') >= MaxSize
    BY <1>2, <1>6, <1>7, <2>3, MaxSizeAssumption, SMTT(30) DEF RoomIsClaimed
  <2> QED BY <1>2, <1>7, <2>1, <2>3, <2>4 DEF RoomIsClaimed
<1> QED BY <1>8, <1>9, <1>10, <1>11, <1>12

(* A call that ends and leaves the queues alone. *)
LEMMA EndInv ==
    ASSUME IInv, NEW c \in Calls, PutRaises(c) \/ GetEmpty(c) \/ BatchStop(c)
    PROVE  IInv'
<1> USE DEF IInv
<1>1. /\ ready # <<>> /\ Head(ready) = c
      /\ ready' = Tail(ready)
      /\ UNCHANGED <<queue, taken, weight>>
      /\ \/ pc' = [pc EXCEPT ![c] = "raised"]
         \/ ~IsPut(c) /\ pc' = [pc EXCEPT ![c] = "returned"]
  BY DEF PutRaises, GetEmpty, BatchStop, Running, Progress, IsPut
<1>2. /\ Has(ready, c)
      /\ pc[c] \in {"scheduled", "waiting"}
      /\ \A k \in Keys : ~Has(queue[k].getters, c) /\ ~Has(queue[k].putters, c)
      /\ c \in Woken(Key[c]) => pc[c] = "waiting" /\ IsPut(c)
  BY <1>1, RunningFacts DEF Woken
<1>3. /\ ready' \in Seq(Calls) /\ Unique(ready')
      /\ \A e : Has(ready', e) <=> Has(ready, e) /\ e # c
  BY <1>1, TailFacts DEF OnePlace, TypeOK
<1>4. TypeOK'
  BY <1>1, <1>3 DEF TypeOK
<1>5. OnePlace'
  <2>1. \A e \in Calls : e # c => pc'[e] = pc[e]
    BY <1>1 DEF TypeOK
  <2> QED BY <1>1, <1>2, <1>3, <2>1 DEF OnePlace
<1>6. EachItemOnce'
  <2>1. \A p \in Puts : pc'[p] = "returned" <=> pc[p] = "returned"
    BY <1>1, <1>2 DEF TypeOK, Puts
  <2> QED BY <1>1, <2>1 DEF EachItemOnce, InQueue, TakenBy
<1>7. WithinMaxSize'
  BY <1>1 DEF WithinMaxSize
<1>8. RoomIsClaimed'
  <2>1. \A k \in Keys : Woken(k)' = IF k = Key[c] THEN Woken(k) \ {c} ELSE Woken(k)
    BY <1>1, <1>2, <1>3 DEF Woken, TypeOK
  <2>2. CASE Full(Q(c))
    <3>1. Key[c] \in Keys /\ Q(c) = queue[Key[c]] /\ Len(Q(c).items) \in Nat
      BY QueueType
    <3>2. IsFiniteSet(Woken(Key[c])') /\ Cardinality(Woken(Key[c])') \in Nat
      BY <2>1, <3>1, WokenLess
    <3>3. MaxSize > 0 /\ Len(queue'[Key[c]].items) + Cardinality(Woken(Key[c])') >= MaxSize
      BY <1>1, <2>2, <3>1, <3>2, MaxSizeAssumption DEF Full
    <3>4. \A k \in Keys : k # Key[c] => Woken(k)' = Woken(k)
      BY <2>1
    <3> QED BY <1>1, <3>2, <3>3, <3>4 DEF RoomIsClaimed
  <2>3. CASE ~IsPut(c)
    <3>1. \A k \in Keys : Woken(k)' = Woken(k)
      BY <2>1, <2>3 DEF Woken
    <3> QED BY <1>1, <3>1 DEF RoomIsClaimed
  <2> QED BY <2>2, <2>3 DEF PutRaises, GetEmpty, BatchStop, Running, IsPut
<1> QED BY <1>4, <1>5, <1>6, <1>7, <1>8

(* A call that finds no item, or no room, parks at the end of its list. *)
LEMMA WaitInv ==
    ASSUME IInv, NEW c \in Calls, PutWait(c) \/ GetWait(c)
    PROVE  IInv'
<1> USE DEF IInv
<1> DEFINE K == Key[c]
           q == queue[K]
<1>1. /\ ready # <<>> /\ Head(ready) = c
      /\ ready' = Tail(ready)
      /\ pc' = [pc EXCEPT ![c] = "waiting"]
      /\ UNCHANGED <<taken, weight>>
      /\ \/ IsPut(c) /\ Full(q) /\ queue' = [queue EXCEPT ![K] = AwaitRoom(q, c)]
         \/ ~IsPut(c) /\ queue' = [queue EXCEPT ![K] = AwaitItem(q, c)]
  BY DEF PutWait, GetWait, Running, Progress, IsPut, Q
<1>2. /\ Has(ready, c)
      /\ pc[c] \in {"scheduled", "waiting"}
      /\ \A k \in Keys : ~Has(queue[k].getters, c) /\ ~Has(queue[k].putters, c)
      /\ K \in Keys
      /\ q.items \in Seq(Puts) /\ q.getters \in Seq(Calls) /\ q.putters \in Seq(Calls)
      /\ Len(q.items) \in Nat
  BY <1>1, RunningFacts, QueueType DEF Q
<1>3. /\ ready' \in Seq(Calls) /\ Unique(ready')
      /\ \A e : Has(ready', e) <=> Has(ready, e) /\ e # c
  BY <1>1, TailFacts DEF OnePlace, TypeOK
<1>4. /\ queue' \in [Keys -> [items : Seq(Puts), getters : Seq(Calls), putters : Seq(Calls)]]
      /\ \A k \in Keys : k # K => queue'[k] = queue[k]
      /\ queue'[K].items = q.items
      /\ queue'[K].getters = IF IsPut(c) THEN q.getters ELSE Append(q.getters, c)
      /\ queue'[K].putters = IF IsPut(c) THEN Append(q.putters, c) ELSE q.putters
  <2>1. q \in [items : Seq(Puts), getters : Seq(Calls), putters : Seq(Calls)]
    BY <1>2 DEF TypeOK
  <2>2. Append(q.getters, c) \in Seq(Calls) /\ Append(q.putters, c) \in Seq(Calls)
    BY <1>2
  <2>3. /\ AwaitRoom(q, c) \in [items : Seq(Puts), getters : Seq(Calls), putters : Seq(Calls)]
        /\ AwaitRoom(q, c).items = q.items
        /\ AwaitRoom(q, c).getters = q.getters
        /\ AwaitRoom(q, c).putters = Append(q.putters, c)
    BY <2>1, <2>2 DEF AwaitRoom
  <2>4. /\ AwaitItem(q, c) \in [items : Seq(Puts), getters : Seq(Calls), putters : Seq(Calls)]
        /\ AwaitItem(q, c).items = q.items
        /\ AwaitItem(q, c).getters = Append(q.getters, c)
        /\ AwaitItem(q, c).putters = q.putters
    BY <2>1, <2>2 DEF AwaitItem
  <2>5. CASE IsPut(c)
    <3>1. queue' = [queue EXCEPT ![K] = AwaitRoom(q, c)]
      BY <1>1, <2>5
    <3> QED BY <1>2, <2>3, <2>5, <3>1 DEF TypeOK
  <2>6. CASE ~IsPut(c)
    <3>1. queue' = [queue EXCEPT ![K] = AwaitItem(q, c)]
      BY <1>1, <2>6
    <3> QED BY <1>2, <2>4, <2>6, <3>1 DEF TypeOK
  <2> QED BY <2>5, <2>6
<1>5. /\ \A k \in Keys : Unique(queue'[k].getters) /\ Unique(queue'[k].putters)
      /\ \A k \in Keys : \A e :
            /\ Has(queue'[k].getters, e) =>
                   Has(queue[k].getters, e) \/ (e = c /\ k = K /\ ~IsPut(c))
            /\ Has(queue'[k].putters, e) =>
                   Has(queue[k].putters, e) \/ (e = c /\ k = K /\ IsPut(c))
  <2>1. /\ \A e : Has(Append(q.getters, c), e) <=> Has(q.getters, e) \/ e = c
        /\ \A e : Has(Append(q.putters, c), e) <=> Has(q.putters, e) \/ e = c
        /\ Unique(Append(q.getters, c)) /\ Unique(Append(q.putters, c))
    BY <1>2, AppendFacts DEF OnePlace
  <2>2. CASE IsPut(c)
    <3>1. queue'[K].putters = Append(q.putters, c) /\ queue'[K].getters = q.getters
      BY <1>4, <2>2
    <3>2. \A k \in Keys : k = K \/ queue'[k] = queue[k]
      BY <1>4
    <3>3. Unique(q.getters)
      BY <1>2 DEF OnePlace
    <3>4. ASSUME NEW k \in Keys, k # K
          PROVE  Unique(queue'[k].getters) /\ Unique(queue'[k].putters)
      BY <3>2, <3>4 DEF OnePlace
    <3> QED BY <2>1, <2>2, <3>1, <3>2, <3>3, <3>4
  <2>3. CASE ~IsPut(c)
    <3>1. queue'[K].getters = Append(q.getters, c) /\ queue'[K].putters = q.putters
      BY <1>4, <2>3
    <3>2. \A k \in Keys : k = K \/ queue'[k] = queue[k]
      BY <1>4
    <3>3. Unique(q.putters)
      BY <1>2 DEF OnePlace
    <3>4. ASSUME NEW k \in Keys, k # K
          PROVE  Unique(queue'[k].getters) /\ Unique(queue'[k].putters)
      BY <3>2, <3>4 DEF OnePlace
    <3> QED BY <2>1, <2>3, <3>1, <3>2, <3>3, <3>4
  <2> QED BY <2>2, <2>3
<1>6. TypeOK'
  BY <1>1, <1>3, <1>4 DEF TypeOK
<1>7. OnePlace'
  <2>1. \A e \in Calls : pc'[e] = IF e = c THEN "waiting" ELSE pc[e]
    BY <1>1 DEF TypeOK
  <2>2. \A e \in Calls : Has(ready', e) => pc'[e] \in {"scheduled", "waiting"}
    BY <1>3, <2>1 DEF OnePlace
  <2>3. ASSUME NEW k \in Keys, NEW e \in Calls
        PROVE  /\ Has(queue'[k].getters, e) =>
                     pc'[e] = "waiting" /\ Key[e] = k /\ ~IsPut(e) /\ ~Has(ready', e)
               /\ Has(queue'[k].putters, e) =>
                     pc'[e] = "waiting" /\ Key[e] = k /\ IsPut(e) /\ ~Has(ready', e)
    BY <1>3, <1>5, <2>1, SMTT(30) DEF OnePlace
  <2> QED BY <1>3, <1>5, <2>2, <2>3 DEF OnePlace
<1>8. EachItemOnce'
  <2>1. \A p \in Puts : pc'[p] = "returned" <=> pc[p] = "returned"
    BY <1>1, <1>2 DEF TypeOK, Puts
  <2>2. \A k \in Keys : queue'[k].items = queue[k].items
    BY <1>4
  <2> QED BY <1>1, <2>1, <2>2 DEF EachItemOnce, InQueue, TakenBy
<1>9. WithinMaxSize'
  BY <1>4 DEF WithinMaxSize
<1>10. RoomIsClaimed'
  <2>1. \A k \in Keys : Woken(k)' = IF k = K THEN Woken(k) \ {c} ELSE Woken(k)
    BY <1>1, <1>2, <1>3, SMTT(30) DEF Woken, TypeOK
  <2>2. CASE IsPut(c)
    <3>1. IsFiniteSet(Woken(K)') /\ Cardinality(Woken(K)') \in Nat
      BY <1>2, <2>1, WokenLess
    <3>2. MaxSize > 0 /\ Len(queue'[K].items) + Cardinality(Woken(K)') >= MaxSize
      BY <1>1, <1>2, <1>4, <2>2, <3>1, MaxSizeAssumption DEF Full
    <3>3. \A k \in Keys : k # K => Woken(k)' = Woken(k)
      BY <2>1
    <3> QED BY <1>4, <3>1, <3>2, <3>3 DEF RoomIsClaimed
  <2>3. CASE ~IsPut(c)
    <3>1. \A k \in Keys : Woken(k)' = Woken(k)
      BY <2>1, <2>3 DEF Woken
    <3>2. \A k \in Keys : /\ queue'[k].items = queue[k].items
                          /\ queue'[k].putters = queue[k].putters
      BY <1>4, <2>3
    <3> QED BY <3>1, <3>2 DEF RoomIsClaimed
  <2> QED BY <2>2, <2>3
<1> QED BY <1>6, <1>7, <1>8, <1>9, <1>10

(* Taking an item: it leaves its queue for the answer of c, and the first   *)
(* put that is parked is woken to claim the place.                          *)
LEMMA TakeInv ==
    ASSUME IInv, NEW c \in Calls, Get(c) \/ BatchTake(c)
    PROVE  IInv'
<1> USE DEF IInv
<1> DEFINE K == Key[c]
           q == queue[K]
           h == Head(q.items)
<1>1. /\ ready # <<>> /\ Head(ready) = c /\ ~IsPut(c) /\ q.items # <<>>
      /\ queue' = [queue EXCEPT ![K] = Removed(q)]
      /\ taken' = [taken EXCEPT ![c] = Append(@, h)]
      /\ \/ ready' = Tail(ready) \o First(q.putters) /\ pc' = [pc EXCEPT ![c] = "returned"]
         \/ ready' = ready \o First(q.putters) /\ pc' = pc
      /\ weight' = weight \/ weight' = [weight EXCEPT ![c] = NextWeight(c)]
  BY DEF Get, BatchTake, Take, Running, Progress, IsPut, Q, Empty
<1>2. /\ K \in Keys /\ Has(ready, c)
      /\ pc[c] \in {"scheduled", "waiting"}
      /\ \A k \in Keys : ~Has(queue[k].getters, c) /\ ~Has(queue[k].putters, c)
      /\ q.items \in Seq(Puts) /\ q.getters \in Seq(Calls) /\ q.putters \in Seq(Calls)
      /\ Len(q.items) \in Nat
      /\ Unique(q.putters) /\ Unique(q.items)
  BY <1>1, RunningFacts, QueueType DEF Q, OnePlace, EachItemOnce
<1>3. /\ First(q.putters) \in Seq(Calls)
      /\ Others(q.putters) \in Seq(Calls) /\ Unique(Others(q.putters))
      /\ \A e : Has(q.putters, e) <=> Has(First(q.putters), e) \/ Has(Others(q.putters), e)
      /\ \A e : ~(Has(First(q.putters), e) /\ Has(Others(q.putters), e))
      /\ \A e : Has(First(q.putters), e) => e \in Calls
  BY <1>2, WaiterFacts
<1>4. \A e : Has(q.putters, e) => ~Has(ready, e) /\ e \in Calls
  <2>1. \A e : Has(q.putters, e) => e \in Calls
    BY <1>2 DEF Has
  <2> QED BY <1>2, <2>1 DEF OnePlace
<1>5. /\ \A e \in Calls : e # c => pc'[e] = pc[e]
      /\ pc'[c] \in {pc[c], "returned"}
      /\ pc' \in [Calls -> {"unsent", "scheduled", "waiting", "returned", "raised"}]
  BY <1>1 DEF TypeOK
<1>6. /\ ready' \in Seq(Calls) /\ Unique(ready')
      /\ \A e : e # c => (Has(ready', e) <=> Has(ready, e) \/ Has(First(q.putters), e))
      /\ Has(ready', c) => pc'[c] \in {"scheduled", "waiting"}
  <2>1. CASE ready' = Tail(ready) \o First(q.putters)
    BY <1>1, <1>2, <1>3, <1>4, <2>1, ReadyFacts DEF OnePlace
  <2>2. CASE ready' = ready \o First(q.putters) /\ pc' = pc
    BY <1>1, <1>2, <1>3, <1>4, <2>2, ReadyFacts DEF OnePlace
  <2> QED BY <1>1, <2>1, <2>2, SMTT(30)
<1>7. /\ Tail(q.items) \in Seq(Puts) /\ Unique(Tail(q.items))
      /\ h \in Puts /\ Has(q.items, h)
      /\ \A e : Has(Tail(q.items), e) <=> Has(q.items, e) /\ e # h
      /\ Len(Tail(q.items)) = Len(q.items) - 1
  BY <1>1, <1>2, TailFacts, HeadTailProperties
<1>8. /\ queue'[K].items = Tail(q.items)
      /\ queue'[K].getters = q.getters
      /\ queue'[K].putters = Others(q.putters)
      /\ \A k \in Keys : k # K => queue'[k] = queue[k]
      /\ queue' \in [Keys -> [items : Seq(Puts), getters : Seq(Calls), putters : Seq(Calls)]]
  <2>1. q \in [items : Seq(Puts), getters : Seq(Calls), putters : Seq(Calls)]
    BY <1>2 DEF TypeOK
  <2>2. /\ Removed(q) \in [items : Seq(Puts), getters : Seq(Calls), putters : Seq(Calls)]
        /\ Removed(q).items = Tail(q.items)
        /\ Removed(q).getters = q.getters
        /\ Removed(q).putters = Others(q.putters)
    BY <1>3, <1>7, <2>1 DEF Removed
  <2> QED BY <1>1, <1>2, <2>2 DEF TypeOK
<1>9. /\ taken[c] \in Seq(Puts) /\ Append(taken[c], h) \in Seq(Puts)
      /\ \A e : Has(Append(taken[c], h), e) <=> Has(taken[c], e) \/ e = h
      /\ Unique(taken[c]) /\ ~Has(taken[c], h) => Unique(Append(taken[c], h))
      /\ taken'[c] = Append(taken[c], h)
      /\ \A b \in Calls : b # c => taken'[b] = taken[b]
      /\ taken' \in [Calls -> Seq(Puts)]
  <2>1. taken[c] \in Seq(Puts)
    BY DEF TypeOK
  <2>2. /\ Append(taken[c], h) \in Seq(Puts)
        /\ \A e : Has(Append(taken[c], h), e) <=> Has(taken[c], e) \/ e = h
        /\ Unique(taken[c]) /\ ~Has(taken[c], h) => Unique(Append(taken[c], h))
    BY <1>7, <2>1, AppendFacts
  <2> QED BY <1>1, <2>1, <2>2 DEF TypeOK
<1>10. TypeOK'
  <2>1. weight' \in [Calls -> Nat]
    <3>1. NextWeight(c) \in Nat
      <4>1. Head(Q(c).items) = h
        BY DEF Q
      <4>2. h \in Calls
        BY <1>7 DEF Puts
      <4> HIDE DEF h
      <4>3. weight[c] \in Nat /\ Weight[h] \in Nat
        BY <4>2, CallsAssumption DEF TypeOK
      <4>4. weight[c] + Weight[h] \in Nat
        BY <4>3
      <4> QED BY <4>1, <4>4 DEF NextWeight
    <3> QED BY <1>1, <3>1 DEF TypeOK
  <2> QED BY <1>5, <1>6, <1>8, <1>9, <2>1 DEF TypeOK
<1>11. OnePlace'
  <2>1. \A e \in Calls : Has(First(q.putters), e) => pc[e] = "waiting" /\ IsPut(e) /\ Key[e] = K
    BY <1>2, <1>3 DEF OnePlace
  <2>2. \A e \in Calls : Has(ready', e) => pc'[e] \in {"scheduled", "waiting"}
    BY <1>5, <1>6, <2>1 DEF OnePlace
  <2>3. \A k \in Keys : Unique(queue'[k].getters) /\ Unique(queue'[k].putters)
    BY <1>3, <1>8 DEF OnePlace
  <2>4. \A k \in Keys, e \in Calls :
            /\ Has(queue'[k].getters, e) => Has(queue[k].getters, e)
            /\ Has(queue'[k].putters, e) => Has(queue[k].putters, e)
    BY <1>3, <1>8
  <2>5. ASSUME NEW k \in Keys, NEW e \in Calls,
               Has(queue'[k].getters, e) \/ Has(queue'[k].putters, e)
        PROVE  ~Has(ready', e) /\ e # c
    <3>1. ~Has(ready, e) /\ e # c /\ (~IsPut(e) \/ k # K => ~Has(First(q.putters), e))
      BY <1>2, <2>1, <2>4, <2>5 DEF OnePlace
    <3>2. CASE k = K /\ IsPut(e)
      BY <1>2, <1>3, <1>6, <1>8, <2>4, <2>5, <3>1, <3>2 DEF OnePlace
    <3>3. CASE ~(k = K /\ IsPut(e))
      BY <1>6, <3>1, <3>3
    <3> QED BY <3>2, <3>3
  <2> QED BY <1>5, <1>6, <2>2, <2>3, <2>4, <2>5 DEF OnePlace
<1>12. EachItemOnce'
  <2>1. /\ InQueue(h) /\ Key[h] = K /\ pc[h] = "returned"
        /\ \A b \in Calls : ~TakenBy(h, b)
        /\ \A k \in Keys : Has(queue[k].items, h) => k = K
    BY <1>2, <1>7 DEF EachItemOnce, InQueue
  <2>2. /\ \A k \in Keys : Unique(queue'[k].items)
        /\ \A k \in Keys, p \in Puts : Has(queue'[k].items, p) <=> Has(queue[k].items, p) /\ p # h
    <3>1. \A k \in Keys : Unique(queue[k].items) /\ (Has(queue[k].items, h) => k = K)
      BY <2>1 DEF EachItemOnce
    <3>2. ASSUME NEW k \in Keys, k # K
          PROVE  /\ Unique(queue'[k].items)
                 /\ \A p \in Puts : Has(queue'[k].items, p) <=> Has(queue[k].items, p) /\ p # h
      BY <1>8, <3>1, <3>2
    <3>3. /\ Unique(queue'[K].items)
          /\ \A p \in Puts : Has(queue'[K].items, p) <=> Has(q.items, p) /\ p # h
      BY <1>7, <1>8
    <3> QED BY <3>2, <3>3
  <2>3. /\ \A b \in Calls : Unique(taken'[b])
        /\ \A p \in Puts, b \in Calls : TakenBy(p, b)' <=> TakenBy(p, b) \/ (b = c /\ p = h)
    <3>1. \A b \in Calls : Unique(taken[b]) /\ ~Has(taken[b], h)
      BY <1>7, <2>1 DEF EachItemOnce, TakenBy
    <3>2. ASSUME NEW b \in Calls, b # c
          PROVE  taken'[b] = taken[b]
      BY <1>9, <3>2
    <3>3. Unique(taken'[c]) /\ \A p \in Puts : Has(taken'[c], p) <=> Has(taken[c], p) \/ p = h
      BY <1>9, <3>1
    <3> QED BY <3>1, <3>2, <3>3 DEF TakenBy
  <2>4. \A p \in Puts : /\ InQueue(p)' <=> InQueue(p) /\ p # h
                        /\ pc'[p] = pc[p]
    BY <1>1, <1>5, <2>2 DEF InQueue, Puts
  <2> QED BY <2>1, <2>2, <2>3, <2>4 DEF EachItemOnce
<1>13. WithinMaxSize'
  <2>1. ASSUME MaxSize > 0, NEW k \in Keys
        PROVE  Len(queue'[k].items) <= MaxSize
    <3>1. CASE k = K
      <4>1. Len(q.items) <= MaxSize
        BY <1>2, <2>1 DEF WithinMaxSize
      <4>2. queue'[k].items = Tail(q.items)
        BY <1>8, <3>1
      <4> HIDE DEF q, h
      <4> QED BY <1>2, <1>7, <4>1, <4>2, MaxSizeAssumption
    <3>2. CASE k # K
      BY <1>8, <2>1, <3>2 DEF WithinMaxSize
    <3> QED BY <3>1, <3>2
  <2> QED BY <2>1 DEF WithinMaxSize
<1>14. RoomIsClaimed'
  <2>1. \A e \in Calls : Has(First(q.putters), e) => pc[e] = "waiting" /\ IsPut(e) /\ Key[e] = K
    BY <1>2, <1>3 DEF OnePlace
  <2>2. \A k \in Keys : k # K => Woken(k)' = Woken(k)
    BY <1>1, <1>5, <1>6, <2>1 DEF Woken
  <2>3. CASE q.putters = <<>>
    <3>1. Woken(K)' = Woken(K) /\ Others(q.putters) = <<>>
      <4>1. Others(q.putters) = <<>> /\ \A e : ~Has(First(q.putters), e)
        BY <2>3 DEF First, Others, Has
      <4> QED BY <1>1, <1>5, <1>6, <4>1 DEF Woken
    <3> QED BY <1>2, <1>8, <2>2, <3>1 DEF RoomIsClaimed
  <2>4. CASE q.putters # <<>>
    <3> DEFINE w == Head(q.putters)
    <3>1. w \in Calls /\ \A e : Has(First(q.putters), e) <=> e = w
      BY <1>2, <2>4, WaiterFacts
    <3>2. Woken(K)' = Woken(K) \cup {w} /\ w \notin Woken(K)
      BY <1>1, <1>3, <1>4, <1>5, <1>6, <2>1, <3>1 DEF Woken
    <3>3. /\ IsFiniteSet(Woken(K)) /\ Cardinality(Woken(K)) \in Nat
          /\ MaxSize > 0 /\ Len(q.items) + Cardinality(Woken(K)) >= MaxSize
      BY <1>2, <2>4, FS_CardinalityType DEF RoomIsClaimed
    <3>4. /\ IsFiniteSet(Woken(K) \cup {w})
          /\ Cardinality(Woken(K) \cup {w}) = Cardinality(Woken(K)) + 1
      BY <3>2, <3>3, FS_AddElement
    <3>5. /\ IsFiniteSet(Woken(K)')
          /\ Len(queue'[K].items) + Cardinality(Woken(K)') >= MaxSize
      BY <1>2, <1>7, <1>8, <3>2, <3>3, <3>4, MaxSizeAssumption, SMTT(30)
    <3> QED BY <1>8, <2>2, <3>3, <3>5 DEF RoomIsClaimed
  <2> QED BY <2>3, <2>4
<1> QED BY <1>10, <1>11, <1>12, <1>13, <1>14

LEMMA IInvStutter ==
    ASSUME IInv, UNCHANGED vars
    PROVE  IInv'
<1> USE DEF IInv, vars
<1>1. TypeOK' /\ OnePlace' /\ WithinMaxSize'
  BY DEF TypeOK, OnePlace, WithinMaxSize
<1>2. EachItemOnce'
  BY DEF EachItemOnce, InQueue, TakenBy
<1>3. RoomIsClaimed'
  <2>1. \A k \in Keys : Woken(k)' = Woken(k)
    BY DEF Woken
  <2> QED BY <2>1 DEF RoomIsClaimed
<1> QED BY <1>1, <1>2, <1>3

-----------------------------------------------------------------------------
(* The inductive invariant holds throughout. *)
THEOREM Invariant == Spec => []IInv
<1>1. IInv /\ [Next]_vars => IInv'
  BY ArriveInv, PutInv, EndInv, WaitInv, TakeInv, IInvStutter DEF Next, RunReady
<1> QED BY <1>1, IInvInit, PTL DEF Spec

(* Queues, coroutines, answers and weights keep their types. *)
THEOREM TypeCorrect == Spec => []TypeOK
<1>1. IInv => TypeOK
  BY DEF IInv
<1> QED BY <1>1, Invariant, PTL

(* However calls are interleaved and waiters woken, the item of a put that  *)
(* returned is in its queue or in one answer on its key, once.              *)
THEOREM NoItemIsLost == Spec => []EachItemOnce
<1>1. IInv => EachItemOnce
  BY DEF IInv
<1> QED BY <1>1, Invariant, PTL

(* No queue ever holds more than maxsize items. *)
THEOREM QueueIsBounded == Spec => []WithinMaxSize
<1>1. IInv => WithinMaxSize
  BY DEF IInv
<1> QED BY <1>1, Invariant, PTL

(* When nothing is left to run, no put is parked on a queue with room.      *)
(* While puts are parked every free place has a woken put to fill it, and   *)
(* an empty ready holds no woken put.                                       *)
THEOREM RoomIsNotWasted == Spec => []PuttersServed
<1>1. IInv => PuttersServed
  <2> SUFFICES ASSUME IInv, ready = <<>>, NEW k \in Keys, queue[k].putters # <<>>
               PROVE  Full(queue[k])
    BY DEF PuttersServed
  <2>1. Woken(k) = {}
    BY DEF Woken, Has
  <2>2. Cardinality(Woken(k)) = 0
    BY <2>1, FS_EmptySet
  <2>3. Len(queue[k].items) \in Nat
    BY DEF IInv, TypeOK
  <2> QED BY <2>2, <2>3, MaxSizeAssumption DEF IInv, RoomIsClaimed, Full
<1> QED BY <1>1, Invariant, PTL

-----------------------------------------------------------------------------
(* Batches *)

(* Appending an item adds its weight. *)
LEMMA SumAppend ==
    ASSUME NEW s \in Seq(Puts), NEW h \in Puts
    PROVE  SumOfWeights(Append(s, h)) = SumOfWeights(s) + Weight[h]
<1> DEFINE n == Len(s)
           t == Append(s, h)
           f == [i \in DOMAIN s |-> Weight[s[i]]]
           e == [i \in DOMAIN t |-> Weight[t[i]]]
<1>1. /\ n \in Nat /\ DOMAIN s = 1 .. n /\ DOMAIN t = (1 .. n) \cup {n + 1}
      /\ \A i \in 1 .. n : s[i] \in Puts /\ t[i] = s[i]
      /\ t[n + 1] = h
  OBVIOUS
<1>2. \A p \in Puts : Weight[p] \in Nat
  BY CallsAssumption DEF Puts
<1> HIDE DEF n, t
<1>3. /\ \A i \in 1 .. n : e[i] = f[i] /\ e[i] \in Int /\ f[i] \in Int
      /\ e[n + 1] = Weight[h] /\ e[n + 1] \in Int
      /\ DOMAIN e = (1 .. n) \cup {n + 1} /\ DOMAIN f = 1 .. n
  BY <1>1, <1>2
<1>4. SumOfWeights(s) = SumFunction(f) /\ SumOfWeights(t) = SumFunction(e)
  BY DEF SumOfWeights
<1> HIDE DEF e, f
<1>5. IsFiniteSet(1 .. n) /\ n + 1 \notin 1 .. n
  BY <1>1, FS_Interval
<1>6. SumFunctionOnSet(e, (1 .. n) \cup {n + 1}) = e[n + 1] + SumFunctionOnSet(e, 1 .. n)
  BY <1>3, <1>5, SumExtended
<1>7. SumFunctionOnSet(e, 1 .. n) = SumFunctionOnSet(f, 1 .. n)
  <2>1. \A i \in 1 .. n : e[i] = f[i]
    BY <1>3
  <2>2. IsFiniteSet(1 .. n)
    BY <1>5
  <2> QED BY <2>1, <2>2, SumSame, Zenon
<1>8. SumFunctionOnSet(f, 1 .. n) \in Int
  BY <1>3, <1>5, SumIsInt
<1>9. /\ SumFunction(f) = SumFunctionOnSet(f, 1 .. n)
      /\ SumFunction(e) = SumFunctionOnSet(e, (1 .. n) \cup {n + 1})
  BY <1>3, SumOnDomain
<1>10. SumOfWeights(t) = Weight[h] + SumOfWeights(s) /\ SumOfWeights(s) \in Int
  BY <1>3, <1>4, <1>6, <1>7, <1>8, <1>9, Zenon
<1>11. SumOfWeights(t) = SumOfWeights(s) + Weight[h]
  BY <1>2, <1>10
<1> QED BY <1>11 DEF t

(* What a batch has added up is what it has taken, and within its target. *)
WeightsAdded ==
    \A c \in Calls : Op[c] = "get_batch" =>
        weight[c] = SumOfWeights(taken[c]) /\ weight[c] <= Target[c]

LEMMA WeightsAddedInit ==
    ASSUME Init
    PROVE  WeightsAdded
<1>1. SumOfWeights(<<>>) = 0
  <2> DEFINE f == [i \in DOMAIN <<>> |-> Weight[<<>>[i]]]
  <2>1. DOMAIN f = {}
    OBVIOUS
  <2> HIDE DEF f
  <2>2. SumFunction(f) = 0
    BY <2>1, SumOnDomain, SumOfNone, Zenon
  <2> QED BY <2>2 DEF SumOfWeights, f
<1>2. \A c \in Calls : Target[c] \in Nat /\ weight[c] = 0 /\ taken[c] = <<>>
  BY CallsAssumption DEF Init
<1> QED BY <1>1, <1>2 DEF WeightsAdded

LEMMA WeightsAddedNext ==
    ASSUME IInv, WeightsAdded, [Next]_vars
    PROVE  WeightsAdded'
<1>1. CASE UNCHANGED <<taken, weight>>
  BY <1>1 DEF WeightsAdded
<1>2. ASSUME NEW c \in Calls, Get(c)
      PROVE  WeightsAdded'
  <2>1. /\ Op[c] # "get_batch" /\ weight' = weight
        /\ taken' = [taken EXCEPT ![c] = Append(@, Head(Q(c).items))]
    BY <1>2 DEF Get, Running, Take
  <2>2. \A b \in Calls : Op[b] = "get_batch" => taken'[b] = taken[b]
    BY <2>1 DEF IInv, TypeOK
  <2> QED BY <2>1, <2>2 DEF WeightsAdded
<1>3. ASSUME NEW c \in Calls, BatchTake(c)
      PROVE  WeightsAdded'
  <2> DEFINE h == Head(Q(c).items)
  <2>1. /\ Op[c] = "get_batch" /\ NextWeight(c) <= Target[c]
        /\ Q(c).items # <<>>
        /\ taken' = [taken EXCEPT ![c] = Append(@, h)]
        /\ weight' = [weight EXCEPT ![c] = NextWeight(c)]
    BY <1>3 DEF BatchTake, Running, Take, Empty
  <2>2. h \in Puts
    BY <2>1, QueueType DEF IInv
  <2>3. NextWeight(c) = weight[c] + Weight[h]
    BY DEF NextWeight
  <2> HIDE DEF h
  <2>4. /\ taken'[c] = Append(taken[c], h) /\ weight'[c] = NextWeight(c)
        /\ taken[c] \in Seq(Puts)
        /\ \A b \in Calls : b # c => taken'[b] = taken[b] /\ weight'[b] = weight[b]
    BY <2>1 DEF IInv, TypeOK
  <2>5. weight'[c] = SumOfWeights(taken'[c])
    <3>1. weight[c] = SumOfWeights(taken[c])
      BY <2>1 DEF WeightsAdded
    <3>2. SumOfWeights(Append(taken[c], h)) = SumOfWeights(taken[c]) + Weight[h]
      BY <2>2, <2>4, SumAppend
    <3> QED BY <2>3, <2>4, <3>1, <3>2
  <2>6. weight'[c] <= Target[c]
    BY <2>1, <2>4
  <2> QED BY <2>4, <2>5, <2>6 DEF WeightsAdded
<1> QED BY <1>1, <1>2, <1>3
        DEF Next, RunReady, Arrive, Put, PutWait, PutRaises, GetWait, GetEmpty, BatchStop, vars

(* A batch never exceeds its target: the weight a call compares is that of  *)
(* what it has taken, whatever other calls took between its suspensions.    *)
THEOREM BatchesStayWithinTarget == Spec => []BatchWithinTarget
<1>1. Init => WeightsAdded
  BY WeightsAddedInit
<1>2. IInv /\ WeightsAdded /\ [Next]_vars => WeightsAdded'
  BY WeightsAddedNext
<1>3. WeightsAdded => BatchWithinTarget
  BY DEF WeightsAdded, BatchWithinTarget
<1> QED BY <1>1, <1>2, <1>3, Invariant, PTL DEF Spec

-----------------------------------------------------------------------------
(* The getters *)

(* Items of weight 0 or 1 and batches that want something: no batch has to  *)
(* stop before its target.  Where one does, the wake-up of an item it only  *)
(* peeked at is lost and a get may wait for an item that is there.          *)
BatchesFit ==
    /\ \A p \in Puts : Weight[p] <= 1
    /\ \A c \in Calls : Op[c] = "get_batch" => Target[c] >= 1

(* Gets on k that were woken and have yet to run. *)
WokenGets(k) ==
    {c \in Calls : ~IsPut(c) /\ Key[c] = k /\ pc[c] = "waiting" /\ Has(ready, c)}

(* While gets are parked there is a woken get for every item. *)
ItemsAreClaimed ==
    \A k \in Keys :
        /\ IsFiniteSet(WokenGets(k))
        /\ queue[k].getters # <<>> => Len(queue[k].items) <= Cardinality(WokenGets(k))

(* A batch that has not returned wants more. *)
Hungry ==
    \A c \in Calls :
        Op[c] = "get_batch" /\ pc[c] # "returned" => weight[c] < Target[c]

LEMMA HungryNext ==
    ASSUME IInv, Hungry, [Next]_vars
    PROVE  Hungry'
<1>1. weight \in [Calls -> Nat] /\ DOMAIN pc = Calls
  BY DEF IInv, TypeOK
<1>2. ASSUME UNCHANGED weight, \A c \in Calls : pc[c] = "returned" => pc'[c] = "returned"
      PROVE  Hungry'
  BY <1>2 DEF Hungry
<1>3. ASSUME NEW c \in Calls, Arrive(c)
      PROVE  Hungry'
  BY <1>1, <1>2, <1>3 DEF Arrive
<1>4. ASSUME NEW c \in Calls,
             Put(c) \/ PutWait(c) \/ PutRaises(c) \/ Get(c) \/ GetWait(c) \/ GetEmpty(c)
                \/ BatchStop(c)
      PROVE  Hungry'
  <2>1. ready # <<>> /\ Head(ready) = c
    BY <1>4 DEF Put, PutWait, PutRaises, Get, GetWait, GetEmpty, BatchStop, Running
  <2>2. pc[c] # "returned"
    BY <2>1, RunningFacts
  <2>3. UNCHANGED weight /\ \A b \in Calls : b # c => pc'[b] = pc[b]
    BY <1>1, <1>4
       DEF Put, PutWait, PutRaises, Get, GetWait, GetEmpty, BatchStop, Progress
  <2> QED BY <1>2, <2>2, <2>3
<1>5. ASSUME NEW c \in Calls, BatchTake(c)
      PROVE  Hungry'
  <2>1. /\ weight' = [weight EXCEPT ![c] = NextWeight(c)]
        /\ \/ NextWeight(c) < Target[c] /\ pc' = pc
           \/ pc' = [pc EXCEPT ![c] = "returned"]
    BY <1>5 DEF BatchTake, Progress
  <2>2. \A b \in Calls : b # c => weight'[b] = weight[b] /\ pc'[b] = pc[b]
    BY <1>1, <2>1
  <2>3. weight'[c] = NextWeight(c) /\ (pc'[c] = "returned" \/ NextWeight(c) < Target[c])
    BY <1>1, <2>1
  <2> QED BY <2>2, <2>3 DEF Hungry
<1>6. CASE UNCHANGED vars
  BY <1>2, <1>6 DEF vars
<1> QED BY <1>3, <1>4, <1>5, <1>6 DEF Next, RunReady

LEMMA NoBatchStops ==
    ASSUME BatchesFit, IInv, Hungry, NEW c \in Calls, BatchStop(c)
    PROVE  FALSE
<1> DEFINE h == Head(Q(c).items)
<1>1. /\ ready # <<>> /\ Head(ready) = c /\ Op[c] = "get_batch"
      /\ Q(c).items # <<>> /\ NextWeight(c) > Target[c]
  BY DEF BatchStop, Running, Empty
<1>2. h \in Puts
  BY <1>1, QueueType DEF IInv
<1>3. pc[c] # "returned"
  BY <1>1, RunningFacts
<1>4. weight[c] < Target[c] /\ weight[c] \in Nat /\ Target[c] \in Nat
  BY <1>1, <1>3, CallsAssumption DEF Hungry, IInv, TypeOK
<1>5. NextWeight(c) = weight[c] + Weight[h]
  BY DEF NextWeight
<1> HIDE DEF h
<1>6. Weight[h] \in Nat /\ Weight[h] <= 1
  BY <1>2, CallsAssumption DEF BatchesFit, Puts
<1> QED BY <1>1, <1>4, <1>5, <1>6

(* A woken get that runs no longer claims an item. *)
LEMMA WokenGetsLess ==
    ASSUME ItemsAreClaimed, NEW c \in Calls, NEW k \in Keys,
           WokenGets(k)' = WokenGets(k) \ {c} \/ WokenGets(k)' = WokenGets(k)
    PROVE  /\ IsFiniteSet(WokenGets(k)')
           /\ Cardinality(WokenGets(k)) \in Nat /\ Cardinality(WokenGets(k)') \in Nat
           /\ Cardinality(WokenGets(k)') >= Cardinality(WokenGets(k)) - 1
<1>1. IsFiniteSet(WokenGets(k))
  BY DEF ItemsAreClaimed
<1>2. /\ IsFiniteSet(WokenGets(k) \ {c})
      /\ Cardinality(WokenGets(k) \ {c}) =
            IF c \in WokenGets(k) THEN Cardinality(WokenGets(k)) - 1
            ELSE Cardinality(WokenGets(k))
  BY <1>1, FS_RemoveElement
<1>3. Cardinality(WokenGets(k)) \in Nat /\ Cardinality(WokenGets(k) \ {c}) \in Nat
  BY <1>1, <1>2, FS_CardinalityType
<1> QED BY <1>1, <1>2, <1>3

(* A newcomer claims nothing. *)
LEMMA ArriveClaims ==
    ASSUME IInv, ItemsAreClaimed, NEW c \in Calls, Arrive(c)
    PROVE  ItemsAreClaimed'
<1>1. /\ pc[c] = "unsent" /\ pc' = [pc EXCEPT ![c] = "scheduled"]
      /\ ready' = Append(ready, c) /\ UNCHANGED queue
  BY DEF Arrive
<1>2. ~Has(ready, c) /\ ready \in Seq(Calls)
  BY <1>1 DEF IInv, OnePlace, TypeOK
<1>3. \A e : Has(ready', e) <=> Has(ready, e) \/ e = c
  BY <1>1, <1>2, AppendFacts DEF IInv, OnePlace
<1>4. \A k \in Keys : WokenGets(k)' = WokenGets(k)
  BY <1>1, <1>2, <1>3 DEF WokenGets, IInv, TypeOK
<1> QED BY <1>1, <1>4 DEF ItemsAreClaimed

(* An item stored wakes a get to claim it, if one is parked. *)
LEMMA PutClaims ==
    ASSUME IInv, ItemsAreClaimed, NEW c \in Calls, Put(c)
    PROVE  ItemsAreClaimed'
<1> DEFINE K == Key[c]
           q == queue[K]
<1>1. /\ ready # <<>> /\ Head(ready) = c /\ IsPut(c)
      /\ queue' = [queue EXCEPT ![K] = Stored(q, c)]
      /\ ready' = Tail(ready) \o First(q.getters)
      /\ pc' = [pc EXCEPT ![c] = "returned"]
  BY DEF Put, Running, Progress, IsPut, Q
<1>2. /\ K \in Keys
      /\ q.items \in Seq(Puts) /\ q.getters \in Seq(Calls)
      /\ Unique(q.getters) /\ Len(q.items) \in Nat
      /\ c \in Puts
      /\ TypeOK /\ Unique(ready)
  BY <1>1, QueueType DEF Q, IInv, OnePlace, Puts
<1>3. \A e : Has(q.getters, e) =>
          /\ ~Has(ready, e) /\ e \in Calls
          /\ pc[e] = "waiting" /\ Key[e] = K /\ ~IsPut(e)
  <2>1. \A e : Has(q.getters, e) => e \in Calls
    BY <1>2, WaiterFacts DEF Has
  <2> QED BY <1>2, <2>1 DEF IInv, OnePlace
<1>4. \A e : Has(ready', e) <=> (Has(ready, e) /\ e # c) \/ Has(First(q.getters), e)
  BY <1>1, <1>2, <1>3, ReadyFacts
<1>5. /\ queue'[K].items = Append(q.items, c)
      /\ queue'[K].getters = Others(q.getters)
      /\ \A k \in Keys : k # K => queue'[k] = queue[k]
  BY <1>1, <1>2 DEF Stored, TypeOK
<1>6. \A e \in Calls : e # c => pc'[e] = pc[e]
  BY <1>1, <1>2 DEF TypeOK
<1>7. Len(Append(q.items, c)) = Len(q.items) + 1
  BY <1>2, AppendProperties
<1>8. \A e : Has(First(q.getters), e) => Has(q.getters, e)
  BY <1>2, WaiterFacts
<1>9. \A k \in Keys : k # K => WokenGets(k)' = WokenGets(k)
  BY <1>1, <1>3, <1>4, <1>6, <1>8 DEF WokenGets
<1> HIDE DEF q
<1>10. CASE q.getters = <<>>
  <2>1. Others(q.getters) = <<>> /\ \A e : ~Has(First(q.getters), e)
    BY <1>10 DEF First, Others, Has
  <2>2. WokenGets(K)' = WokenGets(K)
    BY <1>1, <1>4, <1>6, <2>1 DEF WokenGets
  <2> QED BY <1>2, <1>5, <1>9, <2>1, <2>2 DEF ItemsAreClaimed
<1>11. CASE q.getters # <<>>
  <2> DEFINE w == Head(q.getters)
  <2>1. w \in Calls /\ \A e : Has(First(q.getters), e) <=> e = w
    BY <1>2, <1>11, WaiterFacts
  <2>2. Has(q.getters, w)
    BY <1>8, <2>1
  <2> HIDE DEF w
  <2>3. WokenGets(K)' = WokenGets(K) \cup {w} /\ w \notin WokenGets(K)
    BY <1>1, <1>3, <1>4, <1>6, <2>1, <2>2 DEF WokenGets
  <2>4. /\ IsFiniteSet(WokenGets(K)) /\ Cardinality(WokenGets(K)) \in Nat
        /\ Len(q.items) <= Cardinality(WokenGets(K))
    BY <1>2, <1>11, FS_CardinalityType DEF ItemsAreClaimed, q
  <2>5. /\ IsFiniteSet(WokenGets(K) \cup {w})
        /\ Cardinality(WokenGets(K) \cup {w}) = Cardinality(WokenGets(K)) + 1
    BY <2>3, <2>4, FS_AddElement
  <2>6. IsFiniteSet(WokenGets(K)') /\ Len(queue'[K].items) <= Cardinality(WokenGets(K)')
    BY <1>2, <1>5, <1>7, <2>3, <2>4, <2>5
  <2> QED BY <1>2, <1>5, <1>9, <2>6 DEF ItemsAreClaimed
<1> QED BY <1>10, <1>11

(* A get that takes an item gives up one claim at most. *)
LEMMA TakeClaims ==
    ASSUME IInv, ItemsAreClaimed, NEW c \in Calls, Get(c) \/ BatchTake(c)
    PROVE  ItemsAreClaimed'
<1> DEFINE K == Key[c]
           q == queue[K]
<1>1. /\ ready # <<>> /\ Head(ready) = c /\ ~IsPut(c) /\ q.items # <<>>
      /\ queue' = [queue EXCEPT ![K] = Removed(q)]
      /\ \/ ready' = Tail(ready) \o First(q.putters) /\ pc' = [pc EXCEPT ![c] = "returned"]
         \/ ready' = ready \o First(q.putters) /\ pc' = pc
  BY DEF Get, BatchTake, Take, Running, Progress, IsPut, Q, Empty
<1>2. /\ K \in Keys /\ Has(ready, c)
      /\ q.items \in Seq(Puts) /\ q.putters \in Seq(Calls)
      /\ Unique(q.putters) /\ Len(q.items) \in Nat
      /\ TypeOK /\ Unique(ready)
  BY <1>1, RunningFacts, QueueType DEF Q, IInv, OnePlace
<1>3. \A e : Has(q.putters, e) => ~Has(ready, e) /\ e \in Calls /\ IsPut(e)
  <2>1. \A e : Has(q.putters, e) => e \in Calls
    BY <1>2, WaiterFacts DEF Has
  <2> QED BY <1>2, <2>1 DEF IInv, OnePlace
<1>4. \A e : Has(First(q.putters), e) => Has(q.putters, e)
  BY <1>2, WaiterFacts
<1>5. /\ \A e : e # c => (Has(ready', e) <=> Has(ready, e) \/ Has(First(q.putters), e))
      /\ ready' = ready \o First(q.putters) => Has(ready', c)
  <2>1. \A e : Has(q.putters, e) => ~Has(ready, e)
    BY <1>3
  <2> HIDE DEF q
  <2>2. /\ \A e : Has(Tail(ready) \o First(q.putters), e) <=>
                   (Has(ready, e) /\ e # Head(ready)) \/ Has(First(q.putters), e)
        /\ \A e : Has(ready \o First(q.putters), e) <=> Has(ready, e) \/ Has(First(q.putters), e)
    BY <1>1, <1>2, <2>1, ReadyFacts
  <2>3. CASE ready' = Tail(ready) \o First(q.putters)
    <3>1. ASSUME ready' = ready \o First(q.putters)
          PROVE  Has(ready', c)
      BY <1>2, <2>2, <3>1, Zenon
    <3>2. \A e : e # c => (Has(ready', e) <=> Has(ready, e) \/ Has(First(q.putters), e))
      BY <1>1, <2>2, <2>3, Zenon
    <3> QED BY <3>1, <3>2
  <2>4. CASE ready' = ready \o First(q.putters)
    BY <1>2, <2>2, <2>4, Zenon
  <2> QED BY <1>1, <2>3, <2>4
<1>6. /\ \A e \in Calls : e # c => pc'[e] = pc[e]
      /\ \/ pc'[c] = "returned"
         \/ pc'[c] = pc[c] /\ (Has(ready', c) <=> Has(ready, c))
  <2>1. CASE pc' = [pc EXCEPT ![c] = "returned"]
    BY <1>2, <2>1 DEF TypeOK
  <2>2. CASE ready' = ready \o First(q.putters) /\ pc' = pc
    BY <1>2, <1>5, <2>2
  <2> QED BY <1>1, <2>1, <2>2
<1>7. /\ queue'[K].items = Tail(q.items)
      /\ queue'[K].getters = q.getters
      /\ \A k \in Keys : k # K => queue'[k] = queue[k]
  BY <1>1, <1>2 DEF Removed, TypeOK
<1>8. Len(Tail(q.items)) = Len(q.items) - 1
  BY <1>1, <1>2, HeadTailProperties
<1>9. \A k \in Keys : k # K => WokenGets(k)' = WokenGets(k)
  BY <1>1, <1>3, <1>4, <1>5, <1>6 DEF WokenGets
<1>10. WokenGets(K)' = WokenGets(K) \ {c} \/ WokenGets(K)' = WokenGets(K)
  BY <1>1, <1>3, <1>4, <1>5, <1>6 DEF WokenGets
<1>11. /\ IsFiniteSet(WokenGets(K)')
       /\ Cardinality(WokenGets(K)) \in Nat /\ Cardinality(WokenGets(K)') \in Nat
       /\ Cardinality(WokenGets(K)') >= Cardinality(WokenGets(K)) - 1
  BY <1>2, <1>10, WokenGetsLess
<1>12. q.getters # <<>> => Len(q.items) <= Cardinality(WokenGets(K))
  BY <1>2 DEF ItemsAreClaimed
<1> HIDE DEF q
<1>13. queue'[K].getters # <<>> => Len(queue'[K].items) <= Cardinality(WokenGets(K)')
  BY <1>2, <1>7, <1>8, <1>11, <1>12
<1> QED BY <1>2, <1>7, <1>9, <1>11, <1>13 DEF ItemsAreClaimed

(* A get that finds no item gives up a claim to nothing; a put has none. *)
LEMMA OtherClaims ==
    ASSUME IInv, ItemsAreClaimed, NEW c \in Calls,
           PutWait(c) \/ PutRaises(c) \/ GetWait(c) \/ GetEmpty(c)
    PROVE  ItemsAreClaimed'
<1> DEFINE K == Key[c]
           q == queue[K]
<1>1. /\ ready # <<>> /\ Head(ready) = c /\ ready' = Tail(ready)
      /\ \E s \in {"waiting", "raised", "returned"} : pc' = [pc EXCEPT ![c] = s]
      /\ \/ IsPut(c) /\ (queue' = queue \/ queue' = [queue EXCEPT ![K] = AwaitRoom(q, c)])
         \/ /\ ~IsPut(c) /\ q.items = <<>>
            /\ queue' = queue \/ queue' = [queue EXCEPT ![K] = AwaitItem(q, c)]
  BY DEF PutWait, PutRaises, GetWait, GetEmpty, Running, Progress, IsPut, Q, Empty
<1>2. /\ K \in Keys /\ TypeOK /\ Unique(ready)
      /\ q \in [items : Seq(Puts), getters : Seq(Calls), putters : Seq(Calls)]
  BY <1>1, QueueType DEF IInv, OnePlace, TypeOK
<1>3. \A e : Has(ready', e) <=> Has(ready, e) /\ e # c
  BY <1>1, <1>2, TailFacts DEF TypeOK
<1>4. \A e \in Calls : e # c => pc'[e] = pc[e]
  BY <1>1, <1>2 DEF TypeOK
<1>5. /\ \A k \in Keys : k # K => queue'[k] = queue[k]
      /\ queue'[K].items = q.items
      /\ IsPut(c) => queue'[K].getters = q.getters
  <2>1. /\ AwaitRoom(q, c).items = q.items /\ AwaitRoom(q, c).getters = q.getters
        /\ AwaitItem(q, c).items = q.items
    BY <1>2 DEF AwaitRoom, AwaitItem
  <2>2. DOMAIN queue = Keys
    BY <1>2 DEF TypeOK
  <2> HIDE DEF q
  <2>3. q = queue[K]
    BY DEF q
  <2> QED BY <1>1, <1>2, <2>1, <2>2, <2>3
<1>6. \A k \in Keys : WokenGets(k)' =
          IF k = K /\ ~IsPut(c) THEN WokenGets(k) \ {c} ELSE WokenGets(k)
  BY <1>3, <1>4 DEF WokenGets
<1>7. CASE IsPut(c)
  <2>1. \A k \in Keys : /\ WokenGets(k)' = WokenGets(k)
                        /\ queue'[k].items = queue[k].items
                        /\ queue'[k].getters = queue[k].getters
    BY <1>5, <1>6, <1>7
  <2> QED BY <2>1 DEF ItemsAreClaimed
<1>8. CASE ~IsPut(c)
  <2>1. WokenGets(K)' = WokenGets(K) \ {c}
    BY <1>2, <1>6, <1>8
  <2>2. IsFiniteSet(WokenGets(K)') /\ Cardinality(WokenGets(K)') \in Nat
    BY <1>2, <2>1, WokenGetsLess
  <2>3. queue'[K].items = <<>>
    BY <1>1, <1>5, <1>8
  <2>4. Len(queue'[K].items) <= Cardinality(WokenGets(K)')
    BY <2>2, <2>3
  <2>5. \A k \in Keys : k # K => WokenGets(k)' = WokenGets(k)
    BY <1>6
  <2> QED BY <1>2, <1>5, <2>2, <2>4, <2>5 DEF ItemsAreClaimed
<1> QED BY <1>7, <1>8

(* When nothing is left to run, no get is parked on a queue with an item,   *)
(* as long as batches fit their targets: while gets are parked every item   *)
(* has a woken get to take it, and an empty ready holds no woken get.       *)
THEOREM ItemsAreNotWasted ==
    ASSUME BatchesFit
    PROVE  Spec => []GettersServed
<1>1. ASSUME Init
      PROVE  Hungry /\ ItemsAreClaimed
  <2>1. Hungry
    BY <1>1, BatchesFit, CallsAssumption DEF Init, Hungry, BatchesFit
  <2>2. \A k \in Keys : WokenGets(k) = {} /\ queue[k].getters = <<>>
    BY <1>1 DEF Init, WokenGets, NewQueue
  <2> QED BY <2>1, <2>2, FS_EmptySet DEF ItemsAreClaimed
<1>2. ASSUME IInv, Hungry, ItemsAreClaimed, [Next]_vars
      PROVE  Hungry' /\ ItemsAreClaimed'
  <2>1. CASE UNCHANGED vars
    <3>1. \A k \in Keys : WokenGets(k)' = WokenGets(k)
      BY <2>1 DEF WokenGets, vars
    <3> QED BY <1>2, <2>1, <3>1, HungryNext DEF ItemsAreClaimed, vars
  <2>2. CASE Next
    BY <1>2, <2>2, BatchesFit, HungryNext, NoBatchStops, ArriveClaims, PutClaims, TakeClaims,
       OtherClaims DEF Next, RunReady
  <2> QED BY <1>2, <2>1, <2>2
<1>3. ASSUME IInv, ItemsAreClaimed, ready = <<>>, NEW k \in Keys, queue[k].getters # <<>>
      PROVE  Empty(queue[k])
  <2>1. WokenGets(k) = {}
    BY <1>3 DEF WokenGets, Has
  <2>2. Cardinality(WokenGets(k)) = 0
    BY <2>1, FS_EmptySet
  <2>3. queue[k].items \in Seq(Puts)
    BY <1>3 DEF IInv, TypeOK
  <2>4. Len(queue[k].items) <= 0
    BY <1>3, <2>2 DEF ItemsAreClaimed
  <2>5. queue[k].items = <<>>
    BY <2>3, <2>4
  <2> QED BY <2>5 DEF Empty
<1>4. IInv /\ ItemsAreClaimed => GettersServed
  BY <1>3 DEF GettersServed
<1> QED BY <1>1, <1>2, <1>4, Invariant, PTL DEF Spec

-----------------------------------------------------------------------------
(* The put side of a channel: ChannelPut. *)

CONSTANTS Producers, Program, NoPut
VARIABLES made, awaits, last, work, wire, carried, got

PutSide == INSTANCE ChannelPut

(* The assumptions of ChannelPut. *)
PutsAssumption ==
    /\ Program \in [Producers -> Seq([key : Keys, mode : PutSide!Modes])]
    /\ NoPut \notin PutSide!Puts

(* How many items of p the channel worker has received. *)
Received(p) == made[p] - Len(wire[p])

PutTypes ==
    /\ made \in [Producers -> Nat]
    /\ \A p \in Producers : made[p] <= Len(Program[p])
    /\ last \in [Producers -> [Keys -> PutSide!Puts \cup {NoPut}]]
    /\ work \in [PutSide!Puts ->
          {"none", "chained", "called", "running", "returned", "done", "raised"}]
    /\ wire \in [Producers -> Seq(PutSide!Puts)]
    /\ carried \in [PutSide!Puts -> PutSide!Puts \cup {NoPut}]
    /\ ready \in Seq(PutSide!Puts)
    /\ queue \in [Keys -> [items : Seq(PutSide!Puts), getters : {<<>>},
                           putters : Seq(PutSide!Puts)]]
    /\ got \in [Keys -> Seq(PutSide!Puts)]

(* The items of a producer travel in the order of its puts. *)
Travel ==
    /\ \A u \in PutSide!Puts : work[u] = "none" <=> u[2] > made[u[1]]
    /\ \A p \in Producers :
        /\ Received(p) >= 0
        /\ \A n \in 1..Len(wire[p]) : wire[p][n] = <<p, Received(p) + n>>

(* Each item that was received is with one coroutine of its producer, which *)
(* answers with an item only.                                               *)
Carrying ==
    /\ \A v \in PutSide!Puts :
        /\ carried[v] # NoPut =>
              /\ work[v] \in {"running", "returned", "done", "raised"}
              /\ carried[v][1] = v[1] /\ carried[v][2] <= Received(v[1])
        /\ work[v] \in {"returned", "done", "raised"} => carried[v] # NoPut
        /\ work[v] = "raised" => PutSide!Mode(v) = "nowait"
    /\ \A v, w \in PutSide!Puts : carried[v] = carried[w] /\ carried[v] # NoPut => v = w
    /\ \A u \in PutSide!Puts :
        u[2] <= Received(u[1]) => \E v \in PutSide!Puts : carried[v] = u

(* A coroutine is at one place, to be run or parked under the key of its    *)
(* item.                                                                    *)
PutPlaces ==
    /\ Unique(ready)
    /\ \A u : Has(ready, u) => work[u] = "running"
    /\ \A k \in Keys :
        /\ Unique(queue[k].putters)
        /\ \A u : Has(queue[k].putters, u) =>
              /\ work[u] = "running" /\ ~Has(ready, u)
              /\ carried[u] # NoPut /\ PutSide!KeyOf(carried[u]) = k

(* The coroutine that carried item u has answered. *)
Shipped(u) == \E v \in PutSide!Puts : carried[v] = u /\ work[v] \in {"returned", "done"}

(* What was answered is stored once, under its own key. *)
Stowed ==
    \A k \in Keys :
        /\ Unique(PutSide!History(k))
        /\ \A u : Has(PutSide!History(k), u) <=>
              u \in PutSide!Puts /\ PutSide!KeyOf(u) = k /\ Shipped(u)

CargoInv == PutTypes /\ Travel /\ Carrying /\ PutPlaces /\ Stowed

(* The operators of the queue are the same whoever uses them. *)
LEMMA PutSideOperators ==
    /\ \A s, e : PutSide!Has(s, e) <=> Has(s, e)
    /\ \A s : PutSide!First(s) = First(s) /\ PutSide!Others(s) = Others(s)
BY DEF PutSide!Has, Has, PutSide!First, First, PutSide!Others, Others

(* A put is a pair of its producer and its place in the program. *)
LEMMA PutsAreNumbered ==
    ASSUME PutsAssumption
    PROVE  /\ \A u \in PutSide!Puts :
                /\ u[1] \in Producers /\ u[2] \in Nat \ {0} /\ u[2] <= Len(Program[u[1]])
                /\ u = <<u[1], u[2]>>
                /\ PutSide!KeyOf(u) \in Keys
                /\ u # NoPut
           /\ \A u, v \in PutSide!Puts : u[1] = v[1] /\ u[2] = v[2] => u = v
           /\ \A p \in Producers, i \in Nat \ {0} :
                i <= Len(Program[p]) => <<p, i>> \in PutSide!Puts
<1>1. \A p \in Producers :
        /\ Program[p] \in Seq([key : Keys, mode : PutSide!Modes])
        /\ Len(Program[p]) \in Nat
        /\ DOMAIN Program[p] = 1..Len(Program[p])
  BY LenProperties DEF PutsAssumption
<1>2. ASSUME NEW u \in PutSide!Puts
      PROVE  \E p \in Producers : \E i \in DOMAIN Program[p] : u = <<p, i>>
  BY <1>2 DEF PutSide!Puts
<1>3. ASSUME NEW u \in PutSide!Puts
      PROVE  /\ u[1] \in Producers /\ u[2] \in Nat \ {0} /\ u[2] <= Len(Program[u[1]])
             /\ u = <<u[1], u[2]>>
             /\ PutSide!KeyOf(u) \in Keys
             /\ u # NoPut
  <2>0. PICK p \in Producers : \E i \in DOMAIN Program[p] : u = <<p, i>>
    BY <1>2
  <2>1. PICK i \in DOMAIN Program[p] : u = <<p, i>>
    BY <2>0
  <2>2. u[1] = p /\ u[2] = i /\ i \in 1..Len(Program[p])
    BY <1>1, <2>1
  <2>3. Program[p][i] \in [key : Keys, mode : PutSide!Modes]
    BY <1>1, <2>2, ElementOfSeq
  <2>4. PutSide!KeyOf(u) \in Keys
    BY <2>2, <2>3 DEF PutSide!KeyOf
  <2>5. u # NoPut
    BY DEF PutsAssumption
  <2> QED BY <1>1, <2>1, <2>2, <2>4, <2>5
<1>4. ASSUME NEW p \in Producers, NEW i \in Nat \ {0}, i <= Len(Program[p])
      PROVE  <<p, i>> \in PutSide!Puts
  BY <1>1, <1>4 DEF PutSide!Puts
<1> QED BY <1>3, <1>4

(* The shape of the queues. *)
LEMMA PutQueues ==
    ASSUME PutTypes, NEW k \in Keys
    PROVE  /\ queue[k].items \in Seq(PutSide!Puts) /\ queue[k].putters \in Seq(PutSide!Puts)
           /\ queue[k].getters = <<>>
           /\ got[k] \in Seq(PutSide!Puts)
           /\ PutSide!History(k) \in Seq(PutSide!Puts)
<1>1. queue[k] \in [items : Seq(PutSide!Puts), getters : {<<>>}, putters : Seq(PutSide!Puts)]
  BY DEF PutTypes
<1>2. got[k] \in Seq(PutSide!Puts)
  BY DEF PutTypes
<1> QED BY <1>1, <1>2, ConcatFacts DEF PutSide!History

(* Members of the waiting lists are puts. *)
LEMMA PutMembers ==
    ASSUME PutTypes
    PROVE  /\ \A u : Has(ready, u) => u \in PutSide!Puts
           /\ \A k \in Keys : \A u : Has(queue[k].putters, u) => u \in PutSide!Puts
<1>1. ready \in Seq(PutSide!Puts) /\ \A k \in Keys : queue[k].putters \in Seq(PutSide!Puts)
  BY PutQueues DEF PutTypes
<1>2. ASSUME NEW s \in Seq(PutSide!Puts), NEW u, Has(s, u)
      PROVE  u \in PutSide!Puts
  BY <1>2, ElementOfSeq, LenProperties DEF Has
<1> QED BY <1>1, <1>2

(* Initially there is nothing. *)
LEMMA CargoInit ==
    ASSUME PutsAssumption, PutSide!Init
    PROVE  CargoInv
<1>1. PutTypes
  BY PutsAreNumbered DEF PutSide!Init, PutTypes, PutSide!NewQueue, PutsAssumption
<1>2. Travel
  BY PutsAreNumbered DEF PutSide!Init, Travel, Received
<1>3. Carrying
  BY PutsAreNumbered DEF PutSide!Init, Carrying, Received
<1>4. PutPlaces
  BY DEF PutSide!Init, PutPlaces, PutSide!NewQueue, Unique, Has
<1>5. \A k \in Keys : PutSide!History(k) = <<>>
  BY DEF PutSide!Init, PutSide!History, PutSide!NewQueue
<1>6. \A u : ~Shipped(u)
  BY DEF PutSide!Init, Shipped
<1>7. Stowed
  BY <1>5, <1>6 DEF Stowed, Has, Unique
<1> QED BY <1>1, <1>2, <1>3, <1>4, <1>7 DEF CargoInv

(* A step that leaves the queues alone keeps what they hold. *)
LEMMA PutHistoryKept ==
    ASSUME UNCHANGED <<queue, got>>
    PROVE  \A k : PutSide!History(k)' = PutSide!History(k)
BY DEF PutSide!History

(* A step that stores nothing and after which the same calls have answered. *)
LEMMA StowedKept ==
    ASSUME Stowed, \A k \in Keys : PutSide!History(k)' = PutSide!History(k),
           \A u : Shipped(u)' <=> Shipped(u)
    PROVE  Stowed'
<1> SUFFICES ASSUME NEW k \in Keys
             PROVE  /\ Unique(PutSide!History(k)')
                    /\ \A u : Has(PutSide!History(k)', u) <=>
                          u \in PutSide!Puts /\ PutSide!KeyOf(u) = k /\ Shipped(u)'
  BY DEF Stowed
<1>1. PutSide!History(k)' = PutSide!History(k)
  OBVIOUS
<1>2. Unique(PutSide!History(k)')
  BY <1>1 DEF Stowed
<1>3. ASSUME NEW u
      PROVE  Has(PutSide!History(k)', u) <=>
                u \in PutSide!Puts /\ PutSide!KeyOf(u) = k /\ Shipped(u)'
  BY <1>1 DEF Stowed
<1> QED BY <1>2, <1>3

(* Making a put. *)
LEMMA CargoMade ==
    ASSUME PutsAssumption, CargoInv, NEW p \in Producers, PutSide!Put(p)
    PROVE  /\ CargoInv'
           /\ \A q \in Producers : Received(q)' = Received(q)
<1> DEFINE u == <<p, made[p] + 1>>
           k == PutSide!KeyOf(u)
<1>1. /\ made[p] < Len(Program[p])
      /\ made' = [made EXCEPT ![p] = @ + 1]
      /\ work' = [work EXCEPT ![u] = PutSide!Enqueued(p, k)]
      /\ last' = [last EXCEPT ![p][k] = u]
      /\ wire' = [wire EXCEPT ![p] = Append(@, u)]
      /\ UNCHANGED <<carried, ready, queue, got>>
  BY DEF PutSide!Put
<1>2. PutTypes /\ Travel /\ Carrying /\ PutPlaces /\ Stowed /\ made[p] \in Nat
  BY DEF CargoInv, PutTypes
<1>3. /\ u \in PutSide!Puts /\ u[1] = p /\ u[2] = made[p] + 1 /\ k \in Keys
      /\ Len(Program[p]) \in Nat
  <2>1. Len(Program[p]) \in Nat
    BY LenProperties DEF PutsAssumption
  <2>2. u \in PutSide!Puts
    BY <1>1, <1>2, <2>1, PutsAreNumbered
  <2> QED BY <2>1, <2>2, PutsAreNumbered
<1>4. PutSide!Enqueued(p, k) \in {"called", "chained"}
  BY DEF PutSide!Enqueued
<1>5. /\ work[u] = "none"
      /\ \A v \in PutSide!Puts : v # u => work'[v] = work[v]
      /\ work'[u] = PutSide!Enqueued(p, k)
  BY <1>1, <1>2, <1>3 DEF Travel, PutTypes
<1>6. /\ made'[p] = made[p] + 1
      /\ \A q \in Producers : q # p => made'[q] = made[q]
      /\ \A q \in Producers : made[q] \in Nat
  BY <1>1, <1>2 DEF PutTypes
<1>7. /\ wire[p] \in Seq(PutSide!Puts) /\ Len(wire[p]) \in Nat
      /\ wire'[p] = Append(wire[p], u)
      /\ Len(wire'[p]) = Len(wire[p]) + 1
      /\ \A n \in 1..Len(wire[p]) : wire'[p][n] = wire[p][n]
      /\ wire'[p][Len(wire[p]) + 1] = u
      /\ \A q \in Producers : q # p => wire'[q] = wire[q]
  BY <1>1, <1>2, <1>3, AppendProperties, LenProperties DEF PutTypes
<1> HIDE DEF u, k
<1>8. PutTypes'
  BY <1>1, <1>2, <1>3, <1>4, <1>6, <1>7, SMTT(30) DEF PutTypes
<1>9. /\ \A q \in Producers : Len(wire[q]) \in Nat /\ Received(q)' = Received(q)
      /\ \A q \in Producers : Received(q) \in Int
  <2> SUFFICES ASSUME NEW q \in Producers
               PROVE  Len(wire[q]) \in Nat /\ Received(q)' = Received(q) /\ Received(q) \in Int
    OBVIOUS
  <2>1. Len(wire[q]) \in Nat
    BY <1>2, LenProperties DEF PutTypes
  <2>2. made'[q] - Len(wire'[q]) = made[q] - Len(wire[q])
    <3>1. ASSUME NEW a \in Nat, NEW b \in Nat
          PROVE  (a + 1) - (b + 1) = a - b
      OBVIOUS
    <3>2. CASE q = p
      BY <1>6, <1>7, <3>1, <3>2, Zenon
    <3>3. CASE q # p
      BY <1>6, <1>7, <3>3, Zenon
    <3> QED BY <3>2, <3>3
  <2> QED BY <1>6, <2>1, <2>2 DEF Received
<1>10. /\ \A v \in PutSide!Puts : v[1] \in Producers /\ v[2] \in Nat \ {0}
       /\ \A v, w \in PutSide!Puts : v[1] = w[1] /\ v[2] = w[2] => v = w
  BY PutsAreNumbered
<1>11. Travel'
  <2>1. \A n \in 1..Len(wire'[p]) : wire'[p][n] = <<p, Received(p) + n>>
    <3> SUFFICES ASSUME NEW n \in 1..Len(wire'[p])
                 PROVE  wire'[p][n] = <<p, Received(p) + n>>
      OBVIOUS
    <3>1. CASE n \in 1..Len(wire[p])
      BY <1>2, <1>7, <3>1 DEF Travel
    <3>2. CASE n = Len(wire[p]) + 1
      <4>1. Received(p) + n = made[p] + 1
        BY <1>6, <1>7, <3>2 DEF Received
      <4> QED BY <1>7, <3>2, <4>1 DEF u
    <3> QED BY <1>7, <3>1, <3>2
  <2>2. \A v \in PutSide!Puts : work'[v] = "none" <=> v[2] > made'[v[1]]
    BY <1>2, <1>3, <1>4, <1>5, <1>6, <1>10 DEF Travel
  <2>3. \A q \in Producers :
          /\ Received(q)' >= 0
          /\ \A n \in 1..Len(wire'[q]) : wire'[q][n] = <<q, Received(q)' + n>>
    BY <1>2, <1>7, <1>9, <2>1 DEF Travel
  <2> QED BY <2>2, <2>3 DEF Travel
<1>12. Carrying'
  <2>1. \A v \in PutSide!Puts : v # u => work'[v] = work[v]
    BY <1>5
  <2>2. carried[u] = NoPut
    BY <1>2, <1>3, <1>5 DEF Carrying
  <2>3. \A v \in PutSide!Puts : Received(v[1])' = Received(v[1])
    BY <1>9, <1>10
  <2>4. /\ work'[u] \notin {"returned", "done", "raised"}
        /\ carried' = carried
    BY <1>1, <1>4, <1>5
  <2>5. /\ \A v \in PutSide!Puts : carried[v] # NoPut => work'[v] = work[v]
        /\ \A v \in PutSide!Puts :
             work'[v] \in {"returned", "done", "raised"} => work'[v] = work[v]
    BY <2>1, <2>2, <2>4
  <2>6. ASSUME NEW v \in PutSide!Puts
        PROVE  /\ carried'[v] # NoPut =>
                     /\ work'[v] \in {"running", "returned", "done", "raised"}
                     /\ carried'[v][1] = v[1] /\ carried'[v][2] <= Received(v[1])'
               /\ work'[v] \in {"returned", "done", "raised"} => carried'[v] # NoPut
               /\ work'[v] = "raised" => PutSide!Mode(v) = "nowait"
    <3>1. Received(v[1])' = Received(v[1])
      BY <2>3
    <3> QED BY <1>2, <2>4, <2>5, <3>1 DEF Carrying
  <2>7. /\ \A v, w \in PutSide!Puts : carried'[v] = carried'[w] /\ carried'[v] # NoPut => v = w
        /\ \A v \in PutSide!Puts :
             v[2] <= Received(v[1])' => \E w \in PutSide!Puts : carried'[w] = v
    BY <1>2, <2>3, <2>4 DEF Carrying
  <2> QED BY <2>6, <2>7 DEF Carrying
<1>13. PutPlaces'
  <2>1. \A v : Has(ready, v) => v # u
    BY <1>2, <1>5 DEF PutPlaces
  <2>2. \A j \in Keys : \A v : Has(queue[j].putters, v) => v # u
    BY <1>2, <1>5 DEF PutPlaces
  <2>3. /\ \A v : Has(ready, v) => v \in PutSide!Puts
        /\ \A j \in Keys : \A v : Has(queue[j].putters, v) => v \in PutSide!Puts
    BY <1>2, PutMembers
  <2>4. \A v \in PutSide!Puts : v # u => work'[v] = work[v]
    BY <1>5
  <2> QED BY <1>1, <1>2, <2>1, <2>2, <2>3, <2>4 DEF PutPlaces
<1>14. Stowed'
  <2>1. \A w : Shipped(w)' <=> Shipped(w)
    BY <1>1, <1>4, <1>5 DEF Shipped
  <2> QED BY <1>1, <1>2, <2>1, PutHistoryKept, StowedKept
<1> QED BY <1>8, <1>9, <1>11, <1>12, <1>13, <1>14 DEF CargoInv

(* A step that touches nothing of the puts' travel. *)
LEMMA CargoKept ==
    ASSUME CargoInv, UNCHANGED <<made, last, work, wire, carried, ready, queue, got>>
    PROVE  CargoInv'
<1>1. PutTypes' /\ Travel' /\ Carrying' /\ PutPlaces'
  BY DEF CargoInv, PutTypes, Travel, Received, Carrying, PutPlaces
<1>2. \A u : Shipped(u)' <=> Shipped(u)
  BY DEF Shipped
<1>3. Stowed'
  BY <1>2, PutHistoryKept, StowedKept DEF CargoInv
<1> QED BY <1>1, <1>3 DEF CargoInv

(* The callback of a call that returned: the put is done and the next one   *)
(* of its producer under its key, if it is chained, is called.              *)
LEMMA CargoCompleted ==
    ASSUME CargoInv, NEW u \in PutSide!Puts, PutSide!Complete(u)
    PROVE  CargoInv'
<1>1. /\ work[u] = "returned"
      /\ work' = [v \in PutSide!Puts |->
             IF v = u THEN "done"
             ELSE IF PutSide!Follows(v, u) /\ work[v] = "chained" THEN "called"
             ELSE work[v]]
      /\ UNCHANGED <<made, last, wire, carried, ready, queue, got>>
  BY DEF PutSide!Complete, PutSide!clientVars
<1>2. PutTypes /\ Travel /\ Carrying /\ PutPlaces /\ Stowed
  BY DEF CargoInv
<1>3. /\ work'[u] = "done"
      /\ \A v \in PutSide!Puts : v # u =>
             work'[v] = work[v] \/ (work[v] = "chained" /\ work'[v] = "called")
  BY <1>1
<1>4. PutTypes'
  BY <1>1, <1>2 DEF PutTypes
<1>5. Travel' /\ Carrying'
  <2>1. \A v \in PutSide!Puts : work'[v] = "none" <=> work[v] = "none"
    BY <1>1, <1>3
  <2>2. /\ \A v \in PutSide!Puts : work[v] \in {"running", "returned", "done", "raised"}
                <=> work'[v] \in {"running", "returned", "done", "raised"}
        /\ \A v \in PutSide!Puts : work[v] \in {"returned", "done", "raised"}
                <=> work'[v] \in {"returned", "done", "raised"}
        /\ \A v \in PutSide!Puts : work[v] = "raised" <=> work'[v] = "raised"
    BY <1>1, <1>3
  <2>3. Travel'
    BY <1>1, <1>2, <2>1 DEF Travel, Received
  <2>4. Carrying'
    BY <1>1, <1>2, <2>2 DEF Carrying, Received
  <2> QED BY <2>3, <2>4
<1>6. \A v : work[v] = "running" /\ v \in PutSide!Puts => work'[v] = "running"
  BY <1>1, <1>3
<1>7. PutPlaces'
  BY <1>1, <1>2, <1>6, PutMembers DEF PutPlaces
<1>8. \A w : Shipped(w)' <=> Shipped(w)
  <2>1. \A v \in PutSide!Puts :
          work'[v] \in {"returned", "done"} <=> work[v] \in {"returned", "done"}
    BY <1>1, <1>3
  <2> QED BY <1>1, <2>1 DEF Shipped
<1>9. Stowed'
  BY <1>1, <1>2, <1>8, PutHistoryKept, StowedKept
<1> QED BY <1>4, <1>5, <1>7, <1>9 DEF CargoInv

(* What holds of the coroutine that runs. *)
LEMMA PutRuns ==
    ASSUME CargoInv, NEW u \in PutSide!Puts, PutSide!Running(u)
    PROVE  /\ work[u] = "running" /\ Has(ready, u) /\ ready # <<>>
           /\ Tail(ready) \in Seq(PutSide!Puts) /\ Unique(Tail(ready))
           /\ \A e : Has(Tail(ready), e) <=> Has(ready, e) /\ e # u
           /\ \A k \in Keys : ~Has(queue[k].putters, u)
<1>1. ready \in Seq(PutSide!Puts) /\ ready # <<>> /\ Head(ready) = u /\ Unique(ready)
  BY DEF PutSide!Running, CargoInv, PutTypes, PutPlaces
<1>2. /\ Has(ready, u)
      /\ Tail(ready) \in Seq(PutSide!Puts) /\ Unique(Tail(ready))
      /\ \A e : Has(Tail(ready), e) <=> Has(ready, e) /\ e # u
  BY <1>1, TailFacts
<1> QED BY <1>1, <1>2 DEF CargoInv, PutPlaces

(* The remote call starts. *)
LEMMA CargoArrived ==
    ASSUME CargoInv, NEW u \in PutSide!Puts, PutSide!Arrive(u)
    PROVE  CargoInv'
<1>1. /\ work[u] = "called"
      /\ work' = [work EXCEPT ![u] = "running"]
      /\ ready' = Append(ready, u)
      /\ UNCHANGED <<made, last, wire, carried, queue, got>>
  BY DEF PutSide!Arrive, PutSide!clientVars
<1>2. PutTypes /\ Travel /\ Carrying /\ PutPlaces /\ Stowed
  BY DEF CargoInv
<1>3. /\ work'[u] = "running"
      /\ \A v \in PutSide!Puts : v # u => work'[v] = work[v]
  BY <1>1, <1>2 DEF PutTypes
<1>4. /\ ready \in Seq(PutSide!Puts) /\ ~Has(ready, u)
      /\ \A k \in Keys : ~Has(queue[k].putters, u)
  BY <1>1, <1>2 DEF PutTypes, PutPlaces
<1>5. /\ ready' \in Seq(PutSide!Puts) /\ Unique(ready')
      /\ \A e : Has(ready', e) <=> Has(ready, e) \/ e = u
  BY <1>1, <1>2, <1>4, AppendFacts DEF PutPlaces
<1>6. PutTypes'
  BY <1>1, <1>2, <1>5 DEF PutTypes
<1>7. Travel' /\ Carrying'
  <2>1. \A v \in PutSide!Puts : work'[v] = "none" <=> work[v] = "none"
    BY <1>1, <1>3
  <2>2. Travel'
    BY <1>1, <1>2, <2>1 DEF Travel, Received
  <2>3. Carrying'
    BY <1>1, <1>2, <1>3 DEF Carrying, Received
  <2> QED BY <2>2, <2>3
<1>8. PutPlaces'
  BY <1>1, <1>2, <1>3, <1>4, <1>5, PutMembers DEF PutPlaces
<1>9. \A w : Shipped(w)' <=> Shipped(w)
  BY <1>1, <1>3 DEF Shipped
<1>10. Stowed'
  BY <1>1, <1>2, <1>9, PutHistoryKept, StowedKept
<1> QED BY <1>6, <1>7, <1>8, <1>10 DEF CargoInv

(* The coroutine receives the next item of its producer, which no other     *)
(* coroutine carries.                                                       *)
LEMMA CargoReceived ==
    ASSUME PutsAssumption, CargoInv, NEW u \in PutSide!Puts, PutSide!Receive(u)
    PROVE  /\ CargoInv'
           /\ carried[u] = NoPut /\ carried'[u] = <<u[1], Received(u[1]) + 1>>
           /\ \A v \in PutSide!Puts : v # u => carried'[v] = carried[v]
           /\ Received(u[1])' = Received(u[1]) + 1
           /\ \A q \in Producers : q # u[1] => Received(q)' = Received(q)
           /\ \A q \in Producers : Received(q) \in Nat
<1> DEFINE p == u[1]
<1>1. /\ PutSide!Running(u) /\ carried[u] = NoPut /\ wire[p] # <<>>
      /\ wire' = [wire EXCEPT ![p] = Tail(@)]
      /\ carried' = [carried EXCEPT ![u] = Head(wire[p])]
      /\ UNCHANGED <<made, last, work, ready, queue, got>>
  BY DEF PutSide!Receive, PutSide!clientVars
<1>2. PutTypes /\ Travel /\ Carrying /\ PutPlaces /\ Stowed
  BY DEF CargoInv
<1>3. /\ \A v \in PutSide!Puts : v[1] \in Producers /\ v[2] \in Nat \ {0} /\ v # NoPut
      /\ \A v \in PutSide!Puts : v = <<v[1], v[2]>>
      /\ \A v, w \in PutSide!Puts : v[1] = w[1] /\ v[2] = w[2] => v = w
  BY PutsAreNumbered
<1>4. work[u] = "running" /\ p \in Producers
  BY <1>1, <1>3, PutRuns
<1>5. /\ wire[p] \in Seq(PutSide!Puts) /\ Len(wire[p]) \in Nat \ {0}
      /\ Tail(wire[p]) \in Seq(PutSide!Puts) /\ Len(Tail(wire[p])) = Len(wire[p]) - 1
      /\ \A n \in 1..Len(Tail(wire[p])) : Tail(wire[p])[n] = wire[p][n + 1]
      /\ Head(wire[p]) = wire[p][1] /\ Head(wire[p]) \in PutSide!Puts
  BY <1>1, <1>2, <1>3, HeadTailProperties, LenProperties, EmptySeq DEF PutTypes
<1>6. \A q \in Producers : made[q] \in Nat /\ Len(wire[q]) \in Nat
  BY <1>2, LenProperties DEF PutTypes
<1> HIDE DEF p
<1>7. \A q \in Producers : Received(q) \in Nat
  BY <1>2, <1>6 DEF Travel, Received
<1>a. PICK x \in PutSide!Puts : x = Head(wire[p])
  BY <1>5
<1>8. x = <<p, Received(p) + 1>> /\ x[1] = p /\ x[2] = Received(p) + 1
  <2>1. 1 \in 1..Len(wire[p])
    BY <1>5
  <2>2. wire[p][1] = <<p, Received(p) + 1>>
    BY <1>2, <1>4, <2>1 DEF Travel
  <2> QED BY <1>5, <1>a, <2>2
<1>9. /\ wire'[p] = Tail(wire[p]) /\ \A q \in Producers : q # p => wire'[q] = wire[q]
      /\ carried'[u] = x /\ \A v \in PutSide!Puts : v # u => carried'[v] = carried[v]
  BY <1>1, <1>2, <1>4, <1>a DEF PutTypes
<1>10. PutTypes'
  BY <1>1, <1>2, <1>5 DEF PutTypes
<1>11. /\ Received(p)' = Received(p) + 1
       /\ \A q \in Producers : q # p => Received(q)' = Received(q)
  <2>1. ASSUME NEW a \in Nat, NEW b \in Nat
        PROVE  a - (b - 1) = (a - b) + 1
    OBVIOUS
  <2>2. made[p] - (Len(wire[p]) - 1) = (made[p] - Len(wire[p])) + 1
    BY <1>4, <1>6, <2>1, Zenon
  <2>3. made' = made /\ wire'[p] = Tail(wire[p]) /\ Len(Tail(wire[p])) = Len(wire[p]) - 1
    BY <1>1, <1>5, <1>9
  <2>4. Received(p)' = Received(p) + 1
    BY <2>2, <2>3, Zenon DEF Received
  <2>5. ASSUME NEW q \in Producers, q # p
        PROVE  Received(q)' = Received(q)
    BY <1>1, <1>9, <2>5 DEF Received
  <2> QED BY <2>4, <2>5
<1>12. Travel'
  <2>1. ASSUME NEW n \in 1..Len(wire'[p])
        PROVE  wire'[p][n] = <<p, Received(p)' + n>>
    <3>1. wire'[p][n] = wire[p][n + 1] /\ n + 1 \in 1..Len(wire[p])
      BY <1>5, <1>9, <2>1
    <3>2. Received(p)' + n = Received(p) + (n + 1)
      BY <1>4, <1>7, <1>11
    <3>3. wire[p][n + 1] = <<p, Received(p) + (n + 1)>>
      BY <1>2, <1>4, <3>1 DEF Travel
    <3> QED BY <3>1, <3>2, <3>3
  <2>2. \A q \in Producers :
          /\ Received(q)' >= 0
          /\ \A n \in 1..Len(wire'[q]) : wire'[q][n] = <<q, Received(q)' + n>>
    <3>1. ASSUME NEW q \in Producers, q # p
          PROVE  /\ Received(q)' >= 0
                 /\ \A n \in 1..Len(wire'[q]) : wire'[q][n] = <<q, Received(q)' + n>>
      <4>1. Received(q)' = Received(q) /\ wire'[q] = wire[q]
        BY <1>9, <1>11, <3>1
      <4> QED BY <1>2, <4>1 DEF Travel
    <3>2. Received(p)' >= 0
      BY <1>4, <1>7, <1>11
    <3> QED BY <2>1, <3>1, <3>2
  <2>3. \A v \in PutSide!Puts : work'[v] = "none" <=> v[2] > made'[v[1]]
    BY <1>1, <1>2 DEF Travel
  <2> QED BY <2>2, <2>3 DEF Travel
<1>13. \A v \in PutSide!Puts : carried[v] # x
  <2> SUFFICES ASSUME NEW v \in PutSide!Puts, carried[v] = x
               PROVE  FALSE
    OBVIOUS
  <2>1. x # NoPut
    BY <1>3
  <2>2. x[1] = v[1] /\ x[2] <= Received(v[1])
    BY <1>2, <2>1 DEF Carrying
  <2> QED BY <1>4, <1>7, <1>8, <2>2
<1>14. Carrying'
  <2>1. ASSUME NEW v \in PutSide!Puts, carried'[v] # NoPut
        PROVE  /\ work'[v] \in {"running", "returned", "done", "raised"}
               /\ carried'[v][1] = v[1] /\ carried'[v][2] <= Received(v[1])'
    <3>1. CASE v = u
      BY <1>1, <1>4, <1>7, <1>8, <1>9, <1>11, <3>1 DEF p
    <3>2. CASE v # u
      <4>1. /\ work[v] \in {"running", "returned", "done", "raised"}
            /\ carried[v][1] = v[1] /\ carried[v][2] <= Received(v[1])
            /\ carried[v] \in PutSide!Puts
        BY <1>2, <1>9, <2>1, <3>2 DEF Carrying, PutTypes
      <4>2. Received(v[1])' >= Received(v[1]) /\ Received(v[1])' \in Nat
            /\ Received(v[1]) \in Nat /\ carried[v][2] \in Nat
        BY <1>3, <1>4, <1>7, <1>11, <4>1
      <4> QED BY <1>1, <1>9, <3>2, <4>1, <4>2
    <3> QED BY <3>1, <3>2
  <2>2. \A v \in PutSide!Puts :
          /\ work'[v] \in {"returned", "done", "raised"} => carried'[v] # NoPut
          /\ work'[v] = "raised" => PutSide!Mode(v) = "nowait"
    BY <1>1, <1>2, <1>3, <1>9 DEF Carrying
  <2>3. \A v, w \in PutSide!Puts : carried'[v] = carried'[w] /\ carried'[v] # NoPut => v = w
    BY <1>2, <1>9, <1>13 DEF Carrying
  <2>4. ASSUME NEW w \in PutSide!Puts, w[2] <= Received(w[1])'
        PROVE  \E v \in PutSide!Puts : carried'[v] = w
    <3>1. CASE w = x
      BY <1>9, <3>1
    <3>2. CASE w # x
      <4>1. w[2] <= Received(w[1])
        <5>1. CASE w[1] = p
          <6>1. w[2] # Received(p) + 1
            BY <1>3, <1>8, <3>2, <5>1
          <6> QED BY <1>3, <1>4, <1>7, <1>11, <2>4, <5>1, <6>1
        <5>2. CASE w[1] # p
          BY <1>3, <1>11, <2>4, <5>2
        <5> QED BY <5>1, <5>2
      <4>2. PICK v \in PutSide!Puts : carried[v] = w
        BY <1>2, <4>1 DEF Carrying
      <4>3. v # u
        BY <1>1, <1>3, <4>2
      <4> QED BY <1>9, <4>2, <4>3
    <3> QED BY <3>1, <3>2
  <2> QED BY <2>1, <2>2, <2>3, <2>4 DEF Carrying
<1>15. PutPlaces'
  <2>1. \A j \in Keys : \A v : Has(queue[j].putters, v) => carried'[v] = carried[v]
    BY <1>1, <1>2, <1>9, PutMembers DEF PutPlaces
  <2> QED BY <1>1, <1>2, <2>1 DEF PutPlaces
<1>16. Stowed'
  <2>1. \A w : Shipped(w)' <=> Shipped(w)
    BY <1>1, <1>4, <1>9 DEF Shipped
  <2> QED BY <1>1, <1>2, <2>1, PutHistoryKept, StowedKept
<1>17. CargoInv'
  BY <1>10, <1>12, <1>14, <1>15, <1>16 DEF CargoInv
<1>18. carried'[u] = <<u[1], Received(u[1]) + 1>>
  BY <1>8, <1>9 DEF p
<1> QED BY <1>1, <1>7, <1>9, <1>11, <1>17, <1>18 DEF p

(* Storing adds to the history of a key, and taking does not change it.     *)
LEMMA PutHistory ==
    ASSUME PutTypes, NEW k \in Keys
    PROVE  /\ \A x \in PutSide!Puts :
                got[k] \o Append(queue[k].items, x) = Append(PutSide!History(k), x)
           /\ queue[k].items # <<>> =>
                /\ Append(got[k], Head(queue[k].items)) \o Tail(queue[k].items)
                        = PutSide!History(k)
                /\ Head(queue[k].items) \in PutSide!Puts
                /\ Tail(queue[k].items) \in Seq(PutSide!Puts)
<1>1. got[k] \in Seq(PutSide!Puts) /\ queue[k].items \in Seq(PutSide!Puts)
  BY PutQueues
<1>2. ASSUME NEW S, NEW g \in Seq(S), NEW q \in Seq(S), NEW x \in S
      PROVE  g \o Append(q, x) = Append(g \o q, x)
  OBVIOUS
<1>3. ASSUME NEW S, NEW g \in Seq(S), NEW q \in Seq(S), q # <<>>
      PROVE  /\ Head(q) \in S /\ Tail(q) \in Seq(S)
             /\ Append(g, Head(q)) \o Tail(q) = g \o q
  <2>1. Head(q) \in S /\ Tail(q) \in Seq(S) /\ Len(q) \in Nat \ {0} /\ Len(g) \in Nat
        /\ Len(Tail(q)) = Len(q) - 1 /\ Head(q) = q[1]
        /\ \A i \in 1..Len(Tail(q)) : Tail(q)[i] = q[i + 1]
    BY <1>3, HeadTailProperties, LenProperties, EmptySeq
  <2>2. /\ Append(g, Head(q)) \in Seq(S) /\ Len(Append(g, Head(q))) = Len(g) + 1
        /\ \A i \in 1..Len(g) : Append(g, Head(q))[i] = g[i]
        /\ Append(g, Head(q))[Len(g) + 1] = q[1]
    BY <2>1, AppendProperties
  <2>3. /\ Append(g, Head(q)) \o Tail(q) \in Seq(S)
        /\ Len(Append(g, Head(q)) \o Tail(q)) = Len(g) + Len(q)
        /\ \A i \in 1..(Len(g) + Len(q)) : (Append(g, Head(q)) \o Tail(q))[i] =
              IF i <= Len(g) + 1 THEN Append(g, Head(q))[i] ELSE Tail(q)[i - (Len(g) + 1)]
    BY <2>1, <2>2, ConcatProperties
  <2>4. /\ g \o q \in Seq(S) /\ Len(g \o q) = Len(g) + Len(q)
        /\ \A i \in 1..(Len(g) + Len(q)) :
              (g \o q)[i] = IF i <= Len(g) THEN g[i] ELSE q[i - Len(g)]
    BY ConcatProperties
  <2>5. ASSUME NEW i \in 1..(Len(g) + Len(q))
        PROVE  (Append(g, Head(q)) \o Tail(q))[i] = (g \o q)[i]
    <3>1. CASE i <= Len(g)
      BY <2>1, <2>2, <2>3, <2>4, <3>1
    <3>2. CASE i = Len(g) + 1
      BY <2>1, <2>2, <2>3, <2>4, <3>2
    <3>3. CASE i > Len(g) + 1
      <4>1. i - (Len(g) + 1) \in 1..Len(Tail(q)) /\ i - (Len(g) + 1) + 1 = i - Len(g)
        BY <2>1, <3>3
      <4> QED BY <2>1, <2>3, <2>4, <3>3, <4>1
    <3> QED BY <2>1, <3>1, <3>2, <3>3
  <2> QED BY <2>1, <2>3, <2>4, <2>5, SeqEqual
<1>4. PutSide!History(k) = got[k] \o queue[k].items
  BY DEF PutSide!History
<1>5. ASSUME NEW x \in PutSide!Puts
      PROVE  got[k] \o Append(queue[k].items, x) = Append(got[k] \o queue[k].items, x)
  <2> DEFINE g == got[k]
             q == queue[k].items
  <2>1. g \in Seq(PutSide!Puts) /\ q \in Seq(PutSide!Puts)
    BY <1>1
  <2> HIDE DEF g, q
  <2>2. g \o Append(q, x) = Append(g \o q, x)
    BY <1>2, <2>1
  <2> QED BY <2>2 DEF g, q
<1>6. ASSUME queue[k].items # <<>>
      PROVE  /\ Append(got[k], Head(queue[k].items)) \o Tail(queue[k].items)
                    = got[k] \o queue[k].items
             /\ Head(queue[k].items) \in PutSide!Puts
             /\ Tail(queue[k].items) \in Seq(PutSide!Puts)
  BY <1>1, <1>3, <1>6
<1> QED BY <1>4, <1>5, <1>6, Zenon

(* What a coroutine that has its item works for. *)
LEMMA PutHasAnItem ==
    ASSUME PutsAssumption, CargoInv, NEW u \in PutSide!Puts, carried[u] # NoPut
    PROVE  carried[u] \in PutSide!Puts /\ PutSide!KeyOf(carried[u]) \in Keys
<1>1. carried[u] \in PutSide!Puts
  BY DEF CargoInv, PutTypes
<1> QED BY <1>1, PutsAreNumbered

(* The item is stored under its key, where it was not yet, since no other   *)
(* coroutine carried it.                                                    *)
LEMMA CargoStored ==
    ASSUME PutsAssumption, CargoInv, NEW u \in PutSide!Puts, PutSide!Store(u),
           NEW x, x = carried[u]
    PROVE  /\ CargoInv'
           /\ PutSide!History(PutSide!KeyOf(x))' = Append(PutSide!History(PutSide!KeyOf(x)), x)
           /\ \A j \in Keys : j # PutSide!KeyOf(x) =>
                PutSide!History(j)' = PutSide!History(j)
<1>a. x = carried[u]
  OBVIOUS
<1>b. PICK k : k = PutSide!KeyOf(x)
  OBVIOUS
<1>c. PICK q : q = queue[k]
  OBVIOUS
<1>1. /\ PutSide!Running(u) /\ x # NoPut /\ x \in PutSide!Puts /\ k \in Keys
      /\ queue' = [queue EXCEPT ![k] = PutSide!Stored(q, x)]
      /\ ready' = Tail(ready)
      /\ work' = [work EXCEPT ![u] = "returned"]
      /\ UNCHANGED <<made, last, wire, carried, got>>
  BY <1>a, <1>b, <1>c, PutHasAnItem DEF PutSide!Store, PutSide!clientVars, CargoInv, PutTypes
<1>2. PutTypes /\ Travel /\ Carrying /\ PutPlaces /\ Stowed
  BY DEF CargoInv
<1>3. /\ work[u] = "running" /\ Has(ready, u)
      /\ ready' \in Seq(PutSide!Puts) /\ Unique(ready')
      /\ \A e : Has(ready', e) <=> Has(ready, e) /\ e # u
      /\ \A j \in Keys : ~Has(queue[j].putters, u)
  BY <1>1, PutRuns
<1>4. /\ work'[u] = "returned"
      /\ \A v \in PutSide!Puts : v # u => work'[v] = work[v]
  BY <1>1, <1>2 DEF PutTypes
<1>5. /\ q \in [items : Seq(PutSide!Puts), getters : {<<>>}, putters : Seq(PutSide!Puts)]
      /\ Append(q.items, x) \in Seq(PutSide!Puts)
  BY <1>c, <1>1, <1>2, AppendFacts DEF PutTypes
<1>6. /\ PutSide!Stored(q, x)
            \in [items : Seq(PutSide!Puts), getters : {<<>>}, putters : Seq(PutSide!Puts)]
      /\ PutSide!Stored(q, x).items = Append(q.items, x)
      /\ PutSide!Stored(q, x).putters = q.putters
  BY <1>5 DEF PutSide!Stored, PutSide!Others
<1>7. /\ queue'[k] = PutSide!Stored(q, x)
      /\ \A j \in Keys : j # k => queue'[j] = queue[j]
      /\ \A j \in Keys : queue'[j].putters = queue[j].putters
  BY <1>c, <1>1, <1>2, <1>6 DEF PutTypes
<1>8. PutTypes'
  BY <1>1, <1>2, <1>3, <1>6 DEF PutTypes
<1>9. Travel' /\ Carrying'
  <2>1. \A v \in PutSide!Puts : work'[v] = "none" <=> work[v] = "none"
    BY <1>3, <1>4
  <2>2. Travel'
    BY <1>1, <1>2, <2>1 DEF Travel, Received
  <2>3. Carrying'
    BY <1>a, <1>1, <1>2, <1>4 DEF Carrying, Received
  <2> QED BY <2>2, <2>3
<1>10. PutPlaces'
  BY <1>1, <1>2, <1>3, <1>4, <1>7, PutMembers DEF PutPlaces
<1>11. /\ PutSide!History(k)' = Append(PutSide!History(k), x)
       /\ \A j \in Keys : j # k => PutSide!History(j)' = PutSide!History(j)
       /\ PutSide!History(k) \in Seq(PutSide!Puts)
  <2>1. got[k] \o Append(queue[k].items, x) = Append(PutSide!History(k), x)
    BY <1>1, <1>2, PutHistory
  <2>2. PutSide!History(k) \in Seq(PutSide!Puts)
    BY <1>1, <1>2, PutQueues
  <2> QED BY <1>c, <1>1, <1>6, <1>7, <2>1, <2>2 DEF PutSide!History
<1>12. \A w : Shipped(w)' <=> Shipped(w) \/ w = x
  <2>1. \A v \in PutSide!Puts :
          work'[v] \in {"returned", "done"} <=> work[v] \in {"returned", "done"} \/ v = u
    BY <1>4
  <2> QED BY <1>a, <1>1, <2>1 DEF Shipped
<1>13. ~Has(PutSide!History(k), x)
  <2>1. ~Shipped(x)
    BY <1>a, <1>1, <1>2, <1>3 DEF Shipped, Carrying
  <2> QED BY <1>1, <1>2, <2>1 DEF Stowed
<1>14. Stowed'
  <2> SUFFICES ASSUME NEW j \in Keys
               PROVE  /\ Unique(PutSide!History(j)')
                      /\ \A w : Has(PutSide!History(j)', w) <=>
                            w \in PutSide!Puts /\ PutSide!KeyOf(w) = j /\ Shipped(w)'
    BY DEF Stowed
  <2>1. CASE j = k
    <3> DEFINE H == PutSide!History(k)
    <3>1. Unique(H) /\ H \in Seq(PutSide!Puts) /\ ~Has(H, x) /\ x \in PutSide!Puts
      BY <1>1, <1>2, <1>11, <1>13 DEF Stowed
    <3>2. \A w : Has(H, w) <=> w \in PutSide!Puts /\ PutSide!KeyOf(w) = k /\ Shipped(w)
      BY <1>1, <1>2 DEF Stowed
    <3>3. PutSide!History(j)' = Append(H, x)
      BY <1>11, <2>1
    <3> HIDE DEF H
    <3>4. Unique(Append(H, x)) /\ \A w : Has(Append(H, x), w) <=> Has(H, w) \/ w = x
      BY <3>1, AppendFacts
    <3> QED BY <1>b, <1>1, <1>12, <2>1, <3>2, <3>3, <3>4
  <2>2. CASE j # k
    <3>1. PutSide!History(j)' = PutSide!History(j)
      BY <1>11, <2>2
    <3>2. /\ Unique(PutSide!History(j))
          /\ \A w : Has(PutSide!History(j), w) <=>
                w \in PutSide!Puts /\ PutSide!KeyOf(w) = j /\ Shipped(w)
      BY <1>2 DEF Stowed
    <3> QED BY <1>b, <1>12, <2>2, <3>1, <3>2
  <2> QED BY <2>1, <2>2
<1>15. CargoInv'
  BY <1>8, <1>9, <1>10, <1>14 DEF CargoInv
<1> QED BY <1>a, <1>b, <1>11, <1>15

(* The queue is full: the coroutine parks under the key of its item.        *)
LEMMA CargoParked ==
    ASSUME PutsAssumption, CargoInv, NEW u \in PutSide!Puts, PutSide!StoreWait(u)
    PROVE  /\ CargoInv'
           /\ \A j \in Keys : PutSide!History(j)' = PutSide!History(j)
<1>a. PICK k : k = PutSide!KeyOf(carried[u])
  OBVIOUS
<1>b. PICK q : q = queue[k]
  OBVIOUS
<1>1. /\ PutSide!Running(u) /\ carried[u] # NoPut /\ k \in Keys
      /\ queue' = [queue EXCEPT ![k] = PutSide!AwaitRoom(q, u)]
      /\ ready' = Tail(ready)
      /\ UNCHANGED <<made, last, work, wire, carried, got>>
  BY <1>a, <1>b, PutHasAnItem DEF PutSide!StoreWait, PutSide!clientVars, CargoInv, PutTypes
<1>2. PutTypes /\ Travel /\ Carrying /\ PutPlaces /\ Stowed
  BY DEF CargoInv
<1>3. /\ work[u] = "running" /\ Has(ready, u)
      /\ ready' \in Seq(PutSide!Puts) /\ Unique(ready')
      /\ \A e : Has(ready', e) <=> Has(ready, e) /\ e # u
      /\ \A j \in Keys : ~Has(queue[j].putters, u)
  BY <1>1, PutRuns
<1>4. /\ q \in [items : Seq(PutSide!Puts), getters : {<<>>}, putters : Seq(PutSide!Puts)]
      /\ q.putters \in Seq(PutSide!Puts) /\ Unique(q.putters) /\ ~Has(q.putters, u)
  BY <1>b, <1>1, <1>2, <1>3 DEF PutTypes, PutPlaces
<1>5. /\ Append(q.putters, u) \in Seq(PutSide!Puts) /\ Unique(Append(q.putters, u))
      /\ \A e : Has(Append(q.putters, u), e) <=> Has(q.putters, e) \/ e = u
  BY <1>4, AppendFacts
<1>6. /\ PutSide!AwaitRoom(q, u)
            \in [items : Seq(PutSide!Puts), getters : {<<>>}, putters : Seq(PutSide!Puts)]
      /\ PutSide!AwaitRoom(q, u).items = q.items
      /\ PutSide!AwaitRoom(q, u).putters = Append(q.putters, u)
  BY <1>4, <1>5 DEF PutSide!AwaitRoom
<1>7. /\ queue'[k].putters = Append(q.putters, u)
      /\ \A j \in Keys : j # k => queue'[j].putters = queue[j].putters
      /\ \A j \in Keys : queue'[j].items = queue[j].items
  BY <1>b, <1>1, <1>2, <1>6 DEF PutTypes
<1>8. PutTypes'
  BY <1>1, <1>2, <1>3, <1>6 DEF PutTypes
<1>9. Travel' /\ Carrying'
  BY <1>1, <1>2 DEF Travel, Received, Carrying
<1>10. PutPlaces'
  <2>1. ASSUME NEW j \in Keys
        PROVE  /\ Unique(queue'[j].putters)
               /\ \A v : Has(queue'[j].putters, v) =>
                    /\ work'[v] = "running" /\ ~Has(ready', v)
                    /\ carried'[v] # NoPut /\ PutSide!KeyOf(carried'[v]) = j
    <3>1. CASE j = k
      <4>1. Unique(queue'[j].putters)
        BY <1>5, <1>7, <3>1
      <4>2. ASSUME NEW v, Has(queue'[j].putters, v)
            PROVE  /\ work'[v] = "running" /\ ~Has(ready', v)
                   /\ carried'[v] # NoPut /\ PutSide!KeyOf(carried'[v]) = j
        <5>1. CASE v = u
          BY <1>a, <1>1, <1>3, <3>1, <5>1
        <5>2. CASE v # u
          <6>1. Has(queue[k].putters, v)
            BY <1>b, <1>5, <1>7, <3>1, <4>2, <5>2
          <6> QED BY <1>1, <1>2, <1>3, <3>1, <5>2, <6>1 DEF PutPlaces
        <5> QED BY <5>1, <5>2
      <4> QED BY <4>1, <4>2
    <3>2. CASE j # k
      BY <1>1, <1>2, <1>3, <1>7, <3>2 DEF PutPlaces
    <3> QED BY <3>1, <3>2
  <2> QED BY <1>1, <1>2, <1>3, <2>1 DEF PutPlaces
<1>11. \A j \in Keys : PutSide!History(j)' = PutSide!History(j)
  BY <1>1, <1>7 DEF PutSide!History
<1>12. Stowed'
  <2>1. \A w : Shipped(w)' <=> Shipped(w)
    BY <1>1 DEF Shipped
  <2> QED BY <1>2, <1>11, <2>1, StowedKept
<1> QED BY <1>8, <1>9, <1>10, <1>11, <1>12 DEF CargoInv

(* The queue is full and the put does not wait: it is refused.              *)
LEMMA CargoRefused ==
    ASSUME CargoInv, NEW u \in PutSide!Puts, PutSide!StoreRaises(u)
    PROVE  CargoInv'
<1>1. /\ PutSide!Running(u) /\ carried[u] # NoPut /\ PutSide!Mode(u) = "nowait"
      /\ ready' = Tail(ready)
      /\ work' = [work EXCEPT ![u] = "raised"]
      /\ UNCHANGED <<made, last, wire, carried, queue, got>>
  BY DEF PutSide!StoreRaises, PutSide!clientVars
<1>2. PutTypes /\ Travel /\ Carrying /\ PutPlaces /\ Stowed
  BY DEF CargoInv
<1>3. /\ work[u] = "running" /\ Has(ready, u)
      /\ ready' \in Seq(PutSide!Puts) /\ Unique(ready')
      /\ \A e : Has(ready', e) <=> Has(ready, e) /\ e # u
      /\ \A j \in Keys : ~Has(queue[j].putters, u)
  BY <1>1, PutRuns
<1>4. /\ work'[u] = "raised"
      /\ \A v \in PutSide!Puts : v # u => work'[v] = work[v]
  BY <1>1, <1>2 DEF PutTypes
<1>5. PutTypes'
  BY <1>1, <1>2, <1>3 DEF PutTypes
<1>6. Travel' /\ Carrying'
  <2>1. \A v \in PutSide!Puts : work'[v] = "none" <=> work[v] = "none"
    BY <1>3, <1>4
  <2>2. Travel'
    BY <1>1, <1>2, <2>1 DEF Travel, Received
  <2>3. Carrying'
    BY <1>1, <1>2, <1>4 DEF Carrying, Received
  <2> QED BY <2>2, <2>3
<1>7. PutPlaces'
  BY <1>1, <1>2, <1>3, <1>4, PutMembers DEF PutPlaces
<1>8. Stowed'
  <2>1. \A w : Shipped(w)' <=> Shipped(w)
    BY <1>1, <1>3, <1>4 DEF Shipped
  <2> QED BY <1>1, <1>2, <2>1, PutHistoryKept, StowedKept
<1> QED BY <1>5, <1>6, <1>7, <1>8 DEF CargoInv

(* A consumer takes the first item and wakes the first put that is parked.  *)
LEMMA CargoTaken ==
    ASSUME CargoInv, NEW k \in Keys, PutSide!Get(k)
    PROVE  /\ CargoInv'
           /\ \A j \in Keys : PutSide!History(j)' = PutSide!History(j)
<1> DEFINE q == queue[k]
<1>1. /\ q.items # <<>>
      /\ queue' = [queue EXCEPT ![k] = PutSide!Removed(q)]
      /\ got' = [got EXCEPT ![k] = Append(got[k], Head(q.items))]
      /\ ready' = ready \o First(q.putters)
      /\ UNCHANGED <<made, last, work, wire, carried>>
  BY PutSideOperators DEF PutSide!Get, PutSide!Empty, PutSide!clientVars, CargoInv, PutTypes
<1>2. PutTypes /\ Travel /\ Carrying /\ PutPlaces /\ Stowed
  BY DEF CargoInv
<1>3. /\ q \in [items : Seq(PutSide!Puts), getters : {<<>>}, putters : Seq(PutSide!Puts)]
      /\ q.putters \in Seq(PutSide!Puts) /\ Unique(q.putters)
      /\ got[k] \in Seq(PutSide!Puts)
      /\ ready \in Seq(PutSide!Puts) /\ Unique(ready)
  BY <1>2 DEF PutTypes, PutPlaces
<1>4. /\ First(q.putters) \in Seq(PutSide!Puts) /\ Others(q.putters) \in Seq(PutSide!Puts)
      /\ Unique(First(q.putters)) /\ Unique(Others(q.putters))
      /\ \A e : Has(q.putters, e) <=> Has(First(q.putters), e) \/ Has(Others(q.putters), e)
      /\ \A e : ~(Has(First(q.putters), e) /\ Has(Others(q.putters), e))
  BY <1>3, WaiterFacts
<1>5. \A e : Has(q.putters, e) =>
          /\ work[e] = "running" /\ ~Has(ready, e)
          /\ carried[e] # NoPut /\ PutSide!KeyOf(carried[e]) = k
  BY <1>2 DEF PutPlaces
<1>6. /\ ready' \in Seq(PutSide!Puts) /\ Unique(ready')
      /\ \A e : Has(ready', e) <=> Has(ready, e) \/ Has(First(q.putters), e)
  <2>1. \A e : ~(Has(ready, e) /\ Has(First(q.putters), e))
    BY <1>4, <1>5
  <2> HIDE DEF q
  <2> QED BY <1>1, <1>3, <1>4, <2>1, ConcatFacts
<1>7. /\ Append(got[k], Head(q.items)) \o Tail(q.items) = PutSide!History(k)
      /\ Append(got[k], Head(q.items)) \in Seq(PutSide!Puts)
      /\ Tail(q.items) \in Seq(PutSide!Puts)
  <2>1. /\ Append(got[k], Head(q.items)) \o Tail(q.items) = PutSide!History(k)
        /\ Head(q.items) \in PutSide!Puts
        /\ Tail(q.items) \in Seq(PutSide!Puts)
    BY <1>1, <1>2, PutHistory
  <2> HIDE DEF q
  <2>2. Append(got[k], Head(q.items)) \in Seq(PutSide!Puts)
    BY <1>3, <2>1, AppendFacts
  <2> QED BY <2>1, <2>2
<1>8. /\ PutSide!Removed(q)
            \in [items : Seq(PutSide!Puts), getters : {<<>>}, putters : Seq(PutSide!Puts)]
      /\ PutSide!Removed(q).items = Tail(q.items)
      /\ PutSide!Removed(q).putters = Others(q.putters)
  BY <1>3, <1>4, <1>7, PutSideOperators DEF PutSide!Removed
<1>9. /\ queue'[k].items = Tail(q.items) /\ queue'[k].putters = Others(q.putters)
      /\ got'[k] = Append(got[k], Head(q.items))
      /\ \A j \in Keys : j # k => queue'[j] = queue[j] /\ got'[j] = got[j]
  BY <1>1, <1>2, <1>8 DEF PutTypes
<1>10. PutTypes'
  BY <1>1, <1>2, <1>6, <1>7, <1>8 DEF PutTypes
<1>11. Travel' /\ Carrying'
  BY <1>1, <1>2 DEF Travel, Received, Carrying
<1> HIDE DEF q
<1>12. PutPlaces'
  <2>1. \A v : Has(ready', v) => work'[v] = "running"
    BY <1>1, <1>2, <1>4, <1>5, <1>6 DEF PutPlaces
  <2>2. ASSUME NEW j \in Keys
        PROVE  /\ Unique(queue'[j].putters)
               /\ \A v : Has(queue'[j].putters, v) =>
                    /\ work'[v] = "running" /\ ~Has(ready', v)
                    /\ carried'[v] # NoPut /\ PutSide!KeyOf(carried'[v]) = j
    <3>1. CASE j = k
      BY <1>1, <1>4, <1>5, <1>6, <1>9, <3>1
    <3>2. CASE j # k
      BY <1>1, <1>2, <1>4, <1>5, <1>6, <1>9, <3>2 DEF PutPlaces
    <3> QED BY <3>1, <3>2
  <2> QED BY <1>6, <2>1, <2>2 DEF PutPlaces
<1>13. \A j \in Keys : PutSide!History(j)' = PutSide!History(j)
  BY <1>7, <1>9 DEF PutSide!History
<1>14. Stowed'
  <2>1. \A w : Shipped(w)' <=> Shipped(w)
    BY <1>1 DEF Shipped
  <2> QED BY <1>2, <1>13, <2>1, StowedKept
<1> QED BY <1>10, <1>11, <1>12, <1>13, <1>14 DEF CargoInv

(* Every step of any program keeps the cargo in order. *)
LEMMA CargoNext ==
    ASSUME PutsAssumption, CargoInv, [PutSide!Next]_PutSide!vars
    PROVE  CargoInv'
<1>1. CASE UNCHANGED PutSide!vars
  BY <1>1, CargoKept DEF PutSide!vars, PutSide!clientVars
<1>2. ASSUME NEW p \in Producers, PutSide!WaitReturns(p)
      PROVE  CargoInv'
  BY <1>2, CargoKept DEF PutSide!WaitReturns
<1>3. ASSUME NEW u \in PutSide!Puts, PutSide!Store(u)
      PROVE  CargoInv'
  <2>1. PICK x : x = carried[u]
    OBVIOUS
  <2> QED BY <1>3, <2>1, CargoStored
<1> QED BY <1>1, <1>2, <1>3, CargoMade, CargoCompleted, CargoArrived, CargoReceived,
           CargoParked, CargoRefused, CargoTaken DEF PutSide!Next, PutSide!RunReady

(* Coroutine v of the same producer carried item u when its call, a         *)
(* put_nowait, was refused.                                                 *)
RefusedWith(v, u) ==
    v[1] = u[1] /\ carried[v] = u /\ work[v] = "raised" /\ PutSide!Mode(v) = "nowait"

(* What a channel keeps of the items that were sent. *)
NothingMislaid ==
    /\ \A u \in PutSide!Puts : work[u] # "none" =>
          \/ PutSide!Pending(u)
          \/ Has(PutSide!History(PutSide!KeyOf(u)), u)
          \/ \E v \in PutSide!Puts : RefusedWith(v, u)
    /\ \A k \in Keys :
          /\ Unique(PutSide!History(k))
          /\ \A u : Has(PutSide!History(k), u) =>
                /\ u \in PutSide!Puts /\ PutSide!KeyOf(u) = k
                /\ ~PutSide!Pending(u) /\ \A v \in PutSide!Puts : ~RefusedWith(v, u)

(* An item that was sent and not received is on the wire. *)
LEMMA CargoOnWire ==
    ASSUME PutsAssumption, CargoInv, NEW u \in PutSide!Puts
    PROVE  Has(wire[u[1]], u) <=> u[2] > Received(u[1]) /\ u[2] <= made[u[1]]
<1> DEFINE p == u[1]
           l == Len(wire[p])
           r == Received(p)
<1>1. /\ p \in Producers /\ u[2] \in Nat \ {0} /\ u = <<p, u[2]>>
      /\ made[p] \in Nat /\ l \in Nat /\ wire[p] \in Seq(PutSide!Puts)
      /\ DOMAIN wire[p] = 1..l
  BY PutsAreNumbered, LenProperties DEF CargoInv, PutTypes
<1>2. r = made[p] - l
  BY DEF Received
<1>3. \A n \in 1..l : wire[p][n] = <<p, r + n>>
  BY <1>1 DEF CargoInv, Travel
<1> HIDE DEF p, l, r
<1>4. ASSUME NEW n \in 1..l, wire[p][n] = u
      PROVE  u[2] > r /\ u[2] <= made[p]
  <2>1. u[2] = r + n
    BY <1>3, <1>4
  <2> QED BY <1>1, <1>2, <1>4, <2>1
<1>5. ASSUME u[2] > r, u[2] <= made[p]
      PROVE  \E n \in 1..l : wire[p][n] = u
  <2>0. ASSUME NEW a \in Nat, NEW m \in Nat, NEW b \in Nat, a > m - b, a <= m
        PROVE  a - (m - b) \in 1..b /\ (m - b) + (a - (m - b)) = a
    BY <2>0
  <2>1. u[2] - r \in 1..l /\ r + (u[2] - r) = u[2]
    BY <1>1, <1>2, <1>5, <2>0
  <2>2. wire[p][u[2] - r] = u
    BY <1>1, <1>3, <2>1
  <2> QED BY <2>1, <2>2
<1>6. Has(wire[p], u) <=> \E n \in 1..l : wire[p][n] = u
  BY <1>1 DEF Has
<1>7. Has(wire[p], u) <=> u[2] > r /\ u[2] <= made[p]
  BY <1>4, <1>5, <1>6
<1> QED BY <1>7 DEF p, r

(* The cargo accounts for every item. *)
LEMMA CargoAccounted ==
    ASSUME PutsAssumption, CargoInv
    PROVE  NothingMislaid
<1>1. PutTypes /\ Travel /\ Carrying /\ PutPlaces /\ Stowed
  BY DEF CargoInv
<1>2. \A u \in PutSide!Puts :
        /\ u[1] \in Producers /\ u[2] \in Nat \ {0} /\ u # NoPut
        /\ PutSide!KeyOf(u) \in Keys
        /\ made[u[1]] \in Nat /\ Received(u[1]) \in Int
  <2>1. \A p \in Producers : Received(p) \in Int /\ made[p] \in Nat
    BY <1>1, LenProperties DEF PutTypes, Received
  <2> QED BY <2>1, PutsAreNumbered
<1>3. ASSUME NEW u \in PutSide!Puts, work[u] # "none"
      PROVE  \/ PutSide!Pending(u)
             \/ Has(PutSide!History(PutSide!KeyOf(u)), u)
             \/ \E v \in PutSide!Puts : RefusedWith(v, u)
  <2>1. CASE u[2] > Received(u[1])
    <3>1. u[2] <= made[u[1]]
      BY <1>1, <1>2, <1>3 DEF Travel
    <3> QED BY <2>1, <3>1, CargoOnWire, PutSideOperators DEF PutSide!Pending
  <2>2. CASE u[2] <= Received(u[1])
    <3>1. PICK v \in PutSide!Puts : carried[v] = u
      BY <1>1, <2>2 DEF Carrying
    <3>2. /\ work[v] \in {"running", "returned", "done", "raised"} /\ u[1] = v[1]
          /\ work[v] = "raised" => PutSide!Mode(v) = "nowait"
      BY <1>1, <1>2, <3>1 DEF Carrying
    <3>3. CASE work[v] = "running"
      BY <3>1, <3>3 DEF PutSide!Pending
    <3>4. CASE work[v] \in {"returned", "done"}
      <4>1. Shipped(u)
        BY <3>1, <3>4 DEF Shipped
      <4> QED BY <1>1, <1>2, <4>1 DEF Stowed
    <3>5. CASE work[v] = "raised"
      BY <3>1, <3>2, <3>5 DEF RefusedWith
    <3> QED BY <3>2, <3>3, <3>4, <3>5
  <2> QED BY <1>2, <2>1, <2>2
<1>4. ASSUME NEW k \in Keys, NEW u, Has(PutSide!History(k), u)
      PROVE  /\ u \in PutSide!Puts /\ PutSide!KeyOf(u) = k
             /\ ~PutSide!Pending(u) /\ \A v \in PutSide!Puts : ~RefusedWith(v, u)
  <2>1. u \in PutSide!Puts /\ PutSide!KeyOf(u) = k /\ Shipped(u)
    BY <1>1, <1>4 DEF Stowed
  <2>2. PICK w \in PutSide!Puts : carried[w] = u /\ work[w] \in {"returned", "done"}
    BY <2>1 DEF Shipped
  <2>3. \A v \in PutSide!Puts : carried[v] = u => v = w
    BY <1>1, <1>2, <2>1, <2>2 DEF Carrying
  <2>4. u[2] <= Received(u[1])
    BY <1>1, <1>2, <2>1, <2>2 DEF Carrying
  <2>5. ~Has(wire[u[1]], u)
    BY <1>2, <2>1, <2>4, CargoOnWire
  <2> QED BY <2>1, <2>2, <2>3, <2>5, PutSideOperators DEF PutSide!Pending, RefusedWith
<1>5. \A k \in Keys : Unique(PutSide!History(k))
  BY <1>1 DEF Stowed
<1> QED BY <1>3, <1>4, <1>5 DEF NothingMislaid

(* Whatever a worker puts, under any keys and in any modes, none of its     *)
(* items is lost but one that a refused put_nowait of the same worker       *)
(* carried, and none is stored twice or under another key than its own      *)
(* (Channel.put and put_nowait, ChannelWorker.put), although the coroutine  *)
(* of one call may carry the item of another.                               *)
THEOREM NothingIsMislaid ==
    ASSUME PutsAssumption
    PROVE  PutSide!Spec => []NothingMislaid
<1>1. PutSide!Init => CargoInv
  BY PutsAssumption, CargoInit
<1>2. CargoInv /\ [PutSide!Next]_PutSide!vars => CargoInv'
  BY PutsAssumption, CargoNext
<1>3. CargoInv => NothingMislaid
  BY PutsAssumption, CargoAccounted
<1> QED BY <1>1, <1>2, <1>3, PTL DEF PutSide!Spec

-----------------------------------------------------------------------------
(* What becomes of a put_nowait that finds its queue full.                  *)

(* The caller of a put_nowait waits for it until it is done. *)
CallerWaits ==
    /\ awaits \in [Producers -> PutSide!Puts \cup {NoPut}]
    /\ \A u \in PutSide!Puts :
          PutSide!Mode(u) = "nowait" /\ work[u] \notin {"none", "done"} => awaits[u[1]] = u

(* The caller of a put that was refused is still waiting for it. *)
RefusedWaits == \A u \in PutSide!Puts : PutSide!Refused(u) => awaits[u[1]] = u

(* No step takes a put back from where it was refused. *)
StaysRefused == \A u \in PutSide!Puts : PutSide!Refused(u) => work'[u] = "raised"

LEMMA CallerWaitsInit ==
    ASSUME PutsAssumption, PutSide!Init
    PROVE  CallerWaits
BY PutsAreNumbered DEF PutSide!Init, CallerWaits

(* Only a completion ends the wait; nothing but the next put begins one.    *)
LEMMA CallerWaitsNext ==
    ASSUME PutsAssumption, CargoInv, CallerWaits, [PutSide!Next]_PutSide!vars
    PROVE  CallerWaits' /\ StaysRefused
<1>1. PutTypes /\ PutPlaces /\ Travel
  BY DEF CargoInv
<1> USE DEF CallerWaits, StaysRefused, PutSide!Refused
<1>2. CASE UNCHANGED PutSide!vars
  BY <1>2 DEF PutSide!vars, PutSide!clientVars
<1>3. ASSUME NEW p \in Producers, PutSide!Put(p) PROVE CallerWaits' /\ StaysRefused
  <2> DEFINE u == <<p, made[p] + 1>>
             a == IF PutSide!Mode(u) = "async" THEN NoPut ELSE u
  <2>1. /\ awaits[p] = NoPut
        /\ made[p] < Len(Program[p]) /\ made[p] \in Nat /\ Len(Program[p]) \in Nat
        /\ work' = [work EXCEPT ![u] = PutSide!Enqueued(p, PutSide!KeyOf(u))]
        /\ awaits' = [awaits EXCEPT ![p] = a]
    BY <1>1, <1>3, LenProperties DEF PutSide!Put, PutTypes, PutsAssumption
  <2>2. u \in PutSide!Puts /\ u[1] = p
    BY <2>1, PutsAreNumbered
  <2>3. work[u] = "none"
    BY <1>1, <2>1, <2>2 DEF Travel
  <2>4. \A v \in PutSide!Puts : v # u => work'[v] = work[v]
    BY <1>1, <2>1 DEF PutTypes
  <2> HIDE DEF u, a
  <2>5. StaysRefused
    BY <2>3, <2>4
  <2>6. awaits' \in [Producers -> PutSide!Puts \cup {NoPut}]
    BY <2>1, <2>2 DEF a
  <2>7. ASSUME NEW v \in PutSide!Puts, PutSide!Mode(v) = "nowait", work'[v] \notin {"none", "done"}
        PROVE  awaits'[v[1]] = v
    <3>1. CASE v = u
      BY <2>1, <2>2, <2>7, <3>1 DEF a
    <3>2. CASE v # u
      <4>1. awaits[v[1]] = v
        BY <2>4, <2>7, <3>2
      <4>2. v[1] # p
        BY <2>1, <4>1, PutsAreNumbered
      <4> QED BY <2>1, <4>1, <4>2, PutsAreNumbered
    <3> QED BY <3>1, <3>2
  <2> QED BY <2>5, <2>6, <2>7
<1>4. ASSUME NEW p \in Producers, PutSide!WaitReturns(p) PROVE CallerWaits' /\ StaysRefused
  BY <1>4, PutsAreNumbered DEF PutSide!WaitReturns
<1>5. ASSUME NEW u \in PutSide!Puts, PutSide!Complete(u) PROVE CallerWaits' /\ StaysRefused
  <2>1. /\ UNCHANGED awaits
        /\ \A v \in PutSide!Puts : \/ work'[v] = work[v] \/ work'[v] = "done"
                                   \/ work[v] = "chained" /\ work'[v] = "called"
        /\ work[u] = "returned"
        /\ \A v \in PutSide!Puts : v # u /\ work[v] = "raised" => work'[v] = "raised"
    BY <1>5 DEF PutSide!Complete, PutSide!clientVars
  <2> QED BY <2>1
<1>6. ASSUME NEW u \in PutSide!Puts, NEW s, work[u] \in {"called", "running"},
             s # "none", work' = [work EXCEPT ![u] = s], UNCHANGED awaits
      PROVE  CallerWaits' /\ StaysRefused
  <2>1. \A v \in PutSide!Puts : v # u => work'[v] = work[v]
    BY <1>1, <1>6 DEF PutTypes
  <2>2. \A v \in PutSide!Puts : work'[v] \notin {"none", "done"} => work[v] \notin {"none", "done"}
    BY <1>6, <2>1
  <2>3. \A v \in PutSide!Puts : work[v] = "raised" => v # u
    BY <1>6
  <2> QED BY <1>6, <2>1, <2>2, <2>3
<1>7. ASSUME NEW u \in PutSide!Puts,
             PutSide!Arrive(u) \/ PutSide!Store(u) \/ PutSide!StoreRaises(u)
      PROVE  CallerWaits' /\ StaysRefused
  <2>1. CASE PutSide!Arrive(u)
    BY <1>6, <2>1 DEF PutSide!Arrive, PutSide!clientVars
  <2>2. CASE PutSide!Store(u)
    <3>1. work[u] = "running"
      BY <2>2, PutRuns DEF PutSide!Store
    <3> QED BY <1>6, <2>2, <3>1 DEF PutSide!Store, PutSide!clientVars
  <2>3. CASE PutSide!StoreRaises(u)
    <3>1. work[u] = "running"
      BY <2>3, PutRuns DEF PutSide!StoreRaises
    <3> QED BY <1>6, <2>3, <3>1 DEF PutSide!StoreRaises, PutSide!clientVars
  <2> QED BY <1>7, <2>1, <2>2, <2>3
<1>8. ASSUME NEW u \in PutSide!Puts, PutSide!Receive(u) \/ PutSide!StoreWait(u)
      PROVE  CallerWaits' /\ StaysRefused
  BY <1>8 DEF PutSide!Receive, PutSide!StoreWait, PutSide!clientVars
<1>9. ASSUME NEW k \in Keys, PutSide!Get(k) PROVE CallerWaits' /\ StaysRefused
  BY <1>9 DEF PutSide!Get, PutSide!clientVars
<1> QED BY <1>2, <1>3, <1>4, <1>5, <1>7, <1>8, <1>9 DEF PutSide!Next, PutSide!RunReady

(* A put_nowait that a full queue refuses (channel_worker.py, put) never    *)
(* returns to its caller: it stays refused, and the caller goes on waiting  *)
(* (async_work.py, _execute), in every program.  The docstring of           *)
(* Channel.put_nowait says that it raises asyncio.QueueFull.                *)
THEOREM RefusedPutsHang ==
    ASSUME PutsAssumption
    PROVE  PutSide!Spec => []RefusedWaits /\ [][StaysRefused]_PutSide!vars
<1>1. PutSide!Init => CargoInv /\ CallerWaits
  BY PutsAssumption, CargoInit, CallerWaitsInit
<1>2. CargoInv /\ CallerWaits /\ [PutSide!Next]_PutSide!vars
        => (CargoInv /\ CallerWaits)' /\ StaysRefused
  BY PutsAssumption, CargoNext, CallerWaitsNext
<1>3. CargoInv /\ CallerWaits => RefusedWaits
  <2> SUFFICES ASSUME CargoInv, CallerWaits, NEW u \in PutSide!Puts, work[u] = "raised"
               PROVE  awaits[u[1]] = u
    BY DEF RefusedWaits, PutSide!Refused
  <2>1. PutSide!Mode(u) = "nowait"
    BY DEF CargoInv, Carrying
  <2> QED BY <2>1 DEF CallerWaits
<1> QED BY <1>1, <1>2, <1>3, PTL DEF PutSide!Spec

-----------------------------------------------------------------------------
(* Workers that keep to one key each.  The puts of a worker under two keys  *)
(* are not chained, and nothing orders them.                                *)
OneKeyEach ==
    \A u, v \in PutSide!Puts : u[1] = v[1] => PutSide!KeyOf(u) = PutSide!KeyOf(v)

(* A put is called only when all puts of its producer before it are done.   *)
Chain ==
    /\ \A u, v \in PutSide!Puts :
          v[1] = u[1] /\ v[2] < u[2] /\ work[u] \notin {"none", "chained"} => work[v] = "done"
    /\ \A u \in PutSide!Puts :
          made[u[1]] > 0 => last[u[1]][PutSide!KeyOf(u)] = <<u[1], made[u[1]]>>

(* Each item is received by the coroutine it was sent with. *)
InTurn ==
    \A u \in PutSide!Puts : carried[u] = IF u[2] <= Received(u[1]) THEN u ELSE NoPut

PutSideInv == CargoInv /\ Chain /\ InTurn /\ PutSide!InOrder

(* The order in the queues when they hold what they held. *)
LEMMA InOrderKept ==
    ASSUME PutSide!InOrder, \A k \in Keys : PutSide!History(k)' = PutSide!History(k)
    PROVE  PutSide!InOrder'
<1>1. ASSUME NEW k \in Keys,
             NEW i \in DOMAIN PutSide!History(k)', NEW j \in DOMAIN PutSide!History(k)',
             i < j, PutSide!History(k)'[i][1] = PutSide!History(k)'[j][1]
      PROVE  PutSide!History(k)'[i][2] < PutSide!History(k)'[j][2]
  <2>1. PutSide!History(k)' = PutSide!History(k)
    OBVIOUS
  <2>2. /\ i \in DOMAIN PutSide!History(k) /\ j \in DOMAIN PutSide!History(k)
        /\ PutSide!History(k)[i][1] = PutSide!History(k)[j][1]
    BY ONLY <1>1, <2>1
  <2>3. PutSide!InOrder
    OBVIOUS
  <2>4. PutSide!History(k)[i][2] < PutSide!History(k)[j][2]
    BY ONLY <1>1, <2>2, <2>3 DEF PutSide!InOrder
  <2> QED
    BY ONLY <2>1, <2>4
<1> QED
  BY <1>1, Zenon DEF PutSide!InOrder

(* A step that calls no put and receives no item. *)
LEMMA TurnKept ==
    ASSUME Chain, InTurn, UNCHANGED <<made, last, wire, carried>>,
           \A v \in PutSide!Puts : work[v] = "done" => work'[v] = "done",
           \A v \in PutSide!Puts :
              work'[v] \notin {"none", "chained"} => work[v] \notin {"none", "chained"}
    PROVE  Chain' /\ InTurn'
BY DEF Chain, InTurn, Received

(* Making a put: it is called at once only when the one before it is done.  *)
LEMMA TurnMade ==
    ASSUME PutsAssumption, OneKeyEach, PutSideInv, NEW p \in Producers, PutSide!Put(p)
    PROVE  Chain' /\ InTurn' /\ PutSide!InOrder'
<1> DEFINE u == <<p, made[p] + 1>>
           k == PutSide!KeyOf(u)
<1>1. /\ made[p] < Len(Program[p])
      /\ made' = [made EXCEPT ![p] = @ + 1]
      /\ work' = [work EXCEPT ![u] = PutSide!Enqueued(p, k)]
      /\ last' = [last EXCEPT ![p][k] = u]
      /\ UNCHANGED <<carried, ready, queue, got>>
  BY DEF PutSide!Put
<1>2. /\ PutTypes /\ Travel /\ Carrying /\ PutPlaces /\ Chain /\ InTurn /\ PutSide!InOrder
      /\ made[p] \in Nat
  BY DEF PutSideInv, CargoInv, PutTypes
<1>3. /\ u \in PutSide!Puts /\ u[1] = p /\ u[2] = made[p] + 1 /\ k \in Keys
      /\ Len(Program[p]) \in Nat
  <2>1. Len(Program[p]) \in Nat
    BY LenProperties DEF PutsAssumption
  <2>2. u \in PutSide!Puts
    BY <1>1, <1>2, <2>1, PutsAreNumbered
  <2> QED BY <2>1, <2>2, PutsAreNumbered
<1>4. PutSide!Enqueued(p, k) \in {"called", "chained"}
  BY DEF PutSide!Enqueued
<1>5. /\ work[u] = "none"
      /\ \A v \in PutSide!Puts : v # u => work'[v] = work[v]
      /\ work'[u] = PutSide!Enqueued(p, k)
  BY <1>1, <1>2, <1>3 DEF Travel, PutTypes
<1>6. /\ made'[p] = made[p] + 1
      /\ \A q \in Producers : q # p => made'[q] = made[q]
      /\ \A q \in Producers : made[q] \in Nat
  BY <1>1, <1>2 DEF PutTypes
<1> HIDE DEF u, k
<1>7. /\ \A v \in PutSide!Puts : v[1] \in Producers /\ v[2] \in Nat \ {0} /\ v # NoPut
      /\ \A v, w \in PutSide!Puts : v[1] = w[1] /\ v[2] = w[2] => v = w
  BY PutsAreNumbered
<1>8. Chain'
  <2>1. ASSUME NEW v \in PutSide!Puts, v[1] = p, v[2] < u[2], work'[u] # "chained"
        PROVE  work[v] = "done"
    <3>1. PutSide!KeyOf(v) = k /\ made[p] > 0 /\ v[2] <= made[p]
      BY <1>2, <1>3, <1>7, <2>1 DEF OneKeyEach, k
    <3>2. <<p, made[p]>> \in PutSide!Puts
      BY <1>1, <1>2, <1>3, <3>1, PutsAreNumbered
    <3>3. last[p][k] = <<p, made[p]>> /\ work[<<p, made[p]>>] = "done"
      <4>1. last[p][k] = <<p, made[p]>>
        BY <1>2, <2>1, <3>1 DEF Chain
      <4>2. last[p][k] # NoPut
        BY <1>7, <3>2, <4>1
      <4> QED BY <1>5, <2>1, <4>1, <4>2 DEF PutSide!Enqueued
    <3> QED BY <1>2, <1>7, <2>1, <3>1, <3>2, <3>3 DEF Chain
  <2>2. ASSUME NEW v \in PutSide!Puts, NEW w \in PutSide!Puts,
               w[1] = v[1], w[2] < v[2], work'[v] \notin {"none", "chained"}
        PROVE  work'[w] = "done"
    <3>1. CASE v = u
      BY <1>3, <1>5, <1>7, <2>1, <2>2, <3>1
    <3>2. CASE v # u
      <4>1. work[w] = "done"
        BY <1>2, <1>5, <2>2, <3>2 DEF Chain
      <4> QED BY <1>5, <4>1
    <3> QED BY <3>1, <3>2
  <2>3. ASSUME NEW v \in PutSide!Puts, made'[v[1]] > 0
        PROVE  last'[v[1]][PutSide!KeyOf(v)] = <<v[1], made'[v[1]]>>
    <3>1. CASE v[1] = p
      BY <1>1, <1>2, <1>3, <1>6, <3>1 DEF OneKeyEach, k, u, PutTypes
    <3>2. CASE v[1] # p
      <4>1. last'[v[1]] = last[v[1]]
        BY <1>1, <1>2, <1>7, <3>2 DEF PutTypes
      <4> QED BY <1>2, <1>6, <1>7, <2>3, <3>2, <4>1 DEF Chain
    <3> QED BY <3>1, <3>2
  <2> QED BY <2>2, <2>3 DEF Chain
<1>9. InTurn'
  <2>1. \A v \in PutSide!Puts : Received(v[1])' = Received(v[1])
    BY <1>7, CargoMade DEF PutSideInv
  <2> QED BY <1>1, <1>2, <2>1 DEF InTurn
<1> QED BY <1>1, <1>2, <1>8, <1>9, PutHistoryKept, InOrderKept

(* The callback of a call that returned calls the next put of its producer, *)
(* which keeps to its key.                                                  *)
LEMMA TurnCompleted ==
    ASSUME PutsAssumption, OneKeyEach, PutSideInv, NEW u \in PutSide!Puts, PutSide!Complete(u)
    PROVE  Chain' /\ InTurn' /\ PutSide!InOrder'
<1>1. /\ work[u] = "returned"
      /\ work' = [v \in PutSide!Puts |->
             IF v = u THEN "done"
             ELSE IF PutSide!Follows(v, u) /\ work[v] = "chained" THEN "called"
             ELSE work[v]]
      /\ UNCHANGED <<made, last, wire, carried, ready, queue, got>>
  BY DEF PutSide!Complete, PutSide!clientVars
<1>2. Chain /\ InTurn /\ PutSide!InOrder
  BY DEF PutSideInv
<1>3. /\ work'[u] = "done"
      /\ \A v \in PutSide!Puts : v # u =>
             \/ work'[v] = work[v]
             \/ PutSide!Follows(v, u) /\ work[v] = "chained" /\ work'[v] = "called"
  BY <1>1
<1>4. /\ \A v \in PutSide!Puts : v[1] \in Producers /\ v[2] \in Nat \ {0} /\ v # NoPut
      /\ \A v \in PutSide!Puts : v[2] <= Len(Program[v[1]])
      /\ \A v, w \in PutSide!Puts : v[1] = w[1] /\ v[2] = w[2] => v = w
      /\ \A p \in Producers, i \in Nat \ {0} : i <= Len(Program[p]) => <<p, i>> \in PutSide!Puts
      /\ \A p \in Producers : Len(Program[p]) \in Nat
  BY PutsAreNumbered, LenProperties DEF PutsAssumption
<1>5. ASSUME NEW v \in PutSide!Puts, PutSide!Follows(v, u)
      PROVE  v[1] = u[1] /\ v[2] = u[2] + 1
  <2>1. v[1] = u[1] /\ v[2] > u[2]
    BY <1>5 DEF PutSide!Follows
  <2>2. SUFFICES ASSUME v[2] > u[2] + 1
                 PROVE  FALSE
    BY <1>4, <2>1
  <2>3. u[2] + 1 \in (u[2] + 1)..(v[2] - 1)
    BY <1>4, <2>2
  <2>4. <<u[1], u[2] + 1>> \in PutSide!Puts /\ <<u[1], u[2] + 1>>[1] = u[1]
    BY <1>4, <2>1, <2>2
  <2>5. PutSide!KeyOf(<<u[1], u[2] + 1>>) # PutSide!KeyOf(u)
    BY <1>5, <2>3 DEF PutSide!Follows
  <2> QED BY <2>4, <2>5 DEF OneKeyEach
<1>6. \A v \in PutSide!Puts : work[v] = "done" => work'[v] = "done"
  BY <1>3
<1>7. ASSUME NEW v \in PutSide!Puts, NEW w \in PutSide!Puts,
             w[1] = v[1], w[2] < v[2], work'[v] \notin {"none", "chained"}
      PROVE  work'[w] = "done"
  <2>1. CASE v # u /\ PutSide!Follows(v, u)
    <3>1. v[1] = u[1] /\ v[2] = u[2] + 1
      BY <1>5, <2>1
    <3>2. w[2] < u[2] \/ w[2] = u[2]
      BY <1>4, <1>7, <3>1
    <3>3. w[2] < u[2] => work[w] = "done"
      BY <1>1, <1>2, <1>7, <3>1 DEF Chain
    <3>4. w[2] = u[2] => w = u
      BY <1>4, <1>7, <3>1
    <3> QED BY <1>3, <1>6, <3>2, <3>3, <3>4
  <2>2. CASE v = u \/ ~PutSide!Follows(v, u)
    <3>1. work[v] \notin {"none", "chained"}
      BY <1>1, <1>3, <1>7, <2>2
    <3> QED BY <1>2, <1>6, <1>7, <3>1 DEF Chain
  <2> QED BY <2>1, <2>2
<1>8. Chain' /\ InTurn'
  BY <1>1, <1>2, <1>7 DEF Chain, InTurn, Received
<1> QED BY <1>1, <1>2, <1>8, PutHistoryKept, InOrderKept

(* The coroutine receives the item it was sent with: all before it are done *)
(* and so received.                                                         *)
LEMMA TurnReceived ==
    ASSUME PutsAssumption, PutSideInv, NEW u \in PutSide!Puts, PutSide!Receive(u)
    PROVE  Chain' /\ InTurn' /\ PutSide!InOrder'
<1> DEFINE p == u[1]
<1>1. PutSide!Running(u) /\ UNCHANGED <<made, last, work, ready, queue, got>>
  BY DEF PutSide!Receive, PutSide!clientVars
<1>2. CargoInv /\ PutTypes /\ Carrying /\ Chain /\ InTurn /\ PutSide!InOrder
  BY DEF PutSideInv, CargoInv
<1>3. /\ \A v \in PutSide!Puts : v[1] \in Producers /\ v[2] \in Nat \ {0} /\ v # NoPut
      /\ \A v \in PutSide!Puts : v[2] <= Len(Program[v[1]]) /\ v = <<v[1], v[2]>>
      /\ \A v, w \in PutSide!Puts : v[1] = w[1] /\ v[2] = w[2] => v = w
      /\ \A q \in Producers, i \in Nat \ {0} : i <= Len(Program[q]) => <<q, i>> \in PutSide!Puts
      /\ \A q \in Producers : Len(Program[q]) \in Nat
  BY PutsAreNumbered, LenProperties DEF PutsAssumption
<1>4. work[u] = "running" /\ p \in Producers
  BY <1>1, <1>2, <1>3, PutRuns
<1>5. /\ carried[u] = NoPut /\ carried'[u] = <<p, Received(p) + 1>>
      /\ \A v \in PutSide!Puts : v # u => carried'[v] = carried[v]
      /\ Received(p)' = Received(p) + 1
      /\ \A q \in Producers : q # p => Received(q)' = Received(q)
      /\ \A q \in Producers : Received(q) \in Nat
  BY <1>2, CargoReceived
<1>6. Received(p) + 1 = u[2]
  <2>1. u[2] > Received(p) /\ Received(p) \in Nat
    BY <1>2, <1>3, <1>4, <1>5 DEF InTurn
  <2>2. SUFFICES ASSUME u[2] > Received(p) + 1
                 PROVE  FALSE
    BY <1>3, <2>1
  <2>3. PICK v \in PutSide!Puts : v[1] = p /\ v[2] = Received(p) + 1
    <3> DEFINE v == <<p, Received(p) + 1>>
    <3>1. v[1] = p /\ v[2] = Received(p) + 1
      OBVIOUS
    <3>2. v \in PutSide!Puts
      BY <1>3, <2>1, <2>2
    <3> HIDE DEF v
    <3> QED BY <3>1, <3>2
  <2>4. work[v] = "done"
    BY <1>2, <1>4, <2>2, <2>3 DEF Chain
  <2>5. carried[v] = NoPut
    BY <1>2, <2>1, <2>3 DEF InTurn
  <2> QED BY <1>2, <2>4, <2>5 DEF Carrying
<1> HIDE DEF p
<1>7. InTurn'
  <2> SUFFICES ASSUME NEW v \in PutSide!Puts
               PROVE  carried'[v] = IF v[2] <= Received(v[1])' THEN v ELSE NoPut
    BY DEF InTurn
  <2>1. CASE v = u
    <3>1. carried'[u] = u
      BY <1>3, <1>5, <1>6 DEF p
    <3> QED BY <1>3, <1>5, <1>6, <2>1, <3>1 DEF p
  <2>2. CASE v # u /\ v[1] = p
    <3>1. v[2] # u[2]
      BY <1>3, <2>2 DEF p
    <3> QED BY <1>2, <1>3, <1>4, <1>5, <1>6, <2>2, <3>1 DEF InTurn
  <2>3. CASE v[1] # p
    BY <1>2, <1>3, <1>5, <2>3 DEF InTurn, p
  <2> QED BY <2>1, <2>2, <2>3
<1>8. Chain'
  BY <1>1, <1>2 DEF Chain
<1> QED BY <1>1, <1>2, <1>7, <1>8, PutHistoryKept, InOrderKept

(* The item is stored: those of its producer that are in the queue came     *)
(* before it, since they were called.                                       *)
LEMMA TurnStored ==
    ASSUME PutsAssumption, PutSideInv, NEW u \in PutSide!Puts, PutSide!Store(u)
    PROVE  Chain' /\ InTurn' /\ PutSide!InOrder'
<1> DEFINE k == PutSide!KeyOf(u)
           H == PutSide!History(k)
<1>1. /\ PutSide!Running(u) /\ carried[u] # NoPut
      /\ work' = [work EXCEPT ![u] = "returned"]
      /\ UNCHANGED <<made, last, wire, carried>>
  BY DEF PutSide!Store, PutSide!clientVars
<1>2. CargoInv /\ PutTypes /\ Stowed /\ Chain /\ InTurn /\ PutSide!InOrder
  BY DEF PutSideInv, CargoInv
<1>3. work[u] = "running" /\ carried[u] = u /\ k \in Keys
  BY <1>1, <1>2, PutRuns, PutsAreNumbered DEF InTurn
<1>4. /\ work'[u] = "returned"
      /\ \A v \in PutSide!Puts : v # u => work'[v] = work[v]
  BY <1>1, <1>2 DEF PutTypes
<1>5. Chain' /\ InTurn'
  <2>1. /\ \A v \in PutSide!Puts : work[v] = "done" => work'[v] = "done"
        /\ \A v \in PutSide!Puts :
             work'[v] \notin {"none", "chained"} => work[v] \notin {"none", "chained"}
    BY <1>3, <1>4
  <2> QED BY <1>1, <1>2, <2>1, TurnKept
<1>6. /\ PutSide!History(k)' = Append(H, u)
      /\ \A j \in Keys : j # k => PutSide!History(j)' = PutSide!History(j)
  BY <1>2, <1>3, CargoStored
<1>7. H \in Seq(PutSide!Puts)
  BY <1>2, <1>3, PutQueues
<1>8. ASSUME NEW x, Has(H, x)
      PROVE  x \in PutSide!Puts /\ work[x] \in {"returned", "done"}
  <2>1. x \in PutSide!Puts /\ Shipped(x)
    BY <1>2, <1>3, <1>8 DEF Stowed
  <2>2. PICK v \in PutSide!Puts : carried[v] = x /\ work[v] \in {"returned", "done"}
    BY <2>1 DEF Shipped
  <2>3. v = x
    BY <1>2, <2>1, <2>2, PutsAreNumbered DEF InTurn
  <2> QED BY <2>1, <2>2, <2>3
<1> HIDE DEF k, H
<1>9. /\ Len(H) \in Nat /\ DOMAIN H = 1..Len(H)
      /\ DOMAIN PutSide!History(k)' = 1..(Len(H) + 1)
      /\ \A i \in 1..Len(H) : PutSide!History(k)'[i] = H[i]
      /\ PutSide!History(k)'[Len(H) + 1] = u
  BY <1>6, <1>7, LenProperties, AppendProperties
<1>10. ASSUME NEW i \in DOMAIN H, H[i][1] = u[1]
       PROVE  H[i][2] < u[2]
  <2>1. H[i] \in PutSide!Puts /\ work[H[i]] \in {"returned", "done"}
    BY <1>8 DEF Has
  <2>2. /\ H[i][2] \in Nat /\ u[2] \in Nat
        /\ H[i][2] = u[2] => H[i] = u
    BY <1>10, <2>1, PutsAreNumbered
  <2>3. ~(u[2] < H[i][2])
    BY <1>2, <1>3, <1>10, <2>1 DEF Chain
  <2> QED BY <1>3, <2>1, <2>2, <2>3
<1>11. ASSUME NEW j \in Keys, NEW a \in DOMAIN PutSide!History(j)',
              NEW b \in DOMAIN PutSide!History(j)',
              a < b, PutSide!History(j)'[a][1] = PutSide!History(j)'[b][1]
       PROVE  PutSide!History(j)'[a][2] < PutSide!History(j)'[b][2]
  <2>1. CASE j # k
    BY <1>2, <1>6, <1>11, <2>1 DEF PutSide!InOrder
  <2>2. CASE j = k /\ b \in 1..Len(H)
    <3>1. a \in 1..Len(H) /\ PutSide!History(k)'[a] = H[a] /\ PutSide!History(k)'[b] = H[b]
      BY <1>9, <1>11, <2>2
    <3> QED BY <1>2, <1>3, <1>9, <1>11, <2>2, <3>1 DEF PutSide!InOrder, H
  <2>3. CASE j = k /\ b = Len(H) + 1
    <3>1. a \in 1..Len(H) /\ PutSide!History(k)'[a] = H[a] /\ PutSide!History(k)'[b] = u
      BY <1>9, <1>11, <2>3
    <3> QED BY <1>9, <1>10, <1>11, <2>3, <3>1
  <2> QED BY <1>9, <1>11, <2>1, <2>2, <2>3
<1>12. PutSide!InOrder'
  BY <1>11 DEF PutSide!InOrder
<1> QED BY <1>5, <1>12

(* Every step keeps the invariant. *)
LEMMA PutInvNext ==
    ASSUME PutsAssumption, OneKeyEach, PutSideInv, [PutSide!Next]_PutSide!vars
    PROVE  PutSideInv'
<1>1. CargoInv /\ Chain /\ InTurn /\ PutSide!InOrder /\ CargoInv'
  BY CargoNext DEF PutSideInv
<1>2. ASSUME UNCHANGED <<made, last, work, wire, carried, queue, got>>
      PROVE  Chain' /\ InTurn' /\ PutSide!InOrder'
  <2>1. Chain' /\ InTurn'
    BY <1>1, <1>2, TurnKept
  <2> QED BY <1>1, <1>2, <2>1, PutHistoryKept, InOrderKept
<1>3. ASSUME NEW p \in Producers, PutSide!WaitReturns(p)
      PROVE  Chain' /\ InTurn' /\ PutSide!InOrder'
  BY <1>2, <1>3 DEF PutSide!WaitReturns
<1>4. ASSUME NEW u \in PutSide!Puts, PutSide!Arrive(u)
      PROVE  Chain' /\ InTurn' /\ PutSide!InOrder'
  <2>1. /\ work[u] = "called" /\ work' = [work EXCEPT ![u] = "running"]
        /\ UNCHANGED <<made, last, wire, carried, queue, got>>
    BY <1>4 DEF PutSide!Arrive, PutSide!clientVars
  <2>2. /\ \A v \in PutSide!Puts : work[v] = "done" => work'[v] = "done"
        /\ \A v \in PutSide!Puts :
             work'[v] \notin {"none", "chained"} => work[v] \notin {"none", "chained"}
    BY <1>1, <2>1 DEF CargoInv, PutTypes
  <2>3. Chain' /\ InTurn'
    BY <1>1, <2>1, <2>2, TurnKept
  <2> QED BY <1>1, <2>1, <2>3, PutHistoryKept, InOrderKept
<1>5. ASSUME NEW u \in PutSide!Puts, PutSide!StoreWait(u)
      PROVE  Chain' /\ InTurn' /\ PutSide!InOrder'
  <2>1. UNCHANGED <<made, last, work, wire, carried>>
    BY <1>5 DEF PutSide!StoreWait, PutSide!clientVars
  <2>2. Chain' /\ InTurn'
    BY <1>1, <2>1, TurnKept
  <2> QED BY <1>1, <1>5, <2>2, CargoParked, InOrderKept
<1>6. ASSUME NEW u \in PutSide!Puts, PutSide!StoreRaises(u)
      PROVE  Chain' /\ InTurn' /\ PutSide!InOrder'
  <2>1. /\ PutSide!Running(u) /\ work' = [work EXCEPT ![u] = "raised"]
        /\ UNCHANGED <<made, last, wire, carried, queue, got>>
    BY <1>6 DEF PutSide!StoreRaises, PutSide!clientVars
  <2>2. work[u] = "running"
    BY <1>1, <2>1, PutRuns
  <2>3. /\ \A v \in PutSide!Puts : work[v] = "done" => work'[v] = "done"
        /\ \A v \in PutSide!Puts :
             work'[v] \notin {"none", "chained"} => work[v] \notin {"none", "chained"}
    BY <1>1, <2>1, <2>2 DEF CargoInv, PutTypes
  <2>4. Chain' /\ InTurn'
    BY <1>1, <2>1, <2>3, TurnKept
  <2> QED BY <1>1, <2>1, <2>4, PutHistoryKept, InOrderKept
<1>7. ASSUME NEW k \in Keys, PutSide!Get(k)
      PROVE  Chain' /\ InTurn' /\ PutSide!InOrder'
  <2>1. UNCHANGED <<made, last, work, wire, carried>>
    BY <1>7 DEF PutSide!Get, PutSide!clientVars
  <2>2. Chain' /\ InTurn'
    BY <1>1, <2>1, TurnKept
  <2> QED BY <1>1, <1>7, <2>2, CargoTaken, InOrderKept
<1>8. ASSUME UNCHANGED PutSide!vars
      PROVE  Chain' /\ InTurn' /\ PutSide!InOrder'
  <2>1. UNCHANGED <<made, last, work, wire, carried, queue, got>>
    BY <1>8 DEF PutSide!vars, PutSide!clientVars
  <2> QED BY <1>2, <2>1
<1>9. ASSUME NEW p \in Producers, PutSide!Put(p)
      PROVE  Chain' /\ InTurn' /\ PutSide!InOrder'
  BY <1>9, TurnMade
<1>10. ASSUME NEW u \in PutSide!Puts, PutSide!Complete(u)
       PROVE  Chain' /\ InTurn' /\ PutSide!InOrder'
  BY <1>10, TurnCompleted
<1>11. ASSUME NEW u \in PutSide!Puts, PutSide!Receive(u) \/ PutSide!Store(u)
       PROVE  Chain' /\ InTurn' /\ PutSide!InOrder'
  BY <1>11, TurnReceived, TurnStored
<1>12. Chain' /\ InTurn' /\ PutSide!InOrder'
  <2> SUFFICES ASSUME PutSide!Next
               PROVE  Chain' /\ InTurn' /\ PutSide!InOrder'
    BY <1>8
  <2>1. \/ \E p \in Producers : PutSide!Put(p) \/ PutSide!WaitReturns(p)
        \/ \E u \in PutSide!Puts : PutSide!Complete(u) \/ PutSide!Arrive(u)
        \/ \E u \in PutSide!Puts : \/ PutSide!Receive(u) \/ PutSide!Store(u)
                                   \/ PutSide!StoreWait(u) \/ PutSide!StoreRaises(u)
        \/ \E k \in Keys : PutSide!Get(k)
    BY DEF PutSide!Next, PutSide!RunReady
  <2> QED BY <1>3, <1>4, <1>5, <1>6, <1>7, <1>9, <1>10, <1>11, <2>1
<1> QED BY <1>1, <1>12 DEF PutSideInv

(* Initially nothing is put. *)
LEMMA PutInvInit ==
    ASSUME PutsAssumption, PutSide!Init
    PROVE  PutSideInv
<1>1. CargoInv
  BY CargoInit
<1>2. Chain /\ InTurn
  BY PutsAreNumbered DEF PutSide!Init, Chain, InTurn, Received
<1>3. \A k \in Keys : PutSide!History(k) = <<>>
  BY DEF PutSide!Init, PutSide!History, PutSide!NewQueue
<1>4. PutSide!InOrder
  BY <1>3 DEF PutSide!InOrder
<1> QED BY <1>1, <1>2, <1>4 DEF PutSideInv

(* What the invariant says of an item that was sent.                        *)
LEMMA PutAccounted ==
    ASSUME PutsAssumption, PutSideInv
    PROVE  PutSide!ReturnedIsStored /\ PutSide!OnlyNowaitDrops
<1>1. CargoInv /\ Stowed /\ Carrying /\ InTurn /\ NothingMislaid
  BY CargoAccounted DEF PutSideInv, CargoInv
<1>2. \A u \in PutSide!Puts : u # NoPut /\ PutSide!KeyOf(u) \in Keys
  BY PutsAreNumbered
<1>3. ASSUME NEW u \in PutSide!Puts, work[u] = "done"
      PROVE  Has(PutSide!History(PutSide!KeyOf(u)), u)
  <2>1. carried[u] = u
    BY <1>1, <1>3 DEF Carrying, InTurn
  <2>2. Shipped(u)
    BY <1>3, <2>1 DEF Shipped
  <2> QED BY <1>1, <1>2, <2>2 DEF Stowed
<1>4. ASSUME NEW u \in PutSide!Puts, NEW v \in PutSide!Puts, RefusedWith(v, u)
      PROVE  PutSide!Mode(u) = "nowait" /\ work[u] = "raised"
  <2>1. v = u
    BY <1>1, <1>2, <1>4 DEF RefusedWith, InTurn
  <2> QED BY <1>4, <2>1 DEF RefusedWith
<1>5. PutSide!ReturnedIsStored
  BY <1>3, PutSideOperators DEF PutSide!ReturnedIsStored
<1>6. PutSide!OnlyNowaitDrops
  BY <1>1, <1>4, PutSideOperators DEF NothingMislaid, PutSide!OnlyNowaitDrops
<1> QED BY <1>5, <1>6

(* Items of one producer come out in the order in which it put them, with   *)
(* any number of producers, keys, overlapping puts and any maxsize, when    *)
(* every producer keeps to one key: a channel is FIFO for each of them.     *)
THEOREM PutsAreInOrder ==
    ASSUME PutsAssumption, OneKeyEach
    PROVE  PutSide!Spec => []PutSide!InOrder
<1>1. PutSide!Init => PutSideInv
  BY PutsAssumption, PutInvInit
<1>2. PutSideInv /\ [PutSide!Next]_PutSide!vars => PutSideInv'
  BY PutsAssumption, OneKeyEach, PutInvNext
<1>3. PutSideInv => PutSide!InOrder
  BY DEF PutSideInv
<1> QED BY <1>1, <1>2, <1>3, PTL DEF PutSide!Spec

(* A put that has returned to its caller has stored its item               *)
(* (AsyncChannelWork.async_wait, ChannelWorker.put).                        *)
THEOREM PutsAreStored ==
    ASSUME PutsAssumption, OneKeyEach
    PROVE  PutSide!Spec => []PutSide!ReturnedIsStored
<1>1. PutSide!Init => PutSideInv
  BY PutsAssumption, PutInvInit
<1>2. PutSideInv /\ [PutSide!Next]_PutSide!vars => PutSideInv'
  BY PutsAssumption, OneKeyEach, PutInvNext
<1>3. PutSideInv => PutSide!ReturnedIsStored
  BY PutsAssumption, PutAccounted
<1> QED BY <1>1, <1>2, <1>3, PTL DEF PutSide!Spec

(* An item that was sent is under way, waiting or stored, unless its own    *)
(* put_nowait was refused by a full queue: no other put drops it.           *)
THEOREM OnlyRefusedPutsAreLost ==
    ASSUME PutsAssumption, OneKeyEach
    PROVE  PutSide!Spec => []PutSide!OnlyNowaitDrops
<1>1. PutSide!Init => PutSideInv
  BY PutsAssumption, PutInvInit
<1>2. PutSideInv /\ [PutSide!Next]_PutSide!vars => PutSideInv'
  BY PutsAssumption, OneKeyEach, PutInvNext
<1>3. PutSideInv => PutSide!OnlyNowaitDrops
  BY PutsAssumption, PutAccounted
<1> QED BY <1>1, <1>2, <1>3, PTL DEF PutSide!Spec

-----------------------------------------------------------------------------
(* The get side of a channel: ChannelGet. *)

CONSTANTS Consumers, Items, KeyOfItem, Nothing
VARIABLES stage, receives, inbox, store, result, call, unput

GetSide == INSTANCE ChannelGet

(* The assumptions of ChannelGet, but for the size of the queue.            *)
GetsAssumption ==
    /\ Program \in [Consumers -> Seq([key : Keys, mode : GetSide!Modes])]
    /\ KeyOfItem \in [Items -> Keys]
    /\ Nothing \notin Items /\ Nothing \notin GetSide!Gets /\ Nothing \notin GetSide!Message
    /\ \A i \in Items : i \notin {"absent", "pending", "none", "raised"}

(* The gets of a consumer are all asynchronous or none of them is. *)
OneModeEach ==
    \A g, h \in GetSide!Gets :
        g[1] = h[1] /\ GetSide!Mode(g) = "async" => GetSide!Mode(h) = "async"

(* No get of consumer c is asynchronous. *)
AllSync(c) == \A g \in GetSide!Gets : g[1] = c => GetSide!Mode(g) # "async"

(* A get whose answer is its own: an asynchronous one looks for its query,  *)
(* and a synchronous one trusts its own receive, which may take the answer  *)
(* of an asynchronous get that is pending.                                  *)
Orderly(g) == GetSide!Mode(g) = "async" \/ AllSync(g[1])

(* Messages on a wire are distinct, but for those that name no query. *)
Distinct(s) == \A i, j \in DOMAIN s : s[i] = s[j] /\ s[i].query # Nothing => i = j

GetTypes ==
    /\ made \in [Consumers -> Nat]
    /\ \A c \in Consumers : made[c] <= Len(Program[c])
    /\ stage \in [Consumers -> {"idle", "called", "posted"}]
    /\ \A c \in Consumers : stage[c] # "idle" => made[c] > 0
    /\ receives \in [Consumers -> Seq(GetSide!Gets)]
    /\ inbox \in [GetSide!Gets -> GetSide!Message \cup {Nothing}]
    /\ store \in [GetSide!Gets -> Items \cup {"absent", "pending"}]
    /\ result \in [GetSide!Gets -> Items \cup {"none", "raised", Nothing}]
    /\ call \in [GetSide!Gets -> {"none", "called", "running", "answered"}]
    /\ wire \in [Consumers -> Seq(GetSide!Message)]
    /\ queue \in [Keys -> [items : Seq(Items), getters : Seq(GetSide!Gets), putters : {<<>>}]]
    /\ ready \in Seq(GetSide!Gets)

(* An item waits once under its key. *)
Stock ==
    \A k \in Keys :
        /\ Unique(queue[k].items)
        /\ \A i : Has(queue[k].items, i) => KeyOfItem[i] = k

(* A coroutine is at one place, to be run or parked. *)
GetPlaces ==
    /\ Unique(ready)
    /\ \A g : Has(ready, g) => call[g] = "running"
    /\ \A k \in Keys :
        /\ Unique(queue[k].getters)
        /\ \A g : Has(queue[k].getters, g) =>
              call[g] = "running" /\ GetSide!KeyOf(g) = k /\ ~Has(ready, g)

(* Gets to come have no call, those whose receive is to come no message,    *)
(* and those that have not been wrapped or returned no result.              *)
Ahead ==
    \A g \in GetSide!Gets :
        /\ g[2] > made[g[1]] => call[g] = "none"
        /\ g[2] > made[g[1]] \/ (g[2] = made[g[1]] /\ stage[g[1]] = "called") =>
              inbox[g] = Nothing /\ ~Has(receives[g[1]], g)
        /\ g[2] > made[g[1]] \/ (g[2] = made[g[1]] /\ stage[g[1]] # "idle") =>
              result[g] = "none"

(* A receive that waits has taken nothing. *)
Receives ==
    \A c \in Consumers :
        /\ Unique(receives[c])
        /\ \A g : Has(receives[c], g) => g[1] = c /\ inbox[g] = Nothing

(* A consumer whose gets are synchronous has one answer under way at most,  *)
(* that of the get it is in.                                                *)
OneAnswer ==
    \A g \in GetSide!Gets : AllSync(g[1]) =>
        /\ call[g] \in {"called", "running"} =>
              /\ g[2] = made[g[1]] /\ stage[g[1]] # "idle"
              /\ wire[g[1]] = <<>> /\ inbox[g] = Nothing
        /\ inbox[g] # Nothing =>
              /\ g[2] = made[g[1]] /\ stage[g[1]] = "posted"
              /\ wire[g[1]] = <<>> /\ inbox[g].query \in {g, Nothing}
        /\ \A m : Has(wire[g[1]], m) =>
              /\ stage[g[1]] # "idle" /\ Tail(wire[g[1]]) = <<>>
              /\ m.query \in {<<g[1], made[g[1]]>>, Nothing}
        /\ Has(receives[g[1]], g) => g[2] = made[g[1]] /\ stage[g[1]] = "posted"

(* Messages that no get has filed or returned. *)
Under(m) ==
    \/ \E c \in Consumers : Has(wire[c], m)
    \/ \E g \in GetSide!Gets : inbox[g] = m /\ m # Nothing

(* A message answers one get, which has no other answer, with an item of    *)
(* its key.                                                                 *)
Mail ==
    /\ \A c \in Consumers : Distinct(wire[c])
    /\ \A m : Under(m) /\ m.query = Nothing => m.item = Nothing
    /\ \A m : Under(m) /\ m.query # Nothing =>
          /\ m.item \in Items /\ KeyOfItem[m.item] = GetSide!KeyOf(m.query)
          /\ call[m.query] = "answered"
          /\ store[m.query] \notin Items
          /\ Orderly(m.query) => result[m.query] \notin Items
    /\ \A m, n : Under(m) /\ Under(n) /\ m.query # Nothing
          /\ (m.query = n.query \/ m.item = n.item) => m = n

(* What is filed or returned answers its get with an item of its key.       *)
Filed ==
    \A g \in GetSide!Gets :
        /\ store[g] \in Items =>
              /\ call[g] = "answered" /\ KeyOfItem[store[g]] = GetSide!KeyOf(g)
              /\ Orderly(g) => result[g] \notin Items
        /\ Orderly(g) /\ result[g] \in Items =>
              call[g] = "answered" /\ KeyOfItem[result[g]] = GetSide!KeyOf(g)

InStock(k, i) == Has(queue[k].items, i)
OnWire(c, i) == \E m : Has(wire[c], m) /\ m.item = i
InBox(g, i) == inbox[g] # Nothing /\ inbox[g].item = i

(* Item i is at place x of the given kind. *)
At(i, kind, x) ==
    \/ kind = "unput" /\ x = i /\ i \in unput
    \/ kind = "queue" /\ x \in Keys /\ InStock(x, i)
    \/ kind = "wire" /\ x \in Consumers /\ OnWire(x, i)
    \/ kind = "inbox" /\ x \in GetSide!Gets /\ InBox(x, i)
    \/ kind = "store" /\ x \in GetSide!Gets /\ store[x] = i
    \/ kind = "result" /\ x \in GetSide!Gets /\ result[x] = i

Once(i) == \E kind, x : \A l, y : At(i, l, y) <=> l = kind /\ y = x

GetSideInv ==
    /\ GetTypes /\ Stock /\ GetPlaces /\ Ahead /\ Receives /\ OneAnswer /\ Mail /\ Filed
    /\ \A i \in Items : Once(i)

(* The operators of the queue are the same whoever uses them. *)
LEMMA GetSideOperators ==
    /\ \A s, e : GetSide!Has(s, e) <=> Has(s, e)
    /\ \A s : GetSide!First(s) = First(s) /\ GetSide!Others(s) = Others(s)
BY DEF GetSide!Has, Has, GetSide!First, First, GetSide!Others, Others

(* A get is a pair of its consumer and its place in the program. *)
LEMMA GetsAreNumbered ==
    ASSUME GetsAssumption
    PROVE  /\ \A g \in GetSide!Gets :
                /\ g[1] \in Consumers /\ g[2] \in Nat \ {0} /\ g[2] <= Len(Program[g[1]])
                /\ g = <<g[1], g[2]>>
                /\ GetSide!KeyOf(g) \in Keys
                /\ g # Nothing
           /\ \A g, h \in GetSide!Gets : g[1] = h[1] /\ g[2] = h[2] => g = h
           /\ \A c \in Consumers, i \in Nat \ {0} :
                i <= Len(Program[c]) => <<c, i>> \in GetSide!Gets
           /\ \A c \in Consumers : Len(Program[c]) \in Nat
<1>1. \A c \in Consumers :
        /\ Program[c] \in Seq([key : Keys, mode : GetSide!Modes])
        /\ Len(Program[c]) \in Nat
        /\ DOMAIN Program[c] = 1..Len(Program[c])
  BY LenProperties DEF GetsAssumption
<1>2. ASSUME NEW g \in GetSide!Gets
      PROVE  \E c \in Consumers : \E i \in DOMAIN Program[c] : g = <<c, i>>
  BY <1>2 DEF GetSide!Gets
<1>3. ASSUME NEW g \in GetSide!Gets
      PROVE  /\ g[1] \in Consumers /\ g[2] \in Nat \ {0} /\ g[2] <= Len(Program[g[1]])
             /\ g = <<g[1], g[2]>>
             /\ GetSide!KeyOf(g) \in Keys
             /\ g # Nothing
  <2>0. PICK c \in Consumers : \E i \in DOMAIN Program[c] : g = <<c, i>>
    BY <1>2
  <2>1. PICK i \in DOMAIN Program[c] : g = <<c, i>>
    BY <2>0
  <2>2. g[1] = c /\ g[2] = i /\ i \in 1..Len(Program[c])
    BY <1>1, <2>1
  <2>3. Program[c][i] \in [key : Keys, mode : GetSide!Modes]
    BY <1>1, <2>2, ElementOfSeq
  <2>4. GetSide!KeyOf(g) \in Keys
    BY <2>2, <2>3 DEF GetSide!KeyOf
  <2>5. g # Nothing
    BY DEF GetsAssumption
  <2> QED BY <1>1, <2>1, <2>2, <2>4, <2>5
<1>4. ASSUME NEW c \in Consumers, NEW i \in Nat \ {0}, i <= Len(Program[c])
      PROVE  <<c, i>> \in GetSide!Gets
  BY <1>1, <1>4 DEF GetSide!Gets
<1> QED BY <1>1, <1>3, <1>4

(* Taking a message off a wire, and adding one. *)
LEMMA DistinctTail ==
    ASSUME NEW S, NEW s \in Seq(S), s # <<>>, Distinct(s)
    PROVE  /\ Tail(s) \in Seq(S) /\ Distinct(Tail(s))
           /\ Head(s) \in S /\ Has(s, Head(s))
           /\ \A e : Has(Tail(s), e) => Has(s, e)
           /\ \A e : Has(s, e) /\ e # Head(s) => Has(Tail(s), e)
           /\ Head(s).query # Nothing => ~Has(Tail(s), Head(s))
<1>1. /\ Tail(s) \in Seq(S)
      /\ Len(s) \in Nat \ {0}
      /\ Len(Tail(s)) = Len(s) - 1
      /\ \A i \in 1..Len(Tail(s)) : Tail(s)[i] = s[i + 1]
      /\ Head(s) = s[1]
      /\ Head(s) \in S
  BY HeadTailProperties, EmptySeq, LenProperties
<1>2. DOMAIN s = 1..Len(s) /\ DOMAIN Tail(s) = 1..Len(Tail(s))
  BY <1>1, LenProperties
<1> DEFINE t == Tail(s)
           l == Len(s)
<1>3. /\ l \in Nat \ {0} /\ DOMAIN s = 1..l /\ DOMAIN t = 1..(l - 1)
      /\ \A i \in 1..(l - 1) : t[i] = s[i + 1]
  BY <1>1, <1>2
<1>4. Has(s, Head(s))
  BY <1>1, <1>3 DEF Has
<1> HIDE DEF t, l
<1>5. ASSUME NEW i \in DOMAIN t
      PROVE  t[i] = s[i + 1] /\ i \in Nat /\ i + 1 \in DOMAIN s /\ i + 1 # 1
  BY <1>3
<1>6. Distinct(t)
  <2> SUFFICES ASSUME NEW i \in DOMAIN t, NEW j \in DOMAIN t, t[i] = t[j], t[i].query # Nothing
               PROVE  i = j
    BY DEF Distinct
  <2>1. i + 1 = j + 1
    BY <1>5 DEF Distinct
  <2> QED BY <1>5, <2>1
<1>7. \A e : Has(t, e) => Has(s, e)
  BY <1>5 DEF Has
<1>8. ASSUME NEW e, Has(s, e), e # s[1]
      PROVE  Has(t, e)
  <2>1. PICK i \in DOMAIN s : s[i] = e
    BY <1>8 DEF Has
  <2>2. i - 1 \in DOMAIN t /\ (i - 1) + 1 = i
    BY <1>3, <1>8, <2>1
  <2> QED BY <1>5, <2>1, <2>2 DEF Has
<1>9. ASSUME s[1].query # Nothing, Has(t, s[1])
      PROVE  FALSE
  <2>1. PICK i \in DOMAIN t : t[i] = s[1]
    BY <1>9 DEF Has
  <2>2. 1 \in DOMAIN s
    BY <1>3
  <2> QED BY <1>5, <1>9, <2>1, <2>2 DEF Distinct
<1> QED BY <1>1, <1>4, <1>6, <1>7, <1>8, <1>9 DEF t

LEMMA DistinctAppend ==
    ASSUME NEW S, NEW s \in Seq(S), NEW m \in S, Distinct(s),
           m.query = Nothing \/ ~Has(s, m)
    PROVE  Distinct(Append(s, m))
<1>1. /\ Len(Append(s, m)) = Len(s) + 1
      /\ \A i \in 1..Len(s) : Append(s, m)[i] = s[i]
      /\ Append(s, m)[Len(s) + 1] = m
      /\ Append(s, m) \in Seq(S)
  BY AppendProperties
<1>2. /\ Len(s) \in Nat /\ DOMAIN s = 1..Len(s)
      /\ DOMAIN Append(s, m) = 1..(Len(s) + 1)
  BY <1>1, LenProperties
<1> DEFINE t == Append(s, m)
           l == Len(s)
<1>3. /\ l \in Nat /\ DOMAIN s = 1..l /\ DOMAIN t = 1..(l + 1)
      /\ \A i \in 1..l : t[i] = s[i]
      /\ t[l + 1] = m
  BY <1>1, <1>2
<1> HIDE DEF t, l
<1>4. ASSUME NEW i \in DOMAIN t, NEW j \in DOMAIN t, t[i] = t[j], t[i].query # Nothing
      PROVE  i = j
  <2>1. \A n \in DOMAIN t : n \in DOMAIN s \/ n = l + 1
    BY <1>3
  <2>2. \A n \in DOMAIN s : t[n] = s[n]
    BY <1>3
  <2>3. CASE i \in DOMAIN s /\ j \in DOMAIN s
    BY <1>4, <2>2, <2>3 DEF Distinct
  <2>4. CASE i = l + 1 /\ j \in DOMAIN s
    BY <1>3, <1>4, <2>2, <2>4 DEF Has
  <2>5. CASE i \in DOMAIN s /\ j = l + 1
    BY <1>3, <1>4, <2>2, <2>5 DEF Has
  <2>6. CASE i = l + 1 /\ j = l + 1
    BY <2>6
  <2> QED BY <2>1, <2>3, <2>4, <2>5, <2>6
<1> QED BY <1>4 DEF Distinct, t

(* An item that stays where it is, is still there once. *)
LEMMA OnceStays ==
    ASSUME NEW i, Once(i), \A l, y : At(i, l, y)' <=> At(i, l, y)
    PROVE  Once(i)'
BY DEF Once

(* Where an item is, it is alone. *)
LEMMA OnceHere ==
    ASSUME NEW i, NEW kind, NEW x, Once(i), At(i, kind, x)
    PROVE  \A l, y : At(i, l, y) <=> l = kind /\ y = x
BY DEF Once

(* What the run checks follows: the places of an item are one place.        *)
LEMMA OnceIsOnce ==
    ASSUME GetsAssumption, GetTypes, \A i \in Items : Once(i)
    PROVE  GetSide!EachItemOnce
<1> SUFFICES ASSUME NEW i \in Items
             PROVE  LET places ==
                {<<"unput", i>> : x \in unput \cap {i}}
                \cup {<<"queue", k>> : k \in {k \in Keys : GetSide!Has(queue[k].items, i)}}
                \cup {<<"wire", c>> : c \in {c \in Consumers :
                        \E n \in DOMAIN wire[c] : GetSide!InMessage(wire[c][n], i)}}
                \cup {<<"inbox", g>> : g \in {g \in GetSide!Gets :
                        GetSide!InMessage(inbox[g], i)}}
                \cup {<<"store", g>> : g \in {g \in GetSide!Gets : store[g] = i}}
                \cup {<<"result", g>> : g \in {g \in GetSide!Gets : result[g] = i}}
             IN \E p \in places : places = {p}
  BY DEF GetSide!EachItemOnce
<1> DEFINE places ==
                {<<"unput", i>> : x \in unput \cap {i}}
                \cup {<<"queue", k>> : k \in {k \in Keys : GetSide!Has(queue[k].items, i)}}
                \cup {<<"wire", c>> : c \in {c \in Consumers :
                        \E n \in DOMAIN wire[c] : GetSide!InMessage(wire[c][n], i)}}
                \cup {<<"inbox", g>> : g \in {g \in GetSide!Gets :
                        GetSide!InMessage(inbox[g], i)}}
                \cup {<<"store", g>> : g \in {g \in GetSide!Gets : store[g] = i}}
                \cup {<<"result", g>> : g \in {g \in GetSide!Gets : result[g] = i}}
<1>1. \A c \in Consumers :
        (\E n \in DOMAIN wire[c] : GetSide!InMessage(wire[c][n], i)) <=> OnWire(c, i)
  <2> SUFFICES ASSUME NEW c \in Consumers
               PROVE  (\E n \in DOMAIN wire[c] : GetSide!InMessage(wire[c][n], i))
                         <=> OnWire(c, i)
    OBVIOUS
  <2>1. \A n \in DOMAIN wire[c] : wire[c][n] # Nothing
    BY ElementOfSeq, LenProperties DEF GetTypes, GetsAssumption
  <2> QED BY <2>1 DEF OnWire, Has, GetSide!InMessage
<1>2. \A g \in GetSide!Gets : GetSide!InMessage(inbox[g], i) <=> InBox(g, i)
  BY DEF InBox, GetSide!InMessage
<1>3. \A k \in Keys : GetSide!Has(queue[k].items, i) <=> InStock(k, i)
  BY GetSideOperators DEF InStock
<1>4. \A p : p \in places <=> \E l, y : p = <<l, y>> /\ At(i, l, y)
  BY <1>1, <1>2, <1>3 DEF At
<1>5. PICK kind, x : \A l, y : At(i, l, y) <=> l = kind /\ y = x
  BY DEF Once
<1> HIDE DEF places
<1>6. \A p : p \in places <=> p = <<kind, x>>
  BY <1>4, <1>5
<1>7. places = {<<kind, x>>}
  BY <1>6
<1>8. \E p \in places : places = {p}
  BY <1>7
<1> QED BY <1>8 DEF places

(* Initially no item is put. *)
LEMMA GetInvInit ==
    ASSUME GetsAssumption, GetSide!Init
    PROVE  GetSideInv
<1>1. GetTypes
  BY GetsAreNumbered DEF GetSide!Init, GetTypes, GetSide!NewQueue, GetsAssumption
<1>2. Stock /\ GetPlaces
  BY DEF GetSide!Init, Stock, GetPlaces, GetSide!NewQueue, Unique, Has
<1>3. Ahead /\ Receives /\ OneAnswer
  BY GetsAreNumbered DEF GetSide!Init, Ahead, Receives, OneAnswer, Unique, Has
<1>4. Mail /\ Filed
  BY GetsAreNumbered DEF GetSide!Init, Mail, Filed, Under, Distinct, Has, GetsAssumption
<1>5. ASSUME NEW i \in Items
      PROVE  Once(i)
  <2>1. \A l, y : At(i, l, y) <=> l = "unput" /\ y = i
    BY <1>5 DEF GetSide!Init, At, InStock, OnWire, InBox, Has, GetSide!NewQueue, GetsAssumption
  <2> QED BY <2>1 DEF Once
<1> QED BY <1>1, <1>2, <1>3, <1>4, <1>5 DEF GetSideInv

(* A message names a get or none. *)
LEMMA UnderIsMessage ==
    ASSUME GetTypes, NEW m, Under(m)
    PROVE  m \in GetSide!Message /\ m.query \in GetSide!Gets \cup {Nothing}
<1>1. ASSUME NEW c \in Consumers, Has(wire[c], m)
      PROVE  m \in GetSide!Message
  <2>1. wire[c] \in Seq(GetSide!Message)
    BY DEF GetTypes
  <2> QED BY <1>1, <2>1, ElementOfSeq, LenProperties DEF Has
<1>2. m \in GetSide!Message
  BY <1>1 DEF Under, GetTypes
<1> QED BY <1>2 DEF GetSide!Message

(* Members of the waiting lists are gets. *)
LEMMA GetMembers ==
    ASSUME GetTypes
    PROVE  /\ \A g : Has(ready, g) => g \in GetSide!Gets
           /\ \A k \in Keys : \A g : Has(queue[k].getters, g) => g \in GetSide!Gets
           /\ \A c \in Consumers : \A g : Has(receives[c], g) => g \in GetSide!Gets
<1>1. \A k \in Keys :
        queue[k] \in [items : Seq(Items), getters : Seq(GetSide!Gets), putters : {<<>>}]
  BY DEF GetTypes
<1>2. ready \in Seq(GetSide!Gets) /\ \A c \in Consumers : receives[c] \in Seq(GetSide!Gets)
  BY DEF GetTypes
<1>3. ASSUME NEW s \in Seq(GetSide!Gets), NEW g, Has(s, g)
      PROVE  g \in GetSide!Gets
  BY <1>3, ElementOfSeq, LenProperties DEF Has
<1> QED BY <1>1, <1>2, <1>3

(* A step that moves no item and no message keeps what is said of them.     *)
LEMMA ItemsKept ==
    ASSUME GetSideInv, UNCHANGED <<unput, wire, inbox, result>>,
           \A k \in Keys : queue'[k].items = queue[k].items,
           \A g \in GetSide!Gets :
              store'[g] = store[g] \/ (store[g] \notin Items /\ store'[g] \notin Items)
    PROVE  /\ Stock'
           /\ \A m : Under(m)' <=> Under(m)
           /\ \A i \in Items : Once(i)'
<1>1. Stock'
  BY DEF GetSideInv, Stock
<1>2. \A m : Under(m)' <=> Under(m)
  BY DEF Under
<1>3. ASSUME NEW i \in Items
      PROVE  Once(i)'
  <2>1. \A k \in Keys : InStock(k, i)' <=> InStock(k, i)
    BY DEF InStock
  <2>2. /\ \A c \in Consumers : OnWire(c, i)' <=> OnWire(c, i)
        /\ \A g \in GetSide!Gets : InBox(g, i)' <=> InBox(g, i)
    BY DEF OnWire, InBox
  <2>3. \A g \in GetSide!Gets : store'[g] = i <=> store[g] = i
    BY <1>3
  <2>4. \A l, y : At(i, l, y)' <=> At(i, l, y)
    BY <2>1, <2>2, <2>3 DEF At
  <2> QED BY <2>4, OnceStays DEF GetSideInv
<1> QED BY <1>1, <1>2, <1>3

(* A step that changes nothing. *)
LEMMA GetInvKept ==
    ASSUME GetSideInv, UNCHANGED GetSide!vars
    PROVE  GetSideInv'
<1>1. UNCHANGED <<made, stage, receives, inbox, store, result, call, wire, unput, queue, ready>>
  BY DEF GetSide!vars, GetSide!clientVars
<1>2. Stock' /\ (\A m : Under(m)' <=> Under(m)) /\ \A i \in Items : Once(i)'
  BY <1>1, ItemsKept
<1>3. GetTypes' /\ GetPlaces' /\ Ahead' /\ Receives' /\ OneAnswer' /\ Filed'
  <2>1. GetTypes' /\ GetPlaces'
    BY <1>1 DEF GetSideInv, GetTypes, GetPlaces
  <2>2. Ahead' /\ Receives'
    BY <1>1 DEF GetSideInv, Ahead, Receives
  <2>3. OneAnswer' /\ Filed'
    BY <1>1 DEF GetSideInv, OneAnswer, Filed
  <2> QED BY <2>1, <2>2, <2>3
<1>4. Mail'
  BY <1>1, <1>2 DEF GetSideInv, Mail
<1> QED BY <1>2, <1>3, <1>4 DEF GetSideInv

(* A consumer begins its next get: of that get nothing is there yet.        *)
LEMMA GetCalled ==
    ASSUME GetsAssumption, GetSideInv, NEW c \in Consumers, GetSide!Call(c)
    PROVE  GetSideInv'
<1> DEFINE n == <<c, made[c] + 1>>
<1>1. /\ stage[c] = "idle" /\ made[c] < Len(Program[c])
      /\ made' = [made EXCEPT ![c] = @ + 1]
      /\ stage' = [stage EXCEPT ![c] = "called"]
      /\ call' = [call EXCEPT ![n] = "called"]
      /\ UNCHANGED <<receives, inbox, store, result, wire, unput, queue, ready>>
  BY DEF GetSide!Call
<1>2. /\ GetTypes /\ Stock /\ GetPlaces /\ Ahead /\ Receives /\ OneAnswer /\ Mail /\ Filed
      /\ \A g \in GetSide!Gets : made[g[1]] \in Nat
      /\ made[c] \in Nat
  BY GetsAreNumbered DEF GetSideInv, GetTypes
<1>3. /\ \A g \in GetSide!Gets : g[1] \in Consumers /\ g[2] \in Nat \ {0}
      /\ \A g, h \in GetSide!Gets : g[1] = h[1] /\ g[2] = h[2] => g = h
      /\ Len(Program[c]) \in Nat
  BY GetsAreNumbered
<1>4. n \in GetSide!Gets /\ n[1] = c /\ n[2] = made[c] + 1
  BY <1>1, <1>2, <1>3, GetsAreNumbered
<1>5. /\ call[n] = "none" /\ call'[n] = "called"
      /\ \A g \in GetSide!Gets : g # n => call'[g] = call[g]
  BY <1>1, <1>2, <1>4 DEF Ahead, GetTypes
<1>6. /\ made'[c] = made[c] + 1 /\ stage'[c] = "called"
      /\ \A d \in Consumers : d # c => made'[d] = made[d] /\ stage'[d] = stage[d]
  BY <1>1, <1>2 DEF GetTypes
<1> HIDE DEF n
<1>7. GetTypes'
  BY <1>1, <1>2, <1>3, <1>4, <1>6, SMTT(30) DEF GetTypes
<1>8. Stock' /\ (\A m : Under(m)' <=> Under(m)) /\ \A i \in Items : Once(i)'
  BY <1>1, ItemsKept
<1>9. GetPlaces'
  BY <1>1, <1>2, <1>5, GetMembers DEF GetPlaces
<1>10. Ahead'
  <2> SUFFICES ASSUME NEW g \in GetSide!Gets
               PROVE  /\ g[2] > made'[g[1]] => call'[g] = "none"
                      /\ g[2] > made'[g[1]] \/ (g[2] = made'[g[1]] /\ stage'[g[1]] = "called")
                            => inbox[g] = Nothing /\ ~Has(receives[g[1]], g)
                      /\ g[2] > made'[g[1]] \/ (g[2] = made'[g[1]] /\ stage'[g[1]] # "idle")
                            => result[g] = "none"
    BY <1>1 DEF Ahead
  <2>1. CASE g[1] = c
    <3>1. g[2] > made'[c] => g[2] > made[c] /\ g # n
      BY <1>2, <1>3, <1>4, <1>6
    <3>2. g[2] = made'[c] => g[2] > made[c]
      BY <1>2, <1>3, <1>6
    <3> QED BY <1>2, <1>5, <2>1, <3>1, <3>2 DEF Ahead
  <2>2. CASE g[1] # c
    BY <1>2, <1>3, <1>4, <1>5, <1>6, <2>2 DEF Ahead
  <2> QED BY <2>1, <2>2
<1>11. Receives'
  BY <1>1, <1>2 DEF Receives
<1>12. OneAnswer'
  <2> SUFFICES ASSUME NEW g \in GetSide!Gets, AllSync(g[1])
               PROVE  /\ call'[g] \in {"called", "running"} =>
                            /\ g[2] = made'[g[1]] /\ stage'[g[1]] # "idle"
                            /\ wire[g[1]] = <<>> /\ inbox[g] = Nothing
                      /\ inbox[g] # Nothing =>
                            /\ g[2] = made'[g[1]] /\ stage'[g[1]] = "posted"
                            /\ wire[g[1]] = <<>> /\ inbox[g].query \in {g, Nothing}
                      /\ \A m : Has(wire[g[1]], m) =>
                            /\ stage'[g[1]] # "idle" /\ Tail(wire[g[1]]) = <<>>
                            /\ m.query \in {<<g[1], made'[g[1]]>>, Nothing}
                      /\ Has(receives[g[1]], g) =>
                            g[2] = made'[g[1]] /\ stage'[g[1]] = "posted"
    BY <1>1 DEF OneAnswer
  <2>1. CASE g[1] = c
    <3>1. \A m : ~Has(wire[c], m)
      BY <1>1, <1>2, <2>1 DEF OneAnswer
    <3>2. wire[c] = <<>>
      <4>1. wire[c] \in Seq(GetSide!Message)
        BY <1>2 DEF GetTypes
      <4>2. wire[c] # <<>> => Has(wire[c], wire[c][1])
        BY <4>1, LenProperties, EmptySeq DEF Has
      <4> QED BY <3>1, <4>2
    <3>3. inbox[g] = Nothing /\ ~Has(receives[c], g)
      BY <1>1, <1>2, <2>1 DEF OneAnswer
    <3>4. call'[g] \in {"called", "running"} => g = n
      BY <1>1, <1>2, <1>5, <2>1 DEF OneAnswer
    <3> QED BY <1>4, <1>6, <2>1, <3>1, <3>2, <3>3, <3>4
  <2>2. CASE g[1] # c
    <3>1. g # n /\ made'[g[1]] = made[g[1]] /\ stage'[g[1]] = stage[g[1]] /\ call'[g] = call[g]
      BY <1>3, <1>4, <1>5, <1>6, <2>2
    <3> QED BY <1>2, <3>1 DEF OneAnswer
  <2> QED BY <2>1, <2>2
<1>13. Mail'
  BY <1>1, <1>2, <1>5, <1>8, UnderIsMessage DEF Mail
<1>14. Filed'
  BY <1>1, <1>2, <1>5 DEF Filed
<1> QED BY <1>7, <1>8, <1>9, <1>10, <1>11, <1>12, <1>13, <1>14 DEF GetSideInv

(* Posting the receive. *)
LEMMA GetPosted ==
    ASSUME GetsAssumption, GetSideInv, NEW c \in Consumers, GetSide!Post(c)
    PROVE  GetSideInv'
<1> DEFINE n == <<c, made[c]>>
<1>1. /\ stage[c] = "called"
      /\ stage' = [stage EXCEPT ![c] = "posted"]
      /\ receives' = [receives EXCEPT ![c] = Append(@, n)]
      /\ UNCHANGED <<made, inbox, store, result, call, wire, unput, queue, ready>>
  BY DEF GetSide!Post, GetSide!Current
<1>2. /\ GetTypes /\ Stock /\ GetPlaces /\ Ahead /\ Receives /\ OneAnswer /\ Mail /\ Filed
      /\ made[c] \in Nat \ {0} /\ made[c] <= Len(Program[c])
  <2>1. made[c] \in Nat /\ made[c] > 0 /\ made[c] <= Len(Program[c])
    BY <1>1 DEF GetSideInv, GetTypes
  <2> QED BY <2>1 DEF GetSideInv
<1>3. /\ \A g \in GetSide!Gets : g[1] \in Consumers /\ g[2] \in Nat \ {0}
      /\ \A g, h \in GetSide!Gets : g[1] = h[1] /\ g[2] = h[2] => g = h
  BY GetsAreNumbered
<1>4. n \in GetSide!Gets /\ n[1] = c /\ n[2] = made[c]
  BY <1>2, GetsAreNumbered
<1>5. inbox[n] = Nothing /\ ~Has(receives[c], n)
  BY <1>1, <1>2, <1>4 DEF Ahead
<1> HIDE DEF n
<1>6. /\ receives[c] \in Seq(GetSide!Gets) /\ Unique(receives[c])
      /\ receives'[c] = Append(receives[c], n)
      /\ stage'[c] = "posted"
      /\ \A d \in Consumers : d # c => receives'[d] = receives[d] /\ stage'[d] = stage[d]
  BY <1>1, <1>2 DEF GetTypes, Receives
<1>7. /\ receives'[c] \in Seq(GetSide!Gets) /\ Unique(receives'[c])
      /\ \A g : Has(receives'[c], g) <=> Has(receives[c], g) \/ g = n
  BY <1>4, <1>5, <1>6, AppendFacts
<1>8. GetTypes'
  BY <1>1, <1>2, <1>6, <1>7 DEF GetTypes
<1>9. Stock' /\ (\A m : Under(m)' <=> Under(m)) /\ \A i \in Items : Once(i)'
  BY <1>1, ItemsKept
<1>10. GetPlaces' /\ Filed'
  BY <1>1, <1>2 DEF GetPlaces, Filed
<1>11. Mail'
  BY <1>1, <1>2, <1>9 DEF Mail
<1>12. Ahead'
  <2> SUFFICES ASSUME NEW g \in GetSide!Gets
               PROVE  /\ g[2] > made[g[1]] => call[g] = "none"
                      /\ g[2] > made[g[1]] \/ (g[2] = made[g[1]] /\ stage'[g[1]] = "called")
                            => inbox[g] = Nothing /\ ~Has(receives'[g[1]], g)
                      /\ g[2] > made[g[1]] \/ (g[2] = made[g[1]] /\ stage'[g[1]] # "idle")
                            => result[g] = "none"
    BY <1>1 DEF Ahead
  <2>1. CASE g[1] = c
    <3>1. g[2] > made[c] => g # n
      BY <1>2, <1>3, <1>4
    <3> QED BY <1>1, <1>2, <1>6, <1>7, <2>1, <3>1 DEF Ahead
  <2>2. CASE g[1] # c
    BY <1>2, <1>3, <1>6, <2>2 DEF Ahead
  <2> QED BY <2>1, <2>2
<1>13. Receives'
  <2> SUFFICES ASSUME NEW d \in Consumers
               PROVE  /\ Unique(receives'[d])
                      /\ \A g : Has(receives'[d], g) => g[1] = d /\ inbox[g] = Nothing
    BY <1>1 DEF Receives
  <2> QED BY <1>2, <1>4, <1>5, <1>6, <1>7, ZenonT(60) DEF Receives
<1>14. OneAnswer'
  <2> SUFFICES ASSUME NEW g \in GetSide!Gets, AllSync(g[1])
               PROVE  /\ call[g] \in {"called", "running"} =>
                            /\ g[2] = made[g[1]] /\ stage'[g[1]] # "idle"
                            /\ wire[g[1]] = <<>> /\ inbox[g] = Nothing
                      /\ inbox[g] # Nothing =>
                            /\ g[2] = made[g[1]] /\ stage'[g[1]] = "posted"
                            /\ wire[g[1]] = <<>> /\ inbox[g].query \in {g, Nothing}
                      /\ \A m : Has(wire[g[1]], m) =>
                            /\ stage'[g[1]] # "idle" /\ Tail(wire[g[1]]) = <<>>
                            /\ m.query \in {<<g[1], made[g[1]]>>, Nothing}
                      /\ Has(receives'[g[1]], g) =>
                            g[2] = made[g[1]] /\ stage'[g[1]] = "posted"
    BY <1>1 DEF OneAnswer
  <2>1. CASE g[1] = c
    BY <1>1, <1>2, <1>4, <1>6, <1>7, <2>1 DEF OneAnswer
  <2>2. CASE g[1] # c
    BY <1>2, <1>3, <1>6, <2>2 DEF OneAnswer
  <2> QED BY <2>1, <2>2
<1> QED BY <1>8, <1>9, <1>10, <1>11, <1>12, <1>13, <1>14 DEF GetSideInv

(* The work of an asynchronous get: it files a place for its answer, if the *)
(* answer is not there yet.                                                 *)
LEMMA GetWrapped ==
    ASSUME GetsAssumption, GetSideInv, NEW c \in Consumers, GetSide!Wrap(c)
    PROVE  GetSideInv'
<1> DEFINE n == <<c, made[c]>>
<1>1. /\ stage[c] = "posted" /\ GetSide!Mode(n) = "async"
      /\ store' = [store EXCEPT ![n] = IF @ = "absent" THEN "pending" ELSE @]
      /\ stage' = [stage EXCEPT ![c] = "idle"]
      /\ UNCHANGED <<made, receives, inbox, result, call, wire, unput, queue, ready>>
  BY DEF GetSide!Wrap, GetSide!Current
<1>2. /\ GetTypes /\ Stock /\ GetPlaces /\ Ahead /\ Receives /\ OneAnswer /\ Mail /\ Filed
      /\ made[c] \in Nat \ {0} /\ made[c] <= Len(Program[c])
  <2>1. made[c] \in Nat /\ made[c] > 0 /\ made[c] <= Len(Program[c])
    BY <1>1 DEF GetSideInv, GetTypes
  <2> QED BY <2>1 DEF GetSideInv
<1>3. \A g \in GetSide!Gets : g[1] \in Consumers /\ g[2] \in Nat \ {0}
  BY GetsAreNumbered
<1>4. n \in GetSide!Gets /\ n[1] = c /\ n[2] = made[c]
  BY <1>2, GetsAreNumbered
<1> HIDE DEF n
<1>5. /\ stage'[c] = "idle"
      /\ \A d \in Consumers : d # c => stage'[d] = stage[d]
  BY <1>1, <1>2 DEF GetTypes
<1>6. \A g \in GetSide!Gets :
        store'[g] = store[g] \/ (store[g] = "absent" /\ store'[g] = "pending")
  BY <1>1, <1>2, <1>4 DEF GetTypes
<1>7. "absent" \notin Items /\ "pending" \notin Items
  BY DEF GetsAssumption
<1>8. GetTypes'
  BY <1>1, <1>2 DEF GetTypes
<1>9. Stock' /\ (\A m : Under(m)' <=> Under(m)) /\ \A i \in Items : Once(i)'
  BY <1>1, <1>6, <1>7, ItemsKept
<1>10. GetPlaces' /\ Receives' /\ Filed'
  BY <1>1, <1>2, <1>6, <1>7 DEF GetPlaces, Receives, Filed
<1>11. Mail'
  BY <1>1, <1>2, <1>6, <1>7, <1>9, UnderIsMessage DEF Mail
<1>12. Ahead'
  BY <1>1, <1>2, <1>3, <1>5 DEF Ahead
<1>13. OneAnswer'
  <2>1. ~AllSync(c)
    BY <1>1, <1>4 DEF AllSync
  <2> QED BY <1>1, <1>2, <1>3, <1>5, <2>1, SMTT(30) DEF OneAnswer
<1> QED BY <1>8, <1>9, <1>10, <1>11, <1>12, <1>13 DEF GetSideInv

(* A message with an item is at one place, as its item is.                  *)
LEMMA InOneBox ==
    ASSUME GetSideInv, NEW g \in GetSide!Gets, inbox[g] # Nothing, inbox[g].query # Nothing
    PROVE  /\ inbox[g].item \in Items
           /\ \A c \in Consumers : ~Has(wire[c], inbox[g])
           /\ \A h \in GetSide!Gets : inbox[h] = inbox[g] => h = g
<1>1. Under(inbox[g])
  BY DEF Under
<1>2. inbox[g].item \in Items
  BY <1>1 DEF GetSideInv, Mail
<1>3. PICK kind, x : \A l, y : At(inbox[g].item, l, y) <=> l = kind /\ y = x
  BY <1>2 DEF GetSideInv, Once
<1>4. kind = "inbox" /\ x = g
  BY <1>3 DEF At, InBox
<1>5. ASSUME NEW c \in Consumers, Has(wire[c], inbox[g])
      PROVE  FALSE
  <2>1. At(inbox[g].item, "wire", c)
    BY <1>5 DEF At, OnWire
  <2> QED BY <1>3, <1>4, <2>1
<1>6. ASSUME NEW h \in GetSide!Gets, inbox[h] = inbox[g]
      PROVE  h = g
  <2>1. At(inbox[g].item, "inbox", h)
    BY <1>6 DEF At, InBox
  <2> QED BY <1>3, <1>4, <2>1
<1> QED BY <1>2, <1>5, <1>6

(* The next receive takes the next message, whichever get that answers.     *)
LEMMA GetReceived ==
    ASSUME GetsAssumption, GetSideInv, NEW c \in Consumers, GetSide!Receive(c)
    PROVE  GetSideInv'
<1>a. PICK h : h = Head(receives[c])
  OBVIOUS
<1>b. PICK m : m = Head(wire[c])
  OBVIOUS
<1>1. /\ receives[c] # <<>> /\ wire[c] # <<>>
      /\ inbox' = [inbox EXCEPT ![h] = m]
      /\ receives' = [receives EXCEPT ![c] = Tail(@)]
      /\ wire' = [wire EXCEPT ![c] = Tail(@)]
      /\ UNCHANGED <<made, stage, store, result, call, unput, queue, ready>>
  BY <1>a, <1>b DEF GetSide!Receive
<1>2. GetTypes /\ Stock /\ GetPlaces /\ Ahead /\ Receives /\ OneAnswer /\ Mail /\ Filed
  BY DEF GetSideInv
<1>3. /\ \A g \in GetSide!Gets : g[1] \in Consumers /\ g[2] \in Nat \ {0} /\ g = <<g[1], g[2]>>
      /\ \A g, k \in GetSide!Gets : g[1] = k[1] /\ g[2] = k[2] => g = k
  BY GetsAreNumbered
<1>4. /\ Tail(receives[c]) \in Seq(GetSide!Gets) /\ Unique(Tail(receives[c]))
      /\ h \in GetSide!Gets /\ Has(receives[c], h)
      /\ \A e : Has(Tail(receives[c]), e) <=> Has(receives[c], e) /\ e # h
  <2>1. receives[c] \in Seq(GetSide!Gets) /\ Unique(receives[c])
    BY <1>2 DEF GetTypes, Receives
  <2> QED BY <1>1, <1>a, <2>1, TailFacts
<1>5. /\ Tail(wire[c]) \in Seq(GetSide!Message) /\ Distinct(Tail(wire[c]))
      /\ m \in GetSide!Message /\ Has(wire[c], m)
      /\ \A e : Has(Tail(wire[c]), e) => Has(wire[c], e)
      /\ \A e : Has(wire[c], e) /\ e # m => Has(Tail(wire[c]), e)
      /\ m.query # Nothing => ~Has(Tail(wire[c]), m)
  <2>1. wire[c] \in Seq(GetSide!Message) /\ Distinct(wire[c])
    BY <1>2 DEF GetTypes, Mail
  <2> QED BY <1>1, <1>b, <2>1, DistinctTail
<1>6. h[1] = c /\ inbox[h] = Nothing
  BY <1>2, <1>4 DEF Receives
<1>7. m # Nothing /\ Under(m)
  BY <1>5 DEF Under, GetsAssumption
<1>8. /\ inbox'[h] = m /\ \A g \in GetSide!Gets : g # h => inbox'[g] = inbox[g]
      /\ wire'[c] = Tail(wire[c]) /\ \A d \in Consumers : d # c => wire'[d] = wire[d]
      /\ receives'[c] = Tail(receives[c])
      /\ \A d \in Consumers : d # c => receives'[d] = receives[d]
  BY <1>1, <1>2, <1>4 DEF GetTypes
<1>9. GetTypes'
  BY <1>1, <1>2, <1>4, <1>5 DEF GetTypes
<1>10. Stock' /\ GetPlaces' /\ Filed'
  BY <1>1, <1>2 DEF Stock, GetPlaces, Filed
<1>11. \A e : Under(e)' <=> Under(e)
  <2>1. ASSUME NEW e, Under(e)'
        PROVE  Under(e)
    <3>1. CASE \E d \in Consumers : Has(wire'[d], e)
      BY <1>5, <1>8, <3>1 DEF Under
    <3>2. CASE \E g \in GetSide!Gets : inbox'[g] = e /\ e # Nothing
      BY <1>7, <1>8, <3>2 DEF Under
    <3> QED BY <2>1, <3>1, <3>2 DEF Under
  <2>2. ASSUME NEW e, Under(e)
        PROVE  Under(e)'
    <3>1. CASE \E d \in Consumers : Has(wire[d], e)
      BY <1>4, <1>5, <1>7, <1>8, <3>1 DEF Under
    <3>2. CASE \E g \in GetSide!Gets : inbox[g] = e /\ e # Nothing
      BY <1>6, <1>8, <3>2 DEF Under
    <3> QED BY <2>2, <3>1, <3>2 DEF Under
  <2> QED BY <2>1, <2>2
<1>12. Mail'
  <2>1. \A d \in Consumers : Distinct(wire'[d])
    BY <1>2, <1>5, <1>8 DEF Mail
  <2> QED BY <1>1, <1>2, <1>11, <2>1 DEF Mail
<1>13. Ahead'
  <2>1. ~(h[2] > made[h[1]] \/ (h[2] = made[h[1]] /\ stage[h[1]] = "called"))
    BY <1>2, <1>4, <1>6 DEF Ahead
  <2>2. \A d \in Consumers : \A g : Has(receives'[d], g) => Has(receives[d], g)
    BY <1>4, <1>8
  <2> QED BY <1>1, <1>2, <1>3, <1>8, <2>1, <2>2 DEF Ahead
<1>14. Receives'
  <2> SUFFICES ASSUME NEW d \in Consumers
               PROVE  /\ Unique(receives'[d])
                      /\ \A g : Has(receives'[d], g) => g[1] = d /\ inbox'[g] = Nothing
    BY DEF Receives
  <2>1. \A e : Has(receives'[d], e) => e \in GetSide!Gets /\ e # h /\ Has(receives[d], e)
    BY <1>2, <1>4, <1>6, <1>8, GetMembers DEF Receives
  <2>2. Unique(receives'[d])
    BY <1>2, <1>4, <1>8 DEF Receives
  <2> QED BY <1>2, <1>8, <2>1, <2>2 DEF Receives
<1>15. OneAnswer'
  <2> SUFFICES ASSUME NEW g \in GetSide!Gets, AllSync(g[1])
               PROVE  /\ call[g] \in {"called", "running"} =>
                            /\ g[2] = made[g[1]] /\ stage[g[1]] # "idle"
                            /\ wire'[g[1]] = <<>> /\ inbox'[g] = Nothing
                      /\ inbox'[g] # Nothing =>
                            /\ g[2] = made[g[1]] /\ stage[g[1]] = "posted"
                            /\ wire'[g[1]] = <<>> /\ inbox'[g].query \in {g, Nothing}
                      /\ \A e : Has(wire'[g[1]], e) =>
                            /\ stage[g[1]] # "idle" /\ Tail(wire'[g[1]]) = <<>>
                            /\ e.query \in {<<g[1], made[g[1]]>>, Nothing}
                      /\ Has(receives'[g[1]], g) =>
                            g[2] = made[g[1]] /\ stage[g[1]] = "posted"
    BY <1>1 DEF OneAnswer
  <2>1. CASE g[1] = c
    <3>1. AllSync(h[1])
      BY <1>6, <2>1
    <3>2. h[2] = made[c] /\ stage[c] = "posted"
      BY <1>2, <1>4, <1>6, <3>1 DEF OneAnswer
    <3>3. Tail(wire[c]) = <<>> /\ m.query \in {<<c, made[c]>>, Nothing}
      BY <1>2, <1>4, <1>5, <1>6, <3>1 DEF OneAnswer
    <3>4. call[g] \notin {"called", "running"} /\ inbox[g] = Nothing
      BY <1>1, <1>2, <2>1 DEF OneAnswer
    <3>5. h = <<c, made[c]>>
      BY <1>3, <1>4, <1>6, <3>2
    <3>6. \A e : ~Has(wire'[c], e)
      BY <1>8, <3>3 DEF Has
    <3>7. Has(receives'[c], g) => g[2] = made[g[1]]
      BY <1>2, <1>4, <1>8, <2>1 DEF OneAnswer
    <3>8. inbox'[g] # Nothing => g = h
      BY <1>8, <3>4
    <3> QED BY <1>8, <2>1, <3>2, <3>3, <3>4, <3>5, <3>6, <3>7, <3>8
  <2>2. CASE g[1] # c
    <3>1. g # h /\ inbox'[g] = inbox[g] /\ wire'[g[1]] = wire[g[1]]
          /\ receives'[g[1]] = receives[g[1]]
      BY <1>3, <1>6, <1>8, <2>2
    <3> QED BY <1>2, <3>1 DEF OneAnswer
  <2> QED BY <2>1, <2>2
<1>16. ASSUME NEW i \in Items
       PROVE  Once(i)'
  <2>1. /\ \A k \in Keys : InStock(k, i)' <=> InStock(k, i)
        /\ \A d \in Consumers : d # c => (OnWire(d, i)' <=> OnWire(d, i))
        /\ \A g \in GetSide!Gets : g # h => (InBox(g, i)' <=> InBox(g, i))
        /\ ~InBox(h, i)
        /\ InBox(h, i)' <=> m.item = i
        /\ Once(i) /\ i # Nothing
    BY <1>1, <1>6, <1>7, <1>8 DEF InStock, OnWire, InBox, GetSideInv, GetsAssumption
  <2>2. CASE m.item # i
    <3>1. OnWire(c, i)' <=> OnWire(c, i)
      BY <1>5, <1>8, <2>2 DEF OnWire
    <3>2. \A l, y : At(i, l, y)' <=> At(i, l, y)
      BY <1>1, <2>1, <2>2, <3>1 DEF At
    <3> QED BY <2>1, <3>2, OnceStays
  <2>3. CASE m.item = i
    <3>1. OnWire(c, i)
      BY <1>5, <2>3 DEF OnWire
    <3>2. ~OnWire(c, i)'
      <4> SUFFICES ASSUME NEW e, Has(wire'[c], e), e.item = i
                   PROVE  FALSE
        BY DEF OnWire
      <4>1. Under(e)
        BY <1>5, <1>8 DEF Under
      <4>2. e.query # Nothing
        BY <1>2, <2>1, <4>1 DEF Mail
      <4>3. e = m
        BY <1>2, <1>7, <2>3, <4>1, <4>2 DEF Mail
      <4> QED BY <1>5, <1>8, <4>2, <4>3
    <3>3. At(i, "wire", c)
      BY <3>1 DEF At
    <3>4. \A l, y : At(i, l, y) <=> l = "wire" /\ y = c
      BY <2>1, <3>3, OnceHere
    <3>5. \A l, y : At(i, l, y)' <=>
             \/ At(i, l, y) /\ ~(l = "wire" /\ y = c)
             \/ l = "inbox" /\ y = h
      BY <1>1, <1>4, <2>1, <2>3, <3>1, <3>2 DEF At
    <3>6. \A l, y : At(i, l, y)' <=> l = "inbox" /\ y = h
      BY <3>4, <3>5
    <3> QED BY <3>6 DEF Once
  <2> QED BY <2>2, <2>3
<1> QED BY <1>9, <1>10, <1>12, <1>13, <1>14, <1>15, <1>16 DEF GetSideInv

(* A receive of an asynchronous get files its message under the get that it *)
(* answers.                                                                 *)
LEMMA GetStored ==
    ASSUME GetsAssumption, GetSideInv, NEW g \in GetSide!Gets, GetSide!StoreData(g)
    PROVE  GetSideInv'
<1>a. PICK m : m = inbox[g]
  OBVIOUS
<1>b. PICK q : q = m.query
  OBVIOUS
<1>1. /\ m # Nothing
      /\ inbox' = [inbox EXCEPT ![g] = Nothing]
      /\ store' = [h \in GetSide!Gets |-> IF h = q THEN m.item ELSE store[h]]
      /\ UNCHANGED <<made, stage, receives, result, call, wire, unput, queue, ready>>
  BY <1>a, <1>b DEF GetSide!StoreData
<1>2. GetTypes /\ Stock /\ GetPlaces /\ Ahead /\ Receives /\ OneAnswer /\ Mail /\ Filed
  BY DEF GetSideInv
<1>3. /\ inbox'[g] = Nothing /\ \A h \in GetSide!Gets : h # g => inbox'[h] = inbox[h]
      /\ \A h \in GetSide!Gets : store'[h] = IF h = q THEN m.item ELSE store[h]
  BY <1>1, <1>2 DEF GetTypes
<1>4. Under(m) /\ q \in GetSide!Gets \cup {Nothing}
  <2>1. Under(m)
    BY <1>a, <1>1 DEF Under
  <2> QED BY <1>b, <1>2, <2>1, UnderIsMessage
<1>5. /\ q = Nothing => m.item = Nothing /\ q \notin GetSide!Gets
      /\ q # Nothing => /\ q \in GetSide!Gets /\ m.item \in Items
                        /\ KeyOfItem[m.item] = GetSide!KeyOf(q) /\ call[q] = "answered"
                        /\ store[q] \notin Items
                        /\ Orderly(q) => result[q] \notin Items
  BY <1>b, <1>2, <1>4 DEF Mail, GetsAssumption
<1>6. GetTypes'
  <2>1. store' \in [GetSide!Gets -> Items \cup {"absent", "pending"}]
    BY <1>1, <1>2, <1>5 DEF GetTypes
  <2>2. inbox' \in [GetSide!Gets -> GetSide!Message \cup {Nothing}]
    BY <1>1, <1>2 DEF GetTypes
  <2> QED BY <1>1, <1>2, <2>1, <2>2 DEF GetTypes
<1>7. Stock' /\ GetPlaces'
  BY <1>1, <1>2 DEF Stock, GetPlaces
<1>8. Ahead' /\ Receives' /\ OneAnswer'
  <2>1. \A h \in GetSide!Gets : inbox'[h] = inbox[h] \/ inbox'[h] = Nothing
    BY <1>3
  <2>2. Ahead'
    BY <1>1, <1>2, <2>1 DEF Ahead
  <2>3. Receives'
    BY <1>1, <1>2, <2>1, GetMembers DEF Receives
  <2>4. OneAnswer'
    BY <1>1, <1>2, <2>1 DEF OneAnswer
  <2> QED BY <2>2, <2>3, <2>4
<1>9. /\ \A e : Under(e)' => Under(e)
      /\ q # Nothing => ~Under(m)'
  <2>1. \A e : Under(e)' => Under(e)
    BY <1>1, <1>3 DEF Under
  <2>2. ASSUME q # Nothing
        PROVE  ~Under(m)'
    <3>1. /\ \A c \in Consumers : ~Has(wire[c], m)
          /\ \A h \in GetSide!Gets : inbox[h] = m => h = g
      BY <1>a, <1>b, <1>1, <2>2, InOneBox
    <3> QED BY <1>1, <1>3, <3>1 DEF Under
  <2> QED BY <2>1, <2>2
<1>10. Mail'
  <2>1. \A e : Under(e)' /\ e.query # Nothing =>
          store'[e.query] = store[e.query]
    <3> SUFFICES ASSUME NEW e, Under(e)', e.query # Nothing
                 PROVE  store'[e.query] = store[e.query]
      OBVIOUS
    <3>1. e.query \in GetSide!Gets /\ Under(e)
      BY <1>2, <1>9, UnderIsMessage
    <3>2. e.query # q
      BY <1>b, <1>2, <1>4, <1>5, <1>9, <3>1 DEF Mail
    <3> QED BY <1>3, <3>1, <3>2
  <2> QED BY <1>1, <1>2, <1>9, <2>1 DEF Mail
<1>11. Filed'
  BY <1>1, <1>2, <1>3, <1>5 DEF Filed
<1>12. ASSUME NEW i \in Items
       PROVE  Once(i)'
  <2>1. /\ \A k \in Keys : InStock(k, i)' <=> InStock(k, i)
        /\ \A d \in Consumers : OnWire(d, i)' <=> OnWire(d, i)
        /\ \A h \in GetSide!Gets : h # g => (InBox(h, i)' <=> InBox(h, i))
        /\ InBox(g, i) <=> m.item = i
        /\ ~InBox(g, i)'
        /\ Once(i) /\ i # Nothing
    BY <1>a, <1>1, <1>3 DEF InStock, OnWire, InBox, GetSideInv, GetsAssumption
  <2>2. CASE m.item # i
    <3>1. \A h \in GetSide!Gets : store'[h] = i <=> store[h] = i
      BY <1>3, <1>5, <2>2
    <3>2. \A l, y : At(i, l, y)' <=> At(i, l, y)
      BY <1>1, <2>1, <2>2, <3>1 DEF At
    <3> QED BY <2>1, <3>2, OnceStays
  <2>3. CASE m.item = i
    <3>1. q # Nothing /\ q \in GetSide!Gets
      BY <1>5, <2>1, <2>3
    <3>2. \A h \in GetSide!Gets : store'[h] = i <=> store[h] = i \/ h = q
      BY <1>3, <2>3, <3>1
    <3>3. At(i, "inbox", g)
      BY <2>1, <2>3 DEF At
    <3>4. \A l, y : At(i, l, y)' <=>
             \/ At(i, l, y) /\ ~(l = "inbox" /\ y = g)
             \/ l = "store" /\ y = q
      BY <1>1, <2>1, <3>1, <3>2 DEF At
    <3>5. Once(i)
      BY <2>1
    <3>6. \A l, y : At(i, l, y) <=> l = "inbox" /\ y = g
      BY ONLY <3>3, <3>5, OnceHere
    <3>7. \A l, y : At(i, l, y)' <=> l = "store" /\ y = q
      BY ONLY <3>4, <3>6
    <3> QED BY <3>7 DEF Once
  <2> QED BY <2>2, <2>3
<1> QED BY <1>6, <1>7, <1>8, <1>10, <1>11, <1>12 DEF GetSideInv

(* An asynchronous get returns what was filed for it. *)
LEMMA GetAsyncReturned ==
    ASSUME GetsAssumption, GetSideInv, NEW g \in GetSide!Gets,
           GetSide!AsyncReturns(g)
    PROVE  GetSideInv'
<1>a. PICK j : j = store[g]
  OBVIOUS
<1>1. /\ GetSide!Wrapped(g) /\ j \in Items
      /\ result' = [result EXCEPT ![g] = j]
      /\ store' = [store EXCEPT ![g] = "absent"]
      /\ UNCHANGED <<made, stage, receives, inbox, call, wire, unput, queue, ready>>
  BY <1>a DEF GetSide!AsyncReturns
<1>2. GetTypes /\ Stock /\ GetPlaces /\ Ahead /\ Receives /\ OneAnswer /\ Mail /\ Filed
  BY DEF GetSideInv
<1>3. /\ result'[g] = j /\ \A h \in GetSide!Gets : h # g => result'[h] = result[h]
      /\ store'[g] = "absent" /\ \A h \in GetSide!Gets : h # g => store'[h] = store[h]
      /\ "absent" \notin Items
  BY <1>1, <1>2 DEF GetTypes, GetsAssumption
<1>4. /\ call[g] = "answered" /\ result[g] \notin Items
      /\ KeyOfItem[j] = GetSide!KeyOf(g)
  <2>1. Orderly(g)
    BY <1>1 DEF Orderly, GetSide!Wrapped
  <2> QED BY <1>a, <1>1, <1>2, <2>1 DEF Filed
<1>5. GetTypes'
  BY <1>1, <1>2 DEF GetTypes
<1>6. Stock' /\ GetPlaces' /\ Receives' /\ OneAnswer'
  BY <1>1, <1>2 DEF Stock, GetPlaces, Receives, OneAnswer
<1>7. Ahead'
  <2>1. ~(g[2] > made[g[1]] \/ (g[2] = made[g[1]] /\ stage[g[1]] # "idle"))
    <3>1. g[1] \in Consumers /\ g[2] \in Nat
      BY GetsAreNumbered
    <3>2. made[g[1]] \in Nat
      BY <1>2, <3>1 DEF GetTypes
    <3>3. g[2] < made[g[1]] \/ (g[2] = made[g[1]] /\ stage[g[1]] = "idle")
      BY <1>1 DEF GetSide!Wrapped, GetSide!Current
    <3> QED BY <3>1, <3>2, <3>3
  <2> QED BY <1>1, <1>2, <1>3, <2>1 DEF Ahead
<1>8. \A e : Under(e)' <=> Under(e)
  BY <1>1 DEF Under
<1>9. Mail'
  <2>1. \A e : Under(e) /\ e.query # Nothing =>
          store'[e.query] = store[e.query] /\ result'[e.query] = result[e.query]
    <3> SUFFICES ASSUME NEW e, Under(e), e.query # Nothing
                 PROVE  store'[e.query] = store[e.query] /\ result'[e.query] = result[e.query]
      OBVIOUS
    <3>1. e.query \in GetSide!Gets
      BY <1>2, UnderIsMessage
    <3>2. e.query # g
      BY <1>a, <1>1, <1>2 DEF Mail
    <3> QED BY <1>3, <3>1, <3>2
  <2> QED BY <1>1, <1>2, <1>8, <2>1 DEF Mail
<1>10. Filed'
  BY <1>1, <1>2, <1>3, <1>4 DEF Filed
<1>11. ASSUME NEW i \in Items
       PROVE  Once(i)'
  <2>1. /\ \A k \in Keys : InStock(k, i)' <=> InStock(k, i)
        /\ \A d \in Consumers : OnWire(d, i)' <=> OnWire(d, i)
        /\ \A h \in GetSide!Gets : InBox(h, i)' <=> InBox(h, i)
        /\ Once(i)
    BY <1>1 DEF InStock, OnWire, InBox, GetSideInv
  <2>2. CASE j # i
    <3>1. \A h \in GetSide!Gets : /\ store'[h] = i <=> store[h] = i
                                  /\ result'[h] = i <=> result[h] = i
      BY <1>a, <1>3, <1>4, <1>11, <2>2
    <3>2. \A l, y : At(i, l, y)' <=> At(i, l, y)
      BY <1>1, <2>1, <3>1 DEF At
    <3> QED BY <2>1, <3>2, OnceStays
  <2>3. CASE j = i
    <3>1. At(i, "store", g)
      BY <1>a, <2>3 DEF At
    <3>2. \A h \in GetSide!Gets : /\ store'[h] = i <=> store[h] = i /\ h # g
                                  /\ result'[h] = i <=> result[h] = i \/ h = g
      BY <1>a, <1>3, <1>4, <1>11, <2>3
    <3>3. \A l, y : At(i, l, y)' <=>
             \/ At(i, l, y) /\ ~(l = "store" /\ y = g)
             \/ l = "result" /\ y = g
      BY <1>1, <2>1, <3>2 DEF At
    <3>4. Once(i)
      BY <2>1
    <3>5. \A l, y : At(i, l, y) <=> l = "store" /\ y = g
      BY ONLY <3>1, <3>4, OnceHere
    <3>6. \A l, y : At(i, l, y)' <=> l = "result" /\ y = g
      BY ONLY <3>3, <3>5
    <3> QED BY <3>6 DEF Once
  <2> QED BY <2>2, <2>3
<1> QED BY <1>5, <1>6, <1>7, <1>9, <1>10, <1>11 DEF GetSideInv

(* A synchronous get returns what its receive took, which answers it unless *)
(* other gets of its consumer are asynchronous.                             *)
LEMMA GetSyncReturned ==
    ASSUME GetsAssumption, GetSideInv, NEW c \in Consumers,
           GetSide!SyncReturns(c)
    PROVE  GetSideInv'
<1>a. PICK g : g = <<c, made[c]>>
  OBVIOUS
<1>b. PICK m : m = inbox[g]
  OBVIOUS
<1>1. /\ stage[c] = "posted" /\ GetSide!Mode(g) # "async" /\ m # Nothing
      /\ inbox' = [inbox EXCEPT ![g] = Nothing]
      /\ result' = [result EXCEPT ![g] =
            IF GetSide!Mode(g) = "nowait" /\ m.query = Nothing THEN "raised" ELSE m.item]
      /\ stage' = [stage EXCEPT ![c] = "idle"]
      /\ UNCHANGED <<made, receives, store, call, wire, unput, queue, ready>>
  BY <1>a, <1>b DEF GetSide!SyncReturns, GetSide!Current
<1>2. GetTypes /\ Stock /\ GetPlaces /\ Ahead /\ Receives /\ OneAnswer /\ Mail /\ Filed
  BY DEF GetSideInv
<1>3. /\ \A h \in GetSide!Gets : h[1] \in Consumers /\ h[2] \in Nat \ {0}
      /\ \A h, k \in GetSide!Gets : h[1] = k[1] /\ h[2] = k[2] => h = k
      /\ made[c] \in Nat
  BY <1>2, GetsAreNumbered DEF GetTypes
<1>4. g \in GetSide!Gets /\ g[1] = c /\ g[2] = made[c]
  <2>1. made[c] \in Nat /\ made[c] > 0 /\ made[c] <= Len(Program[c])
    BY <1>1, <1>2 DEF GetTypes
  <2> QED BY <1>a, <2>1, GetsAreNumbered
<1>5. /\ Orderly(g) <=> AllSync(c)
      /\ Orderly(g) => wire[c] = <<>> /\ m.query \in {g, Nothing}
      /\ g # Nothing
  <2>1. Orderly(g) <=> AllSync(c)
    BY <1>1, <1>4 DEF Orderly
  <2> QED BY <1>b, <1>1, <1>2, <1>4, <2>1, GetsAreNumbered DEF OneAnswer
<1>6. /\ inbox'[g] = Nothing /\ \A h \in GetSide!Gets : h # g => inbox'[h] = inbox[h]
      /\ \A h \in GetSide!Gets : h # g => result'[h] = result[h]
      /\ stage'[c] = "idle" /\ \A d \in Consumers : d # c => stage'[d] = stage[d]
  BY <1>1, <1>2, <1>4 DEF GetTypes
<1>7. Under(m) /\ m \in GetSide!Message
  <2>1. Under(m)
    BY <1>b, <1>1, <1>4 DEF Under
  <2> QED BY <1>2, <2>1, UnderIsMessage
<1>8. /\ m.query # Nothing =>
            /\ result'[g] = m.item /\ m.item \in Items
            /\ KeyOfItem[m.item] = GetSide!KeyOf(m.query) /\ call[m.query] = "answered"
            /\ store[m.query] \notin Items
      /\ m.query = Nothing => result'[g] \in {"raised", Nothing} /\ m.item = Nothing
      /\ result[g] \notin Items
      /\ "raised" \notin Items /\ Nothing \notin Items
  <2>1. result[g] = "none" /\ "none" \notin Items /\ "raised" \notin Items /\ Nothing \notin Items
    BY <1>1, <1>2, <1>4 DEF Ahead, GetsAssumption
  <2>2. result'[g] =
            IF GetSide!Mode(g) = "nowait" /\ m.query = Nothing THEN "raised" ELSE m.item
    BY <1>1, <1>2, <1>4 DEF GetTypes
  <2>3. CASE m.query # Nothing
    BY <1>2, <1>7, <2>1, <2>2, <2>3 DEF Mail
  <2>4. CASE m.query = Nothing
    BY <1>2, <1>7, <2>1, <2>2, <2>4 DEF Mail
  <2> QED BY <2>3, <2>4
<1>9. GetTypes'
  <2>1. result' \in [GetSide!Gets -> Items \cup {"none", "raised", Nothing}]
    <3>1. result'[g] \in Items \cup {"raised", Nothing}
      BY <1>8
    <3> QED BY <1>1, <1>2, <1>4, <1>6, <3>1 DEF GetTypes
  <2>2. inbox' \in [GetSide!Gets -> GetSide!Message \cup {Nothing}]
    BY <1>1, <1>2 DEF GetTypes
  <2>3. stage' \in [Consumers -> {"idle", "called", "posted"}]
        /\ \A d \in Consumers : stage'[d] # "idle" => made'[d] > 0
    BY <1>1, <1>2, <1>6 DEF GetTypes
  <2> QED BY <1>1, <1>2, <2>1, <2>2, <2>3 DEF GetTypes
<1>10. Stock' /\ GetPlaces'
  BY <1>1, <1>2 DEF Stock, GetPlaces
<1>11. \A h \in GetSide!Gets : inbox'[h] = inbox[h] \/ inbox'[h] = Nothing
  BY <1>6
<1>12. Receives'
  BY <1>1, <1>2, <1>11, GetMembers DEF Receives
<1>13. Ahead'
  <2> SUFFICES ASSUME NEW h \in GetSide!Gets
               PROVE  /\ h[2] > made[h[1]] => call[h] = "none"
                      /\ h[2] > made[h[1]] \/ (h[2] = made[h[1]] /\ stage'[h[1]] = "called")
                            => inbox'[h] = Nothing /\ ~Has(receives[h[1]], h)
                      /\ h[2] > made[h[1]] \/ (h[2] = made[h[1]] /\ stage'[h[1]] # "idle")
                            => result'[h] = "none"
    BY <1>1 DEF Ahead
  <2>1. CASE h[1] = c
    <3>1. h[2] > made[c] => h # g
      BY <1>3, <1>4
    <3> QED BY <1>2, <1>3, <1>6, <2>1, <3>1 DEF Ahead
  <2>2. CASE h[1] # c
    BY <1>2, <1>3, <1>4, <1>6, <2>2 DEF Ahead
  <2> QED BY <2>1, <2>2
<1>14. OneAnswer'
  <2> SUFFICES ASSUME NEW h \in GetSide!Gets, AllSync(h[1])
               PROVE  /\ call[h] \in {"called", "running"} =>
                            /\ h[2] = made[h[1]] /\ stage'[h[1]] # "idle"
                            /\ wire[h[1]] = <<>> /\ inbox'[h] = Nothing
                      /\ inbox'[h] # Nothing =>
                            /\ h[2] = made[h[1]] /\ stage'[h[1]] = "posted"
                            /\ wire[h[1]] = <<>> /\ inbox'[h].query \in {h, Nothing}
                      /\ \A e : Has(wire[h[1]], e) =>
                            /\ stage'[h[1]] # "idle" /\ Tail(wire[h[1]]) = <<>>
                            /\ e.query \in {<<h[1], made[h[1]]>>, Nothing}
                      /\ Has(receives[h[1]], h) =>
                            h[2] = made[h[1]] /\ stage'[h[1]] = "posted"
    BY <1>1 DEF OneAnswer
  <2>1. CASE h[1] = c
    <3>0. wire[c] = <<>>
      BY <1>5, <2>1
    <3>1. call[h] \notin {"called", "running"}
      <4>1. call[h] \in {"called", "running"} => h = g /\ inbox[h] = Nothing
        BY <1>2, <1>3, <1>4, <2>1 DEF OneAnswer
      <4> QED BY <1>b, <1>1, <4>1
    <3>2. inbox'[h] = Nothing
      <4>1. inbox[h] # Nothing => h = g
        BY <1>2, <1>3, <1>4, <2>1 DEF OneAnswer
      <4> QED BY <1>6, <4>1
    <3>3. ~Has(receives[c], h)
      <4>1. Has(receives[c], h) => h = g /\ inbox[h] = Nothing
        BY <1>2, <1>3, <1>4, <2>1 DEF OneAnswer, Receives
      <4> QED BY <1>b, <1>1, <4>1
    <3>4. \A e : ~Has(wire[c], e)
      BY <3>0 DEF Has
    <3> QED BY <2>1, <3>1, <3>2, <3>3, <3>4
  <2>2. CASE h[1] # c
    <3>1. inbox'[h] = inbox[h] /\ stage'[h[1]] = stage[h[1]]
      BY <1>3, <1>4, <1>6, <2>2
    <3> QED BY <1>2, <3>1 DEF OneAnswer
  <2> QED BY <2>1, <2>2
<1>15. /\ \A e : Under(e)' => Under(e)
       /\ m.query # Nothing => ~Under(m)'
  <2>1. \A e : Under(e)' => Under(e)
    BY <1>1, <1>6 DEF Under
  <2>2. ASSUME m.query # Nothing
        PROVE  ~Under(m)'
    <3>1. /\ \A d \in Consumers : ~Has(wire[d], m)
          /\ \A h \in GetSide!Gets : inbox[h] = m => h = g
      BY <1>b, <1>1, <1>4, <2>2, InOneBox
    <3> QED BY <1>1, <1>6, <3>1 DEF Under
  <2> QED BY <2>1, <2>2
<1>16. Mail'
  <2>1. \A e : Under(e)' /\ e.query # Nothing /\ Orderly(e.query) => result'[e.query] \notin Items
    <3> SUFFICES ASSUME NEW e, Under(e)', e.query # Nothing, Orderly(e.query)
                 PROVE  result'[e.query] \notin Items
      OBVIOUS
    <3>1. e.query \in GetSide!Gets /\ Under(e) /\ result[e.query] \notin Items
      BY <1>2, <1>15, UnderIsMessage DEF Mail
    <3>2. CASE e.query # g
      BY <1>6, <3>1, <3>2
    <3>3. CASE e.query = g
      <4>1. m.query # g
        BY <1>2, <1>5, <1>7, <1>15, <3>1, <3>3 DEF Mail
      <4>2. m.query = Nothing
        BY <1>5, <3>3, <4>1
      <4> QED BY <1>8, <3>3, <4>2
    <3> QED BY <3>2, <3>3
  <2> QED BY <1>1, <1>2, <1>15, <2>1 DEF Mail
<1>17. Filed'
  <2> SUFFICES ASSUME NEW h \in GetSide!Gets
               PROVE  /\ store[h] \in Items =>
                            /\ call[h] = "answered" /\ KeyOfItem[store[h]] = GetSide!KeyOf(h)
                            /\ Orderly(h) => result'[h] \notin Items
                      /\ Orderly(h) /\ result'[h] \in Items =>
                            /\ call[h] = "answered"
                            /\ KeyOfItem[result'[h]] = GetSide!KeyOf(h)
    BY <1>1 DEF Filed
  <2>1. CASE h = g /\ m.query = g
    BY <1>5, <1>8, <2>1
  <2>2. CASE h = g /\ m.query = Nothing
    BY <1>2, <1>8, <2>2 DEF Filed
  <2>3. CASE h = g /\ m.query \notin {g, Nothing}
    BY <1>2, <1>5, <2>3 DEF Filed
  <2>4. CASE h # g
    BY <1>2, <1>6, <2>4 DEF Filed
  <2> QED BY <2>1, <2>2, <2>3, <2>4
<1>18. ASSUME NEW i \in Items
       PROVE  Once(i)'
  <2>1. /\ \A k \in Keys : InStock(k, i)' <=> InStock(k, i)
        /\ \A d \in Consumers : OnWire(d, i)' <=> OnWire(d, i)
        /\ \A h \in GetSide!Gets : h # g => (InBox(h, i)' <=> InBox(h, i))
        /\ InBox(g, i) <=> m.item = i
        /\ ~InBox(g, i)'
    BY <1>b, <1>1, <1>6 DEF InStock, OnWire, InBox
  <2>2. Once(i) /\ i # Nothing
    BY <1>8, <1>18 DEF GetSideInv
  <2>3. CASE m.item # i
    <3>1. \A h \in GetSide!Gets : result'[h] = i <=> result[h] = i
      BY <1>6, <1>8, <1>18, <2>3
    <3>2. \A l, y : At(i, l, y)' <=> At(i, l, y)
      BY <1>1, <2>1, <2>3, <3>1 DEF At
    <3> QED BY <2>2, <3>2, OnceStays
  <2>4. CASE m.item = i
    <3>1. \A h \in GetSide!Gets : result'[h] = i <=> result[h] = i \/ h = g
      BY <1>6, <1>8, <2>2, <2>4
    <3>2. At(i, "inbox", g)
      BY <1>4, <2>1, <2>4 DEF At
    <3>3. \A l, y : At(i, l, y)' <=>
             \/ At(i, l, y) /\ ~(l = "inbox" /\ y = g)
             \/ l = "result" /\ y = g
      BY <1>1, <1>4, <2>1, <3>1 DEF At
    <3>4. \A l, y : At(i, l, y) <=> l = "inbox" /\ y = g
      BY ONLY <2>2, <3>2, OnceHere
    <3>5. \A l, y : At(i, l, y)' <=> l = "result" /\ y = g
      BY ONLY <3>3, <3>4
    <3> QED BY <3>5 DEF Once
  <2> QED BY <2>3, <2>4
<1> QED BY <1>9, <1>10, <1>12, <1>13, <1>14, <1>16, <1>17, <1>18 DEF GetSideInv

(* A call reaches the channel worker. *)
LEMMA GetArrived ==
    ASSUME GetsAssumption, GetSideInv, NEW g \in GetSide!Gets, GetSide!Arrive(g)
    PROVE  GetSideInv'
<1>1. /\ call[g] = "called"
      /\ call' = [call EXCEPT ![g] = "running"]
      /\ ready' = Append(ready, g)
      /\ UNCHANGED <<made, stage, receives, inbox, store, result, wire, unput, queue>>
  BY DEF GetSide!Arrive, GetSide!clientVars
<1>2. GetTypes /\ Stock /\ GetPlaces /\ Ahead /\ Receives /\ OneAnswer /\ Mail /\ Filed
  BY DEF GetSideInv
<1>3. call'[g] = "running" /\ \A h \in GetSide!Gets : h # g => call'[h] = call[h]
  BY <1>1, <1>2 DEF GetTypes
<1>4. /\ ready \in Seq(GetSide!Gets) /\ ~Has(ready, g)
      /\ \A k \in Keys : ~Has(queue[k].getters, g)
  BY <1>1, <1>2 DEF GetTypes, GetPlaces
<1>5. /\ ready' \in Seq(GetSide!Gets) /\ Unique(ready')
      /\ \A e : Has(ready', e) <=> Has(ready, e) \/ e = g
  BY <1>1, <1>2, <1>4, AppendFacts DEF GetPlaces
<1>6. GetTypes'
  BY <1>1, <1>2, <1>5 DEF GetTypes
<1>7. Stock' /\ (\A m : Under(m)' <=> Under(m)) /\ \A i \in Items : Once(i)'
  BY <1>1, ItemsKept
<1>8. GetPlaces'
  BY <1>1, <1>2, <1>3, <1>4, <1>5, GetMembers DEF GetPlaces
<1>9. Ahead' /\ Receives'
  BY <1>1, <1>2, <1>3 DEF Ahead, Receives
<1>10. OneAnswer'
  BY <1>1, <1>2, <1>3 DEF OneAnswer
<1>11. Filed'
  BY <1>1, <1>2, <1>3 DEF Filed
<1>12. Mail'
  <2>1. \A e : Under(e) /\ e.query # Nothing => call'[e.query] = "answered"
    BY <1>1, <1>2, <1>3, UnderIsMessage DEF Mail
  <2> QED BY <1>1, <1>2, <1>7, <2>1 DEF Mail
<1> QED BY <1>6, <1>7, <1>8, <1>9, <1>10, <1>11, <1>12 DEF GetSideInv

(* A put stores its item and wakes the first getter of its key. *)
LEMMA GetSupplied ==
    ASSUME GetsAssumption, GetSideInv, NEW i \in Items, GetSide!PutItem(i)
    PROVE  GetSideInv'
<1>a. PICK k : k = KeyOfItem[i]
  OBVIOUS
<1>b. PICK q : q = queue[k]
  OBVIOUS
<1>1. /\ i \in unput
      /\ unput' = unput \ {i}
      /\ queue' = [queue EXCEPT ![k] = GetSide!Stored(q, i)]
      /\ ready' = ready \o First(q.getters)
      /\ UNCHANGED <<made, stage, receives, inbox, store, result, call, wire>>
  BY <1>a, <1>b, GetSideOperators DEF GetSide!PutItem, GetSide!clientVars, GetSideInv, GetTypes
<1>2. GetTypes /\ Stock /\ GetPlaces /\ Ahead /\ Receives /\ OneAnswer /\ Mail /\ Filed
  BY DEF GetSideInv
<1>3. k \in Keys /\ Once(i) /\ At(i, "unput", i)
  BY <1>a, <1>1 DEF GetsAssumption, At, GetSideInv
<1>4. \A l, y : At(i, l, y) <=> l = "unput" /\ y = i
  BY ONLY <1>3, OnceHere
<1>5. /\ q \in [items : Seq(Items), getters : Seq(GetSide!Gets), putters : {<<>>}]
      /\ q.items \in Seq(Items) /\ Unique(q.items) /\ ~Has(q.items, i)
      /\ q.getters \in Seq(GetSide!Gets) /\ Unique(q.getters)
      /\ ready \in Seq(GetSide!Gets) /\ Unique(ready)
  <2>1. ~At(i, "queue", k)
    BY <1>4
  <2> QED BY <1>b, <1>2, <1>3, <2>1 DEF GetTypes, GetPlaces, Stock, At, InStock
<1>6. /\ Append(q.items, i) \in Seq(Items) /\ Unique(Append(q.items, i))
      /\ \A e : Has(Append(q.items, i), e) <=> Has(q.items, e) \/ e = i
  BY <1>5, AppendFacts
<1>7. /\ First(q.getters) \in Seq(GetSide!Gets) /\ Others(q.getters) \in Seq(GetSide!Gets)
      /\ Unique(First(q.getters)) /\ Unique(Others(q.getters))
      /\ \A e : Has(q.getters, e) <=> Has(First(q.getters), e) \/ Has(Others(q.getters), e)
      /\ \A e : ~(Has(First(q.getters), e) /\ Has(Others(q.getters), e))
  BY <1>5, WaiterFacts
<1>8. \A e : Has(q.getters, e) => call[e] = "running" /\ GetSide!KeyOf(e) = k /\ ~Has(ready, e)
  BY <1>b, <1>2, <1>3 DEF GetPlaces
<1>9. /\ ready' \in Seq(GetSide!Gets) /\ Unique(ready')
      /\ \A e : Has(ready', e) <=> Has(ready, e) \/ Has(First(q.getters), e)
  <2>1. \A e : ~(Has(ready, e) /\ Has(First(q.getters), e))
    BY <1>7, <1>8
  <2> QED BY <1>1, <1>5, <1>7, <2>1, ConcatFacts
<1>10. /\ GetSide!Stored(q, i)
             \in [items : Seq(Items), getters : Seq(GetSide!Gets), putters : {<<>>}]
       /\ GetSide!Stored(q, i).items = Append(q.items, i)
       /\ GetSide!Stored(q, i).getters = Others(q.getters)
  BY <1>5, <1>6, <1>7, GetSideOperators DEF GetSide!Stored
<1>11. /\ queue'[k].items = Append(q.items, i) /\ queue'[k].getters = Others(q.getters)
       /\ \A j \in Keys : j # k => queue'[j] = queue[j]
  BY <1>1, <1>2, <1>3, <1>10 DEF GetTypes
<1>12. GetTypes'
  BY <1>1, <1>2, <1>9, <1>10 DEF GetTypes
<1>13. Stock'
  <2> SUFFICES ASSUME NEW j \in Keys
               PROVE  /\ Unique(queue'[j].items)
                      /\ \A e : Has(queue'[j].items, e) => KeyOfItem[e] = j
    BY DEF Stock
  <2>1. CASE j = k
    BY <1>a, <1>b, <1>2, <1>6, <1>11, <2>1 DEF Stock
  <2>2. CASE j # k
    BY <1>2, <1>11, <2>2 DEF Stock
  <2> QED BY <2>1, <2>2
<1>14. GetPlaces'
  <2>1. \A e : Has(ready', e) => call'[e] = "running"
    BY <1>1, <1>2, <1>7, <1>8, <1>9 DEF GetPlaces
  <2>2. ASSUME NEW j \in Keys
        PROVE  /\ Unique(queue'[j].getters)
               /\ \A e : Has(queue'[j].getters, e) =>
                    call'[e] = "running" /\ GetSide!KeyOf(e) = j /\ ~Has(ready', e)
    <3>1. CASE j = k
      BY <1>1, <1>7, <1>8, <1>9, <1>11, <3>1
    <3>2. CASE j # k
      BY <1>1, <1>2, <1>7, <1>8, <1>9, <1>11, <3>2 DEF GetPlaces
    <3> QED BY <3>1, <3>2
  <2> QED BY <1>9, <2>1, <2>2 DEF GetPlaces
<1>15. Ahead' /\ Receives' /\ OneAnswer' /\ Filed'
  <2>1. Ahead' /\ Receives'
    BY <1>1, <1>2 DEF Ahead, Receives
  <2>2. OneAnswer' /\ Filed'
    BY <1>1, <1>2 DEF OneAnswer, Filed
  <2> QED BY <2>1, <2>2
<1>16. Mail'
  <2>1. \A m : Under(m)' <=> Under(m)
    BY <1>1 DEF Under
  <2> QED BY <1>1, <1>2, <2>1 DEF Mail
<1>17. ASSUME NEW j \in Items
       PROVE  Once(j)'
  <2>1. /\ \A d \in Consumers : OnWire(d, j)' <=> OnWire(d, j)
        /\ \A h \in GetSide!Gets : InBox(h, j)' <=> InBox(h, j)
        /\ \A p \in Keys : InStock(p, j)' <=> InStock(p, j) \/ (p = k /\ j = i)
        /\ Once(j)
    BY <1>b, <1>1, <1>6, <1>11 DEF OnWire, InBox, InStock, GetSideInv
  <2>2. CASE j # i
    <3>1. \A l, y : At(j, l, y)' <=> At(j, l, y)
      BY <1>1, <2>1, <2>2 DEF At
    <3> QED BY <2>1, <3>1, OnceStays
  <2>3. CASE j = i
    <3>1. \A l, y : At(j, l, y)' <=>
             \/ At(j, l, y) /\ ~(l = "unput" /\ y = i)
             \/ l = "queue" /\ y = k
      BY <1>1, <1>3, <2>1, <2>3 DEF At
    <3>2. \A l, y : At(j, l, y)' <=> l = "queue" /\ y = k
      BY <1>4, <2>3, <3>1
    <3> QED BY <3>2 DEF Once
  <2> QED BY <2>2, <2>3
<1> QED BY <1>12, <1>13, <1>14, <1>15, <1>16, <1>17 DEF GetSideInv

(* The coroutine of g answers with message m: what does not depend on what  *)
(* the message says.                                                        *)
LEMMA GetAnswered ==
    ASSUME GetsAssumption, GetSideInv, NEW g \in GetSide!Gets,
           NEW m \in GetSide!Message, m.query \in {g, Nothing},
           GetSide!Running(g), GetSide!Answer(g, m), UNCHANGED GetSide!clientVars,
           \A k \in Keys : queue'[k].getters = queue[k].getters
    PROVE  /\ call[g] = "running" /\ call'[g] = "answered"
           /\ \A h \in GetSide!Gets : h # g => call'[h] = call[h]
           /\ \A c \in Consumers : wire[c] \in Seq(GetSide!Message) /\ Distinct(wire[c])
           /\ wire'[g[1]] = Append(wire[g[1]], m)
           /\ \A c \in Consumers : c # g[1] => wire'[c] = wire[c]
           /\ \A e : Under(e)' <=> Under(e) \/ e = m
           /\ wire' \in [Consumers -> Seq(GetSide!Message)]
           /\ call' \in [GetSide!Gets -> {"none", "called", "running", "answered"}]
           /\ ready' \in Seq(GetSide!Gets)
           /\ GetPlaces' /\ Ahead' /\ Receives' /\ OneAnswer' /\ Filed'
<1>1. /\ ready # <<>> /\ g = Head(ready)
      /\ wire' = [wire EXCEPT ![g[1]] = Append(@, m)]
      /\ call' = [call EXCEPT ![g] = "answered"]
      /\ ready' = Tail(ready)
      /\ UNCHANGED <<made, stage, receives, inbox, store, result>>
  BY DEF GetSide!Running, GetSide!Answer, GetSide!clientVars
<1>2. GetTypes /\ Stock /\ GetPlaces /\ Ahead /\ Receives /\ OneAnswer /\ Mail /\ Filed
  BY DEF GetSideInv
<1>3. /\ \A h \in GetSide!Gets : h[1] \in Consumers /\ h = <<h[1], h[2]>>
      /\ \A h, k \in GetSide!Gets : h[1] = k[1] /\ h[2] = k[2] => h = k
  BY GetsAreNumbered
<1>4. /\ ready' \in Seq(GetSide!Gets) /\ Unique(ready')
      /\ Has(ready, g) /\ \A e : Has(ready', e) <=> Has(ready, e) /\ e # g
  <2>1. ready \in Seq(GetSide!Gets) /\ Unique(ready)
    BY <1>2 DEF GetTypes, GetPlaces
  <2> QED BY <1>1, <2>1, TailFacts
<1>5. /\ call[g] = "running" /\ call'[g] = "answered"
      /\ \A h \in GetSide!Gets : h # g => call'[h] = call[h]
  BY <1>1, <1>2, <1>4 DEF GetTypes, GetPlaces
<1>6. /\ \A c \in Consumers : wire[c] \in Seq(GetSide!Message) /\ Distinct(wire[c])
      /\ wire'[g[1]] = Append(wire[g[1]], m)
      /\ \A c \in Consumers : c # g[1] => wire'[c] = wire[c]
  BY <1>1, <1>2, <1>3 DEF GetTypes, Mail
<1>7. /\ wire'[g[1]] \in Seq(GetSide!Message)
      /\ \A e : Has(wire'[g[1]], e) <=> Has(wire[g[1]], e) \/ e = m
  BY <1>3, <1>6, AppendFacts
<1>8. m # Nothing
  BY DEF GetsAssumption
<1>9. \A e : Under(e)' <=> Under(e) \/ e = m
  <2>1. ASSUME NEW e
        PROVE  (\E c \in Consumers : Has(wire'[c], e))
                  <=> (\E c \in Consumers : Has(wire[c], e)) \/ e = m
    BY <1>3, <1>6, <1>7
  <2> QED BY <1>1, <2>1 DEF Under
<1>10. wire' \in [Consumers -> Seq(GetSide!Message)]
  BY <1>1, <1>2, <1>3, <1>6, <1>7 DEF GetTypes
<1>11. call' \in [GetSide!Gets -> {"none", "called", "running", "answered"}]
  BY <1>1, <1>2 DEF GetTypes
<1>12. GetPlaces'
  <2>1. \A e : Has(ready', e) => call'[e] = "running"
    BY <1>2, <1>4, <1>5, GetMembers DEF GetPlaces
  <2>2. ASSUME NEW k \in Keys
        PROVE  /\ Unique(queue'[k].getters)
               /\ \A e : Has(queue'[k].getters, e) =>
                    call'[e] = "running" /\ GetSide!KeyOf(e) = k /\ ~Has(ready', e)
    <3>1. queue'[k].getters = queue[k].getters
      OBVIOUS
    <3>2. \A e : Has(queue[k].getters, e) => e \in GetSide!Gets /\ e # g
      BY <1>2, <1>4, GetMembers DEF GetPlaces
    <3> QED BY <1>2, <1>4, <1>5, <3>1, <3>2 DEF GetPlaces
  <2> QED BY <1>4, <2>1, <2>2 DEF GetPlaces
<1>13. Ahead' /\ Receives'
  <2>1. ~(g[2] > made[g[1]])
    BY <1>2, <1>5 DEF Ahead
  <2>2. Ahead'
    BY <1>1, <1>2, <1>5, <2>1 DEF Ahead
  <2>3. Receives'
    BY <1>1, <1>2 DEF Receives
  <2> QED BY <2>2, <2>3
<1>14. OneAnswer'
  <2> SUFFICES ASSUME NEW h \in GetSide!Gets, AllSync(h[1])
               PROVE  /\ call'[h] \in {"called", "running"} =>
                            /\ h[2] = made[h[1]] /\ stage[h[1]] # "idle"
                            /\ wire'[h[1]] = <<>> /\ inbox[h] = Nothing
                      /\ inbox[h] # Nothing =>
                            /\ h[2] = made[h[1]] /\ stage[h[1]] = "posted"
                            /\ wire'[h[1]] = <<>> /\ inbox[h].query \in {h, Nothing}
                      /\ \A e : Has(wire'[h[1]], e) =>
                            /\ stage[h[1]] # "idle" /\ Tail(wire'[h[1]]) = <<>>
                            /\ e.query \in {<<h[1], made[h[1]]>>, Nothing}
                      /\ Has(receives[h[1]], h) =>
                            h[2] = made[h[1]] /\ stage[h[1]] = "posted"
    BY <1>1 DEF OneAnswer
  <2>1. CASE h[1] = g[1]
    <3>1. AllSync(g[1])
      BY <2>1
    <3>2. /\ g[2] = made[g[1]] /\ stage[g[1]] # "idle"
          /\ wire[g[1]] = <<>> /\ inbox[g] = Nothing
      BY <1>2, <1>5, <3>1 DEF OneAnswer
    <3>3. call'[h] \notin {"called", "running"}
      <4>1. call[h] \in {"called", "running"} => h = g
        BY <1>2, <1>3, <2>1, <3>2 DEF OneAnswer
      <4> QED BY <1>5, <4>1
    <3>4. inbox[h] = Nothing
      <4>1. inbox[h] # Nothing => h = g
        BY <1>2, <1>3, <2>1, <3>2 DEF OneAnswer
      <4> QED BY <3>2, <4>1
    <3>5. Tail(wire'[g[1]]) = <<>> /\ \A e : Has(wire'[g[1]], e) => e = m
      <4>1. Append(<<>>, m) = <<m>> /\ Tail(<<m>>) = <<>>
        OBVIOUS
      <4>2. \A e : ~Has(<<>>, e)
        BY DEF Has
      <4> QED BY <1>6, <1>7, <3>2, <4>1, <4>2
    <3>6. m.query \in {<<g[1], made[g[1]]>>, Nothing}
      BY <1>3, <3>2
    <3>7. Has(receives[h[1]], h) => h[2] = made[h[1]] /\ stage[h[1]] = "posted"
      BY <1>2 DEF OneAnswer
    <3> QED BY <2>1, <3>2, <3>3, <3>4, <3>5, <3>6, <3>7
  <2>2. CASE h[1] # g[1]
    <3>1. h # g /\ wire'[h[1]] = wire[h[1]] /\ call'[h] = call[h]
      BY <1>3, <1>5, <1>6, <2>2
    <3> QED BY <1>2, <3>1 DEF OneAnswer
  <2> QED BY <2>1, <2>2
<1>15. Filed'
  BY <1>1, <1>2, <1>5 DEF Filed
<1> QED BY <1>4, <1>5, <1>6, <1>9, <1>10, <1>11, <1>12, <1>13, <1>14, <1>15

(* A get takes the oldest item of its key and sends it. *)
LEMMA GetTakes ==
    ASSUME GetsAssumption, GetSideInv, NEW g \in GetSide!Gets, GetSide!Get(g)
    PROVE  GetSideInv'
<1>a. PICK k : k = GetSide!KeyOf(g)
  OBVIOUS
<1>b. PICK q : q = queue[k]
  OBVIOUS
<1>c. PICK i : i = Head(q.items)
  OBVIOUS
<1>d. PICK m : m = [query |-> g, item |-> i]
  OBVIOUS
<1>1. /\ GetSide!Running(g) /\ q.items # <<>>
      /\ queue' = [queue EXCEPT ![k] = GetSide!Removed(q)]
      /\ GetSide!Answer(g, m)
      /\ UNCHANGED <<GetSide!clientVars, unput>>
  BY <1>a, <1>b, <1>c, <1>d DEF GetSide!Get, GetSide!Empty, GetSideInv, GetTypes
<1>2. GetTypes /\ Stock /\ GetPlaces /\ Ahead /\ Receives /\ OneAnswer /\ Mail /\ Filed
  BY DEF GetSideInv
<1>3. k \in Keys /\ g[1] \in Consumers
  BY <1>a, GetsAreNumbered
<1>4. /\ q \in [items : Seq(Items), getters : Seq(GetSide!Gets), putters : {<<>>}]
      /\ q.items \in Seq(Items) /\ Unique(q.items)
  BY <1>b, <1>2, <1>3 DEF GetTypes, Stock
<1>5. /\ Tail(q.items) \in Seq(Items) /\ Unique(Tail(q.items))
      /\ i \in Items /\ Has(q.items, i)
      /\ \A e : Has(Tail(q.items), e) <=> Has(q.items, e) /\ e # i
  BY <1>c, <1>1, <1>4, TailFacts
<1>6. KeyOfItem[i] = k /\ Once(i) /\ At(i, "queue", k)
  BY <1>b, <1>2, <1>3, <1>5 DEF GetSideInv, Stock, At, InStock
<1>7. \A l, y : At(i, l, y) <=> l = "queue" /\ y = k
  BY ONLY <1>6, OnceHere
<1>8. /\ GetSide!Removed(q)
            \in [items : Seq(Items), getters : Seq(GetSide!Gets), putters : {<<>>}]
      /\ GetSide!Removed(q).items = Tail(q.items)
      /\ GetSide!Removed(q).getters = q.getters
  BY <1>4, <1>5, GetSideOperators DEF GetSide!Removed, Others
<1>9. /\ queue'[k].items = Tail(q.items) /\ queue'[k].getters = q.getters
      /\ \A j \in Keys : j # k => queue'[j] = queue[j]
  BY <1>1, <1>2, <1>3, <1>8 DEF GetTypes
<1>10. \A j \in Keys : queue'[j].getters = queue[j].getters
  BY <1>b, <1>9
<1>11. m \in GetSide!Message /\ m.query = g /\ m.item = i /\ g # Nothing
  BY <1>d, <1>5, GetsAreNumbered DEF GetSide!Message
<1>12. UNCHANGED GetSide!clientVars
  BY <1>1
<1>13. /\ call[g] = "running" /\ call'[g] = "answered"
       /\ \A h \in GetSide!Gets : h # g => call'[h] = call[h]
       /\ \A c \in Consumers : wire[c] \in Seq(GetSide!Message) /\ Distinct(wire[c])
       /\ wire'[g[1]] = Append(wire[g[1]], m)
       /\ \A c \in Consumers : c # g[1] => wire'[c] = wire[c]
       /\ \A e : Under(e)' <=> Under(e) \/ e = m
       /\ wire' \in [Consumers -> Seq(GetSide!Message)]
       /\ call' \in [GetSide!Gets -> {"none", "called", "running", "answered"}]
       /\ ready' \in Seq(GetSide!Gets)
       /\ GetPlaces' /\ Ahead' /\ Receives' /\ OneAnswer' /\ Filed'
  BY <1>1, <1>10, <1>11, <1>12, GetAnswered
<1>14. UNCHANGED <<made, stage, receives, inbox, store, result, unput>>
  BY <1>1 DEF GetSide!clientVars
<1>15. \A e : Under(e) => e.query # g /\ e.item # i /\ e # m
  <2> SUFFICES ASSUME NEW e, Under(e)
               PROVE  e.query # g /\ e.item # i
    BY <1>11
  <2>1. e.query # g
    BY <1>2, <1>11, <1>13 DEF Mail
  <2>2. e.item # i
    <3>1. ASSUME e.item = i
          PROVE  \E c \in Consumers \cup GetSide!Gets : At(i, "wire", c) \/ At(i, "inbox", c)
      BY <3>1 DEF Under, At, OnWire, InBox
    <3> QED BY <1>7, <3>1
  <2> QED BY <2>1, <2>2
<1>16. GetTypes'
  <2>1. queue' \in [Keys -> [items : Seq(Items), getters : Seq(GetSide!Gets), putters : {<<>>}]]
    BY <1>1, <1>2, <1>8 DEF GetTypes
  <2> QED BY <1>2, <1>13, <1>14, <2>1 DEF GetTypes
<1>17. Stock'
  <2> SUFFICES ASSUME NEW j \in Keys
               PROVE  /\ Unique(queue'[j].items)
                      /\ \A e : Has(queue'[j].items, e) => KeyOfItem[e] = j
    BY DEF Stock
  <2>1. CASE j = k
    BY <1>b, <1>2, <1>5, <1>9, <2>1 DEF Stock
  <2>2. CASE j # k
    BY <1>2, <1>9, <2>2 DEF Stock
  <2> QED BY <2>1, <2>2
<1>18. Mail'
  <2>1. \A c \in Consumers : Distinct(wire'[c])
    <3>1. ~Has(wire[g[1]], m)
      BY <1>3, <1>15 DEF Under
    <3>2. Distinct(wire'[g[1]])
      BY <1>3, <1>11, <1>13, <3>1, DistinctAppend
    <3> QED BY <1>13, <3>2
  <2>2. \A e : Under(e)' /\ e.query = Nothing => e.item = Nothing
    BY <1>2, <1>11, <1>13 DEF Mail
  <2>3. ASSUME NEW e, Under(e)', e.query # Nothing
        PROVE  /\ e.item \in Items /\ KeyOfItem[e.item] = GetSide!KeyOf(e.query)
               /\ call'[e.query] = "answered"
               /\ store'[e.query] \notin Items
               /\ Orderly(e.query) => result'[e.query] \notin Items
    <3>1. CASE e = m
      <4>1. store[g] \notin Items /\ (Orderly(g) => result[g] \notin Items)
        BY <1>2, <1>13 DEF Filed
      <4> QED BY <1>a, <1>5, <1>6, <1>11, <1>13, <1>14, <3>1, <4>1
    <3>2. CASE e # m
      <4>1. Under(e) /\ e.query \in GetSide!Gets /\ e.query # g
        BY <1>2, <1>13, <1>15, <2>3, <3>2, UnderIsMessage
      <4> QED BY <1>2, <1>13, <1>14, <2>3, <4>1 DEF Mail
    <3> QED BY <3>1, <3>2
  <2>4. \A e, n : Under(e)' /\ Under(n)' /\ e.query # Nothing
          /\ (e.query = n.query \/ e.item = n.item) => e = n
    BY <1>2, <1>11, <1>13, <1>15 DEF Mail
  <2> QED BY <2>1, <2>2, <2>3, <2>4 DEF Mail
<1>19. ASSUME NEW j \in Items
       PROVE  Once(j)'
  <2>1. /\ \A d \in Consumers : d # g[1] => (OnWire(d, j)' <=> OnWire(d, j))
        /\ \A h \in GetSide!Gets : InBox(h, j)' <=> InBox(h, j)
        /\ \A p \in Keys : InStock(p, j)' <=> InStock(p, j) /\ ~(p = k /\ j = i)
        /\ Once(j)
    BY <1>b, <1>5, <1>9, <1>13, <1>14 DEF OnWire, InBox, InStock, GetSideInv
  <2>2. OnWire(g[1], j)' <=> OnWire(g[1], j) \/ j = i
    <3>1. \A e : Has(wire'[g[1]], e) <=> Has(wire[g[1]], e) \/ e = m
      BY <1>3, <1>11, <1>13, AppendFacts
    <3> QED BY <1>11, <3>1 DEF OnWire
  <2>3. CASE j # i
    <3>1. \A l, y : At(j, l, y)' <=> At(j, l, y)
      BY <1>14, <2>1, <2>2, <2>3 DEF At
    <3> QED BY <2>1, <3>1, OnceStays
  <2>4. CASE j = i
    <3>1. \A l, y : At(j, l, y)' <=>
             \/ At(j, l, y) /\ ~(l = "queue" /\ y = k)
             \/ l = "wire" /\ y = g[1]
      BY <1>3, <1>14, <2>1, <2>2, <2>4 DEF At
    <3>2. \A l, y : At(j, l, y)' <=> l = "wire" /\ y = g[1]
      BY <1>7, <2>4, <3>1
    <3> QED BY <3>2 DEF Once
  <2> QED BY <2>3, <2>4
<1> QED BY <1>13, <1>16, <1>17, <1>18, <1>19 DEF GetSideInv

(* get_nowait on an empty queue sends the exception. *)
LEMMA GetFindsNone ==
    ASSUME GetsAssumption, GetSideInv, NEW g \in GetSide!Gets, GetSide!GetEmpty(g)
    PROVE  GetSideInv'
<1>a. PICK m : m = [query |-> Nothing, item |-> Nothing]
  OBVIOUS
<1>1. /\ GetSide!Running(g) /\ GetSide!Mode(g) = "nowait"
      /\ GetSide!Answer(g, m)
      /\ UNCHANGED <<GetSide!clientVars, unput, queue>>
  BY <1>a DEF GetSide!GetEmpty
<1>2. GetTypes /\ Stock /\ GetPlaces /\ Ahead /\ Receives /\ OneAnswer /\ Mail /\ Filed
  BY DEF GetSideInv
<1>3. m \in GetSide!Message /\ m.query = Nothing /\ m.item = Nothing /\ g[1] \in Consumers
  BY <1>a, GetsAreNumbered DEF GetSide!Message
<1>4. UNCHANGED GetSide!clientVars /\ \A k \in Keys : queue'[k].getters = queue[k].getters
  BY <1>1
<1>5. /\ call[g] = "running" /\ call'[g] = "answered"
      /\ \A h \in GetSide!Gets : h # g => call'[h] = call[h]
      /\ wire'[g[1]] = Append(wire[g[1]], m)
      /\ \A c \in Consumers : wire[c] \in Seq(GetSide!Message) /\ Distinct(wire[c])
      /\ \A c \in Consumers : c # g[1] => wire'[c] = wire[c]
      /\ \A e : Under(e)' <=> Under(e) \/ e = m
      /\ wire' \in [Consumers -> Seq(GetSide!Message)]
      /\ call' \in [GetSide!Gets -> {"none", "called", "running", "answered"}]
      /\ ready' \in Seq(GetSide!Gets)
      /\ GetPlaces' /\ Ahead' /\ Receives' /\ OneAnswer' /\ Filed'
  BY <1>1, <1>3, <1>4, GetAnswered
<1>6. UNCHANGED <<made, stage, receives, inbox, store, result, unput, queue>>
  BY <1>1 DEF GetSide!clientVars
<1>7. GetTypes' /\ Stock'
  <2>1. GetTypes'
    BY <1>2, <1>5, <1>6 DEF GetTypes
  <2>2. Stock'
    BY <1>2, <1>6 DEF Stock
  <2> QED BY <2>1, <2>2
<1>8. Mail'
  <2>1. \A c \in Consumers : Distinct(wire'[c])
    <3>1. Distinct(wire'[g[1]])
      BY <1>3, <1>5, DistinctAppend
    <3> QED BY <1>5, <3>1
  <2>2. \A e : Under(e)' /\ e.query = Nothing => e.item = Nothing
    BY <1>2, <1>3, <1>5 DEF Mail
  <2>3. \A e : Under(e) /\ e.query # Nothing => e.query # g /\ e.query \in GetSide!Gets
    BY <1>2, <1>5, UnderIsMessage DEF Mail
  <2>4. \A e : Under(e)' /\ e.query # Nothing =>
          /\ e.item \in Items /\ KeyOfItem[e.item] = GetSide!KeyOf(e.query)
          /\ call'[e.query] = "answered"
          /\ store'[e.query] \notin Items
          /\ Orderly(e.query) => result'[e.query] \notin Items
    BY <1>2, <1>3, <1>5, <1>6, <2>3 DEF Mail
  <2>5. \A e, n : Under(e)' /\ Under(n)' /\ e.query # Nothing
          /\ (e.query = n.query \/ e.item = n.item) => e = n
    <3> SUFFICES ASSUME NEW e, NEW n, Under(e)', Under(n)', e.query # Nothing,
                        e.query = n.query \/ e.item = n.item
                 PROVE  e = n
      OBVIOUS
    <3>1. Under(e)
      BY <1>3, <1>5
    <3>2. e.item \in Items
      BY <1>2, <3>1 DEF Mail
    <3>3. n # m
      BY <1>3, <3>2 DEF GetsAssumption
    <3>4. Under(n)
      BY <1>5, <3>3
    <3> QED BY <1>2, <3>1, <3>4 DEF Mail
  <2> QED BY <2>1, <2>2, <2>4, <2>5 DEF Mail
<1>9. ASSUME NEW j \in Items
      PROVE  Once(j)'
  <2>1. /\ \A d \in Consumers : d # g[1] => (OnWire(d, j)' <=> OnWire(d, j))
        /\ \A h \in GetSide!Gets : InBox(h, j)' <=> InBox(h, j)
        /\ \A p \in Keys : InStock(p, j)' <=> InStock(p, j)
        /\ Once(j) /\ j # Nothing
    BY <1>5, <1>6, <1>9 DEF OnWire, InBox, InStock, GetSideInv, GetsAssumption
  <2>2. OnWire(g[1], j)' <=> OnWire(g[1], j)
    <3>1. \A e : Has(wire'[g[1]], e) <=> Has(wire[g[1]], e) \/ e = m
      BY <1>3, <1>5, AppendFacts
    <3> QED BY <1>3, <2>1, <3>1 DEF OnWire
  <2>3. \A l, y : At(j, l, y)' <=> At(j, l, y)
    BY <1>6, <2>1, <2>2 DEF At
  <2> QED BY <2>1, <2>3, OnceStays
<1> QED BY <1>5, <1>7, <1>8, <1>9 DEF GetSideInv

(* A get that finds its queue empty parks. *)
LEMMA GetParks ==
    ASSUME GetsAssumption, GetSideInv, NEW g \in GetSide!Gets, GetSide!GetWait(g)
    PROVE  GetSideInv'
<1>a. PICK k : k = GetSide!KeyOf(g)
  OBVIOUS
<1>b. PICK q : q = queue[k]
  OBVIOUS
<1>1. /\ ready # <<>> /\ g = Head(ready)
      /\ queue' = [queue EXCEPT ![k] = GetSide!AwaitItem(q, g)]
      /\ ready' = Tail(ready)
      /\ UNCHANGED <<made, stage, receives, inbox, store, result, call, wire, unput>>
  BY <1>a, <1>b DEF GetSide!GetWait, GetSide!Running, GetSide!clientVars, GetSideInv, GetTypes
<1>2. GetTypes /\ Stock /\ GetPlaces /\ Ahead /\ Receives /\ OneAnswer /\ Mail /\ Filed
  BY DEF GetSideInv
<1>3. k \in Keys
  BY <1>a, GetsAreNumbered
<1>4. /\ ready' \in Seq(GetSide!Gets) /\ Unique(ready')
      /\ Has(ready, g) /\ \A e : Has(ready', e) <=> Has(ready, e) /\ e # g
  <2>1. ready \in Seq(GetSide!Gets) /\ Unique(ready)
    BY <1>2 DEF GetTypes, GetPlaces
  <2> QED BY <1>1, <2>1, TailFacts
<1>5. /\ q \in [items : Seq(Items), getters : Seq(GetSide!Gets), putters : {<<>>}]
      /\ q.getters \in Seq(GetSide!Gets) /\ Unique(q.getters)
      /\ call[g] = "running" /\ \A j \in Keys : ~Has(queue[j].getters, g)
  BY <1>b, <1>2, <1>3, <1>4 DEF GetTypes, GetPlaces
<1>6. ~Has(q.getters, g)
  BY <1>b, <1>3, <1>5
<1>7. /\ Append(q.getters, g) \in Seq(GetSide!Gets) /\ Unique(Append(q.getters, g))
      /\ \A e : Has(Append(q.getters, g), e) <=> Has(q.getters, e) \/ e = g
  BY <1>5, <1>6, AppendFacts
<1>8. /\ GetSide!AwaitItem(q, g)
            \in [items : Seq(Items), getters : Seq(GetSide!Gets), putters : {<<>>}]
      /\ GetSide!AwaitItem(q, g).items = q.items
      /\ GetSide!AwaitItem(q, g).getters = Append(q.getters, g)
  BY <1>5, <1>7 DEF GetSide!AwaitItem
<1>9. /\ queue'[k].items = queue[k].items /\ queue'[k].getters = Append(q.getters, g)
      /\ \A j \in Keys : j # k => queue'[j] = queue[j]
  BY <1>b, <1>1, <1>2, <1>3, <1>8 DEF GetTypes
<1>10. GetTypes'
  BY <1>1, <1>2, <1>4, <1>8 DEF GetTypes
<1>11. Stock' /\ (\A m : Under(m)' <=> Under(m)) /\ \A i \in Items : Once(i)'
  <2>1. \A j \in Keys : queue'[j].items = queue[j].items
    BY <1>9
  <2> QED BY <1>1, <2>1, ItemsKept
<1>12. GetPlaces'
  <2>1. \A e : Has(ready', e) => call'[e] = "running"
    BY <1>1, <1>2, <1>4 DEF GetPlaces
  <2>2. ASSUME NEW j \in Keys
        PROVE  /\ Unique(queue'[j].getters)
               /\ \A e : Has(queue'[j].getters, e) =>
                    call'[e] = "running" /\ GetSide!KeyOf(e) = j /\ ~Has(ready', e)
    <3>1. CASE j = k
      <4>1. \A e : Has(q.getters, e) =>
              call[e] = "running" /\ GetSide!KeyOf(e) = k /\ ~Has(ready, e)
        BY <1>b, <1>2, <1>3 DEF GetPlaces
      <4>2. call'[g] = "running" /\ ~Has(ready', g) /\ call' = call
        BY <1>1, <1>4, <1>5
      <4> QED BY <1>a, <1>4, <1>7, <1>9, <3>1, <4>1, <4>2
    <3>2. CASE j # k
      BY <1>1, <1>2, <1>4, <1>9, <3>2 DEF GetPlaces
    <3> QED BY <3>1, <3>2
  <2> QED BY <1>4, <2>1, <2>2 DEF GetPlaces
<1>13. Ahead' /\ Receives' /\ OneAnswer' /\ Filed'
  <2>1. Ahead' /\ Receives'
    BY <1>1, <1>2 DEF Ahead, Receives
  <2>2. OneAnswer' /\ Filed'
    BY <1>1, <1>2 DEF OneAnswer, Filed
  <2> QED BY <2>1, <2>2
<1>14. Mail'
  BY <1>1, <1>2, <1>11 DEF Mail
<1> QED BY <1>10, <1>11, <1>12, <1>13, <1>14 DEF GetSideInv

(* Every step keeps the invariant. *)
LEMMA GetInvNext ==
    ASSUME GetsAssumption, GetSideInv, [GetSide!Next]_GetSide!vars
    PROVE  GetSideInv'
<1>1. CASE UNCHANGED GetSide!vars
  BY <1>1, GetInvKept
<1>2. ASSUME NEW c \in Consumers, GetSide!Call(c) \/ GetSide!Post(c) \/ GetSide!Wrap(c)
                                     \/ GetSide!Receive(c) \/ GetSide!SyncReturns(c)
      PROVE  GetSideInv'
  BY <1>2, GetCalled, GetPosted, GetWrapped, GetReceived, GetSyncReturned
<1>3. ASSUME NEW g \in GetSide!Gets,
             GetSide!StoreData(g) \/ GetSide!AsyncReturns(g) \/ GetSide!Arrive(g)
      PROVE  GetSideInv'
  BY <1>3, GetStored, GetAsyncReturned, GetArrived
<1>4. ASSUME NEW i \in Items, GetSide!PutItem(i)
      PROVE  GetSideInv'
  BY <1>4, GetSupplied
<1>5. ASSUME NEW g \in GetSide!Gets,
             GetSide!Get(g) \/ GetSide!GetWait(g) \/ GetSide!GetEmpty(g)
      PROVE  GetSideInv'
  BY <1>5, GetTakes, GetParks, GetFindsNone
<1> QED BY <1>1, <1>2, <1>3, <1>4, <1>5 DEF GetSide!Next, GetSide!RunReady

(* The invariant holds whatever gets the consumers make. *)
LEMMA GetSideInvariant ==
    ASSUME GetsAssumption
    PROVE  GetSide!Spec => []GetSideInv
<1>1. GetSide!Init => GetSideInv
  BY GetInvInit
<1>2. GetSideInv /\ [GetSide!Next]_GetSide!vars => GetSideInv'
  BY GetInvNext
<1> QED BY <1>1, <1>2, PTL DEF GetSide!Spec

(* No item is lost or taken twice on its way from a put to a get, whatever  *)
(* gets the consumers make: before its put, in its queue, in a message,     *)
(* with a receive, in the store or returned, it is at exactly one place     *)
(* (ChannelWorker.get, Channel.get and get_nowait, AsyncChannelCommWork).   *)
THEOREM ItemsStaySingle ==
    ASSUME GetsAssumption
    PROVE  GetSide!Spec => []GetSide!EachItemOnce
<1>1. GetSideInv => GetSide!EachItemOnce
  BY OnceIsOnce DEF GetSideInv
<1> QED BY <1>1, GetSideInvariant, PTL

(* What an asynchronous get returns, or a get of a worker that makes none,  *)
(* was put under its key, though it may come through the receive of another *)
(* get (Channel.get, AsyncChannelCommWork).                                 *)
THEOREM OrderlyGetsReturnTheirKey ==
    ASSUME GetsAssumption
    PROVE  GetSide!Spec => [](\A g \in GetSide!Gets :
              Orderly(g) /\ result[g] \in Items => KeyOfItem[result[g]] = GetSide!KeyOf(g))
<1>1. GetSideInv => \A g \in GetSide!Gets :
         Orderly(g) /\ result[g] \in Items => KeyOfItem[result[g]] = GetSide!KeyOf(g)
  BY DEF GetSideInv, Filed
<1> QED BY <1>1, GetSideInvariant, PTL

(* So every get returns an item of its key when the gets of each worker are *)
(* all asynchronous or none is (channel.py: "retrieve the specific data     *)
(* item").                                                                  *)
THEOREM GetsReturnTheirKey ==
    ASSUME GetsAssumption, OneModeEach
    PROVE  GetSide!Spec => []GetSide!OwnKey
<1>1. \A g \in GetSide!Gets : Orderly(g)
  BY DEF OneModeEach, Orderly, AllSync
<1>2. GetSideInv => GetSide!OwnKey
  BY <1>1 DEF GetSideInv, Filed, GetSide!OwnKey
<1> QED BY <1>2, GetSideInvariant, PTL
=============================================================================
