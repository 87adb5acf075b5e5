--------------------------- MODULE DeviceLock_proofs ---------------------------
(***************************************************************************)
(* The safety of the device lock, for any number of workers, accelerators  *)
(* and any lists of accelerators: no wake-up is lost, however deep blocks  *)
(* are nested; blocks that are not nested exclude each other, none of      *)
(* their releases raises, and conflicting workers are served in the order  *)
(* in which they asked: DeviceLock implements ExclusiveDevices.            *)
(***************************************************************************)
EXTENDS DeviceLockQueue

(* Exclusion needs blocks that are not nested: the release of an inner      *)
(* block gives the lock away while the outer one is still open.             *)
NotNested == MaxDepth = 1

(* Mutual exclusion is not inductive: it says nothing of the tasks in       *)
(* flight.  The conjuncts below tie each task and each waiter to the call   *)
(* it belongs to, and each finished task to the lock it obtained.           *)

LockedIffOwned == \A d \in Devices : locked[d] <=> owner[d] # NoWorker

ReadyIsUnique == Unique(ready)

(* A scheduled task belongs to a call that is still waiting for it. *)
TasksArePending ==
    \A w \in Workers, d \in Devices :
        /\ Has(ready, Task("acquire", w, d)) => pc[w] = "acquiring" /\ d \in pending[w]
        /\ Has(ready, Task("release", w, d)) =>
                pc[w] \in {"releasing", "failed"} /\ d \in pending[w]

(* A waiter is an acquire in progress whose first part has run. *)
WaitersArePending ==
    \A d \in Devices :
        /\ Unique(waiters[d])
        /\ \A w \in Workers : Has(waiters[d], w) =>
                /\ pc[w] = "acquiring"
                /\ d \in pending[w]
                /\ ~Has(ready, Task("acquire", w, d))

(* Only the first waiter of a free lock is ever resumed. *)
ResumeIsFirst ==
    \A w \in Workers, d \in Devices :
        Has(ready, Task("resume", w, d)) =>
            /\ waiters[d] # <<>>
            /\ Head(waiters[d]) = w
            /\ owner[d] = NoWorker

WokenIsScheduled ==
    \A w \in Workers, d \in Devices :
        w \in woken[d] <=> Has(ready, Task("resume", w, d))

(* What a worker waits for is its own, and a call fits the blocks entered. *)
CallsAreOwn ==
    \A w \in Workers :
        /\ pending[w] \subseteq DevicesOf(w)
        /\ pc[w] = "releasing" => depth[w] > 0
        /\ pc[w] = "acquiring" => depth[w] < MaxDepth

(* The inductive invariant of the manager, whatever its callers do. *)
LockInv ==
    /\ TypeOK
    /\ LockedIffOwned
    /\ ReadyIsUnique
    /\ TasksArePending
    /\ WaitersArePending
    /\ ResumeIsFirst
    /\ WokenIsScheduled
    /\ CallsAreOwn
    /\ NoLostWakeup

(* w has finished acquiring d and has not finished releasing it. *)
Holds(w, d) ==
    /\ d \in DevicesOf(w)
    /\ \/ pc[w] = "running" /\ depth[w] = 1
       \/ pc[w] = "acquiring" /\ d \notin pending[w]
       \/ pc[w] = "releasing" /\ d \in pending[w]

HolderOwns == \A w \in Workers, d \in Devices : Holds(w, d) => owner[d] = w

(* What blocks that are not nested add to it. *)
HolderInv == HolderOwns /\ ReleaseNeverRaises

IInv == LockInv /\ HolderInv

-----------------------------------------------------------------------------
AllTasks == [kind : Kinds, worker : Workers, device : Devices]

LEMMA TaskEqual ==
    ASSUME NEW k, NEW v, NEW c, NEW l, NEW w, NEW d
    PROVE  Task(k, v, c) = Task(l, w, d) <=> k = l /\ v = w /\ c = d
  BY DEF Task

LEMMA TaskType ==
    ASSUME NEW k \in Kinds, NEW w \in Workers, NEW d \in Devices
    PROVE  Task(k, w, d) \in AllTasks
  BY DEF Task, AllTasks

LEMMA DevicesOfType ==
    ASSUME NEW w \in Workers
    PROVE  DevicesOf(w) \subseteq Devices
<1>1. AccelIds[w] \in Seq(Devices)
  BY AccelIdsAssumption
<1> QED BY <1>1, ElementOfSeq DEF DevicesOf

(* asyncio.gather schedules one task per accelerator of w. *)
LEMMA GatherFacts ==
    ASSUME NEW k \in Kinds, NEW w \in Workers
    PROVE  /\ Gather(k, w) \in Seq(AllTasks)
           /\ Unique(Gather(k, w))
           /\ \A e : Has(Gather(k, w), e) <=> \E d \in DevicesOf(w) : e = Task(k, w, d)
<1> DEFINE a == AccelIds[w]
<1>1. /\ a \in Seq(Devices)
      /\ \A i, j \in DOMAIN a : a[i] = a[j] => i = j
      /\ DOMAIN a = 1..Len(a)
      /\ Len(a) \in Nat
      /\ \A i \in DOMAIN a : a[i] \in Devices
  BY AccelIdsAssumption, LenProperties, ElementOfSeq
<1>2. Gather(k, w) = [i \in DOMAIN a |-> Task(k, w, a[i])]
  BY DEF Gather
<1>3. Gather(k, w) \in Seq(AllTasks)
  <2>1. \A i \in DOMAIN a : Task(k, w, a[i]) \in AllTasks
    BY <1>1, TaskType
  <2> QED BY <1>1, <1>2, <2>1
<1>4. Unique(Gather(k, w))
  BY <1>1, <1>2, TaskEqual DEF Unique
<1>5. \A e : Has(Gather(k, w), e) <=> \E d \in DevicesOf(w) : e = Task(k, w, d)
  BY <1>1, <1>2 DEF Has, DevicesOf
<1> QED BY <1>3, <1>4, <1>5

(* The event loop takes exactly the callback it runs off the ready queue. *)
LEMMA PopFacts ==
    ASSUME TypeOK, ReadyIsUnique,
           NEW k \in Kinds, NEW w \in Workers, NEW d \in Devices, IsNext(k, w, d)
    PROVE  /\ Tail(ready) \in Seq(AllTasks)
           /\ Unique(Tail(ready))
           /\ Has(ready, Task(k, w, d))
           /\ \A e : Has(Tail(ready), e) <=> Has(ready, e) /\ e # Task(k, w, d)
<1>1. ready \in Seq(AllTasks)
  BY DEF TypeOK, AllTasks
<1> QED BY <1>1, TailFacts DEF ReadyIsUnique, IsNext

LEMMA InitInv == Init => LockInv /\ HolderInv
<1> SUFFICES ASSUME Init PROVE LockInv /\ HolderInv
  OBVIOUS
<1> USE DEF Init
<1>1. TypeOK
  BY MaxDepthAssumption DEF TypeOK
<1>2. \A e : ~Has(ready, e)
  BY DEF Has
<1>3. \A d \in Devices : waiters[d] = <<>> /\ \A w : ~Has(waiters[d], w)
  BY DEF Has
<1>4. LockedIffOwned
  BY DEF LockedIffOwned
<1>5. ReadyIsUnique
  BY DEF ReadyIsUnique, Unique
<1>6. TasksArePending /\ ResumeIsFirst
  BY <1>2 DEF TasksArePending, ResumeIsFirst
<1>7. WaitersArePending
  <2>1. \A d \in Devices : Unique(waiters[d])
    BY <1>3 DEF Unique
  <2> QED BY <1>3, <2>1 DEF WaitersArePending
<1>8. WokenIsScheduled
  BY <1>2 DEF WokenIsScheduled
<1>9. HolderInv
  BY DEF HolderInv, HolderOwns, Holds, ReleaseNeverRaises
<1>10. CallsAreOwn
  BY DEF CallsAreOwn
<1>11. NoLostWakeup
  BY <1>3 DEF NoLostWakeup
<1> QED BY <1>1, <1>4, <1>5, <1>6, <1>7, <1>8, <1>9, <1>10, <1>11 DEF LockInv

-----------------------------------------------------------------------------
(* The steps of a worker: what changes is its call and, when it makes one,  *)
(* the tasks appended to ready.                                             *)

LEMMA EnterInv ==
    ASSUME LockInv, NEW w \in Workers, Enter(w)
    PROVE  LockInv'
<1> USE DEF LockInv
<1>1. /\ pc[w] = "running" /\ depth[w] < MaxDepth
      /\ ready' = ready \o Gather("acquire", w)
      /\ pc' = [pc EXCEPT ![w] = "acquiring"]
      /\ pending' = [pending EXCEPT ![w] = DevicesOf(w)]
      /\ UNCHANGED <<locked, owner, waiters, woken, depth>>
  BY DEF Enter, Call, lockVars
<1>2. "acquire" \in Kinds /\ ready \in Seq(AllTasks) /\ DevicesOf(w) \subseteq Devices
  BY DevicesOfType DEF Kinds, TypeOK, AllTasks
<1>3. \A k, v, d : Has(Gather("acquire", w), Task(k, v, d)) <=>
                        k = "acquire" /\ v = w /\ d \in DevicesOf(w)
  BY <1>2, GatherFacts, TaskEqual
<1>4. /\ ready' \in Seq(AllTasks)
      /\ \A e : Has(ready', e) <=> Has(ready, e) \/ Has(Gather("acquire", w), e)
  BY <1>1, <1>2, GatherFacts, ConcatFacts
<1>5. \A d \in Devices : ~Has(ready, Task("acquire", w, d)) /\ ~Has(waiters[d], w)
  BY <1>1 DEF TasksArePending, WaitersArePending
<1>6. TypeOK'
  BY <1>1, <1>2, <1>4 DEF TypeOK, AllTasks
<1>7. LockedIffOwned'
  BY <1>1 DEF LockedIffOwned
<1>8. ReadyIsUnique'
  <2>1. \A e : ~(Has(ready, e) /\ Has(Gather("acquire", w), e))
    BY <1>2, <1>5, GatherFacts
  <2> QED BY <1>1, <1>2, <2>1, GatherFacts, ConcatFacts DEF ReadyIsUnique
<1>9. TasksArePending'
  BY <1>1, <1>3, <1>4 DEF TasksArePending, TypeOK
<1>10. WaitersArePending'
  BY <1>1, <1>3, <1>4, <1>5 DEF WaitersArePending, TypeOK
<1>11. ResumeIsFirst'
  BY <1>1, <1>3, <1>4 DEF ResumeIsFirst
<1>12. WokenIsScheduled'
  BY <1>1, <1>3, <1>4 DEF WokenIsScheduled
<1>13. CallsAreOwn'
  BY <1>1 DEF CallsAreOwn, DevicesOf, TypeOK
<1>14. NoLostWakeup'
  BY <1>1, <1>4 DEF NoLostWakeup
<1> QED BY <1>6, <1>7, <1>8, <1>9, <1>10, <1>11, <1>12, <1>13, <1>14

LEMMA LeaveInv ==
    ASSUME LockInv, NEW w \in Workers, Leave(w)
    PROVE  LockInv'
<1> USE DEF LockInv
<1>1. /\ pc[w] = "running" /\ depth[w] > 0
      /\ ready' = ready \o Gather("release", w)
      /\ pc' = [pc EXCEPT ![w] = "releasing"]
      /\ pending' = [pending EXCEPT ![w] = DevicesOf(w)]
      /\ UNCHANGED <<locked, owner, waiters, woken, depth>>
  BY DEF Leave, Call, lockVars
<1>2. "release" \in Kinds /\ ready \in Seq(AllTasks) /\ DevicesOf(w) \subseteq Devices
  BY DevicesOfType DEF Kinds, TypeOK, AllTasks
<1>3. \A k, v, d : Has(Gather("release", w), Task(k, v, d)) <=>
                        k = "release" /\ v = w /\ d \in DevicesOf(w)
  BY <1>2, GatherFacts, TaskEqual
<1>4. /\ ready' \in Seq(AllTasks)
      /\ \A e : Has(ready', e) <=> Has(ready, e) \/ Has(Gather("release", w), e)
  BY <1>1, <1>2, GatherFacts, ConcatFacts
<1>5. \A d \in Devices : /\ ~Has(ready, Task("acquire", w, d))
                         /\ ~Has(ready, Task("release", w, d))
                         /\ ~Has(waiters[d], w)
  BY <1>1 DEF TasksArePending, WaitersArePending
<1>6. TypeOK'
  BY <1>1, <1>2, <1>4 DEF TypeOK, AllTasks
<1>7. LockedIffOwned'
  BY <1>1 DEF LockedIffOwned
<1>8. ReadyIsUnique'
  <2>1. \A e : ~(Has(ready, e) /\ Has(Gather("release", w), e))
    BY <1>2, <1>5, GatherFacts
  <2> QED BY <1>1, <1>2, <2>1, GatherFacts, ConcatFacts DEF ReadyIsUnique
<1>9. TasksArePending'
  BY <1>1, <1>3, <1>4, <1>5 DEF TasksArePending, TypeOK
<1>10. WaitersArePending'
  BY <1>1, <1>3, <1>4, <1>5 DEF WaitersArePending, TypeOK
<1>11. ResumeIsFirst'
  BY <1>1, <1>3, <1>4 DEF ResumeIsFirst
<1>12. WokenIsScheduled'
  BY <1>1, <1>3, <1>4 DEF WokenIsScheduled
<1>13. CallsAreOwn'
  BY <1>1 DEF CallsAreOwn, DevicesOf, TypeOK
<1>14. NoLostWakeup'
  BY <1>1, <1>4 DEF NoLostWakeup
<1> QED BY <1>6, <1>7, <1>8, <1>9, <1>10, <1>11, <1>12, <1>13, <1>14

LEMMA ReturnInv ==
    ASSUME LockInv, NEW w \in Workers, EnterReturns(w) \/ LeaveReturns(w)
    PROVE  LockInv'
<1> USE DEF LockInv
<1>1. /\ pc[w] \in {"acquiring", "releasing"} /\ pending[w] = {}
      /\ pc' = [pc EXCEPT ![w] = "running"]
      /\ depth' = [depth EXCEPT ![w] = depth'[w]]
      /\ depth'[w] \in 0..MaxDepth
      /\ UNCHANGED <<locked, owner, waiters, woken, ready, pending>>
  <2>1. depth[w] \in 0..MaxDepth /\ MaxDepth \in Nat
    BY MaxDepthAssumption DEF TypeOK
  <2>2. CASE EnterReturns(w)
    BY <2>1, <2>2 DEF EnterReturns, lockVars, CallsAreOwn, TypeOK
  <2>3. CASE LeaveReturns(w)
    BY <2>1, <2>3 DEF LeaveReturns, lockVars, CallsAreOwn, TypeOK
  <2> QED BY <2>2, <2>3
<1>2. TypeOK'
  BY <1>1 DEF TypeOK
<1>3. /\ LockedIffOwned' /\ ReadyIsUnique' /\ ResumeIsFirst'
      /\ WokenIsScheduled' /\ NoLostWakeup'
  BY <1>1 DEF LockedIffOwned, ReadyIsUnique, ResumeIsFirst, WokenIsScheduled, NoLostWakeup
<1>4. TasksArePending'
  BY <1>1 DEF TasksArePending, TypeOK
<1>5. WaitersArePending'
  BY <1>1 DEF WaitersArePending, TypeOK
<1>6. CallsAreOwn'
  BY <1>1 DEF CallsAreOwn, DevicesOf, TypeOK
<1> QED BY <1>2, <1>3, <1>4, <1>5, <1>6

-----------------------------------------------------------------------------
(* The steps of the manager's event loop. *)

LEMMA AcquireOwnedInv ==
    ASSUME LockInv, NEW w \in Workers, NEW d \in Devices,
           IsNext("acquire", w, d), AcquireOwned(w, d)
    PROVE  LockInv'
<1> USE DEF LockInv
<1>1. /\ owner[d] = w
      /\ ready' = Tail(ready)
      /\ pending' = [pending EXCEPT ![w] = @ \ {d}]
      /\ UNCHANGED <<locked, owner, waiters, woken, pc, depth>>
  BY DEF AcquireOwned, Finish, lockVars
<1>2. /\ ready' \in Seq(AllTasks)
      /\ Unique(ready')
      /\ Has(ready, Task("acquire", w, d))
      /\ \A e : Has(ready', e) <=> Has(ready, e) /\ e # Task("acquire", w, d)
  BY <1>1, PopFacts DEF Kinds
<1>3. \A k, v, c : Task(k, v, c) = Task("acquire", w, d) <=> k = "acquire" /\ v = w /\ c = d
  BY TaskEqual
<1>4. pc[w] = "acquiring" /\ ~Has(waiters[d], w)
  BY <1>2 DEF TasksArePending, WaitersArePending
<1>5. TypeOK'
  BY <1>1, <1>2 DEF TypeOK, AllTasks
<1>6. LockedIffOwned' /\ ReadyIsUnique'
  BY <1>1, <1>2 DEF LockedIffOwned, ReadyIsUnique
<1>7. TasksArePending'
  BY <1>1, <1>2, <1>3, <1>4 DEF TasksArePending, TypeOK
<1>8. WaitersArePending'
  BY <1>1, <1>2, <1>3, <1>4 DEF WaitersArePending, TypeOK
<1>9. ResumeIsFirst' /\ WokenIsScheduled'
  BY <1>1, <1>2, <1>3 DEF ResumeIsFirst, WokenIsScheduled
<1>10. CallsAreOwn'
  BY <1>1 DEF CallsAreOwn, DevicesOf, TypeOK
<1>11. NoLostWakeup'
  BY <1>1, <1>2, <1>3 DEF NoLostWakeup
<1> QED BY <1>5, <1>6, <1>7, <1>8, <1>9, <1>10, <1>11

LEMMA AcquireFreeInv ==
    ASSUME LockInv, NEW w \in Workers, NEW d \in Devices,
           IsNext("acquire", w, d), AcquireFree(w, d)
    PROVE  LockInv'
<1> USE DEF LockInv
<1>1. /\ ~locked[d] /\ waiters[d] = <<>>
      /\ locked' = [locked EXCEPT ![d] = TRUE]
      /\ owner' = [owner EXCEPT ![d] = w]
      /\ ready' = Tail(ready)
      /\ pending' = [pending EXCEPT ![w] = @ \ {d}]
      /\ UNCHANGED <<waiters, woken, pc, depth>>
  BY DEF AcquireFree, Finish
<1>2. /\ ready' \in Seq(AllTasks)
      /\ Unique(ready')
      /\ Has(ready, Task("acquire", w, d))
      /\ \A e : Has(ready', e) <=> Has(ready, e) /\ e # Task("acquire", w, d)
  BY <1>1, PopFacts DEF Kinds
<1>3. \A k, v, c : Task(k, v, c) = Task("acquire", w, d) <=> k = "acquire" /\ v = w /\ c = d
  BY TaskEqual
<1>4. pc[w] = "acquiring" /\ ~Has(waiters[d], w)
  BY <1>2 DEF TasksArePending, WaitersArePending
<1>5. \A v \in Workers : ~Has(ready, Task("resume", v, d))
  BY <1>1 DEF ResumeIsFirst
<1>6. TypeOK'
  BY <1>1, <1>2 DEF TypeOK, AllTasks
<1>7. LockedIffOwned' /\ ReadyIsUnique'
  BY <1>1, <1>2, WorkersAssumption DEF LockedIffOwned, ReadyIsUnique, TypeOK
<1>8. TasksArePending'
  BY <1>1, <1>2, <1>3, <1>4 DEF TasksArePending, TypeOK
<1>9. WaitersArePending'
  BY <1>1, <1>2, <1>3, <1>4 DEF WaitersArePending, TypeOK
<1>10. ResumeIsFirst' /\ WokenIsScheduled'
  BY <1>1, <1>2, <1>3, <1>5 DEF ResumeIsFirst, WokenIsScheduled, TypeOK
<1>11. CallsAreOwn'
  BY <1>1 DEF CallsAreOwn, DevicesOf, TypeOK
<1>12. NoLostWakeup'
  BY <1>1, <1>2, <1>3, SMTT(30) DEF NoLostWakeup, TypeOK
<1> QED BY <1>6, <1>7, <1>8, <1>9, <1>10, <1>11, <1>12

LEMMA AcquireWaitInv ==
    ASSUME LockInv, NEW w \in Workers, NEW d \in Devices,
           IsNext("acquire", w, d), AcquireWait(w, d)
    PROVE  LockInv'
<1> USE DEF LockInv
<1>1. /\ locked[d] \/ waiters[d] # <<>>
      /\ waiters' = [waiters EXCEPT ![d] = Append(@, w)]
      /\ ready' = Tail(ready)
      /\ UNCHANGED <<locked, owner, woken, pc, depth, pending>>
  BY DEF AcquireWait, callerVars
<1>2. /\ ready' \in Seq(AllTasks)
      /\ Unique(ready')
      /\ Has(ready, Task("acquire", w, d))
      /\ \A e : Has(ready', e) <=> Has(ready, e) /\ e # Task("acquire", w, d)
  BY <1>1, PopFacts DEF Kinds
<1>3. \A k, v, c : Task(k, v, c) = Task("acquire", w, d) <=> k = "acquire" /\ v = w /\ c = d
  BY TaskEqual
<1>4. pc[w] = "acquiring" /\ d \in pending[w] /\ ~Has(waiters[d], w)
  BY <1>2 DEF TasksArePending, WaitersArePending
<1>5. /\ waiters'[d] \in Seq(Workers)
      /\ waiters'[d] # <<>>
      /\ Unique(waiters'[d])
      /\ \A e : Has(waiters'[d], e) <=> Has(waiters[d], e) \/ e = w
      /\ waiters[d] # <<>> => Head(waiters'[d]) = Head(waiters[d])
      /\ \A c \in Devices : c # d => waiters'[c] = waiters[c]
  <2>1. waiters[d] \in Seq(Workers) /\ Unique(waiters[d])
    BY DEF TypeOK, WaitersArePending
  <2>2. waiters'[d] = Append(waiters[d], w)
    BY <1>1 DEF TypeOK
  <2>3. \A c \in Devices : c # d => waiters'[c] = waiters[c]
    BY <1>1 DEF TypeOK
  <2> DEFINE a == Append(waiters[d], w)
  <2>4. /\ a \in Seq(Workers)
        /\ a # <<>>
        /\ Unique(a)
        /\ \A e : Has(a, e) <=> Has(waiters[d], e) \/ e = w
        /\ waiters[d] # <<>> => Head(a) = Head(waiters[d])
    BY <1>4, <2>1, AppendFacts
  <2> HIDE DEF a
  <2>5. waiters'[d] = a
    BY <2>2 DEF a
  <2> QED BY <2>3, <2>4, <2>5
<1>6. TypeOK'
  BY <1>1, <1>2, <1>5 DEF TypeOK, AllTasks
<1>7. LockedIffOwned' /\ ReadyIsUnique'
  BY <1>1, <1>2 DEF LockedIffOwned, ReadyIsUnique
<1>8. TasksArePending'
  BY <1>1, <1>2 DEF TasksArePending
<1>9. WaitersArePending'
  BY <1>1, <1>2, <1>3, <1>4, <1>5 DEF WaitersArePending
<1>10. ResumeIsFirst' /\ WokenIsScheduled'
  BY <1>1, <1>2, <1>3, <1>5 DEF ResumeIsFirst, WokenIsScheduled
<1>11. CallsAreOwn'
  BY <1>1 DEF CallsAreOwn, DevicesOf
<1>12. NoLostWakeup'
  BY <1>1, <1>2, <1>3, <1>5 DEF NoLostWakeup
<1> QED BY <1>6, <1>7, <1>8, <1>9, <1>10, <1>11, <1>12

LEMMA ResumeInv ==
    ASSUME LockInv, NEW w \in Workers, NEW d \in Devices,
           IsNext("resume", w, d), Resume(w, d)
    PROVE  LockInv'
<1> USE DEF LockInv
<1>1. PICK i \in DOMAIN waiters[d] :
        /\ waiters[d][i] = w
        /\ waiters' = [waiters EXCEPT ![d] = RemoveAtIndex(@, i)]
  BY DEF Resume
<1>2. /\ woken' = [woken EXCEPT ![d] = @ \ {w}]
      /\ locked' = [locked EXCEPT ![d] = TRUE]
      /\ owner' = [owner EXCEPT ![d] = w]
      /\ ready' = Tail(ready)
      /\ pending' = [pending EXCEPT ![w] = @ \ {d}]
      /\ UNCHANGED <<pc, depth>>
  BY DEF Resume, Finish
<1>3. /\ ready' \in Seq(AllTasks)
      /\ Unique(ready')
      /\ Has(ready, Task("resume", w, d))
      /\ \A e : Has(ready', e) <=> Has(ready, e) /\ e # Task("resume", w, d)
  BY <1>2, PopFacts DEF Kinds
<1>4. \A k, v, c : Task(k, v, c) = Task("resume", w, d) <=> k = "resume" /\ v = w /\ c = d
  BY TaskEqual
<1>5. /\ Has(waiters[d], w)
      /\ pc[w] = "acquiring" /\ d \in pending[w]
      /\ ~Has(ready, Task("acquire", w, d))
  BY <1>1 DEF Has, WaitersArePending
<1>6. /\ waiters'[d] \in Seq(Workers)
      /\ Unique(waiters'[d])
      /\ \A e : Has(waiters'[d], e) <=> Has(waiters[d], e) /\ e # w
      /\ \A c \in Devices : c # d => waiters'[c] = waiters[c]
  <2>1. waiters[d] \in Seq(Workers) /\ Unique(waiters[d])
    BY DEF TypeOK, WaitersArePending
  <2>2. waiters'[d] = RemoveAtIndex(waiters[d], i)
    BY <1>1 DEF TypeOK
  <2> QED BY <1>1, <2>1, <2>2, RemoveFacts DEF TypeOK
<1>7. \A v \in Workers : Has(ready, Task("resume", v, d)) => v = w
  BY <1>3 DEF ResumeIsFirst
<1>8. TypeOK'
  BY <1>1, <1>2, <1>3, <1>6 DEF TypeOK, AllTasks
<1>9. LockedIffOwned' /\ ReadyIsUnique'
  BY <1>2, <1>3, WorkersAssumption DEF LockedIffOwned, ReadyIsUnique, TypeOK
<1>10. TasksArePending'
  BY <1>2, <1>3, <1>5 DEF TasksArePending, TypeOK
<1>11. WaitersArePending'
  BY <1>2, <1>3, <1>6 DEF WaitersArePending, TypeOK
<1>12. ResumeIsFirst'
  BY <1>2, <1>3, <1>4, <1>6, <1>7 DEF ResumeIsFirst, TypeOK
<1>13. WokenIsScheduled'
  BY <1>2, <1>3, <1>4, SMTT(30) DEF WokenIsScheduled, TypeOK
<1>14. CallsAreOwn'
  BY <1>2 DEF CallsAreOwn, DevicesOf, TypeOK
<1>15. NoLostWakeup'
  BY <1>2, <1>3, <1>4, <1>6, SMTT(30) DEF NoLostWakeup, TypeOK
<1> QED BY <1>8, <1>9, <1>10, <1>11, <1>12, <1>13, <1>14, <1>15

LEMMA ReleaseInv ==
    ASSUME LockInv, NEW w \in Workers, NEW d \in Devices,
           IsNext("release", w, d), Release(w, d)
    PROVE  LockInv'
<1> USE DEF LockInv
<1> DEFINE h == Head(waiters[d])
           r == Tail(ready)
<1>1. /\ locked' = [locked EXCEPT ![d] = FALSE]
      /\ owner' = [owner EXCEPT ![d] = NoWorker]
      /\ WakeUpFirst(d)
      /\ pending' = [pending EXCEPT ![w] = @ \ {d}]
      /\ UNCHANGED <<waiters, pc, depth>>
  BY DEF Release, Finish
<1>2. /\ r \in Seq(AllTasks)
      /\ Unique(r)
      /\ Has(ready, Task("release", w, d))
      /\ \A e : Has(r, e) <=> Has(ready, e) /\ e # Task("release", w, d)
  BY PopFacts DEF Kinds
<1> HIDE DEF r
<1>3. \A k, v, c : /\ Task(k, v, c) = Task("release", w, d) <=> k = "release" /\ v = w /\ c = d
                   /\ Task(k, v, c) = Task("resume", h, d) <=> k = "resume" /\ v = h /\ c = d
  BY TaskEqual
(* The releaser owns the lock, so nobody is being resumed at it. *)
<1>4. pc[w] \in {"releasing", "failed"}
  BY <1>2 DEF TasksArePending
<1>5. /\ owner[d] = w
      /\ \A v \in Workers : ~Has(ready, Task("resume", v, d))
      /\ \A v \in Workers : v \notin woken[d]
  BY WorkersAssumption
     DEF Release, MayRelease, LockedIffOwned, ResumeIsFirst, WokenIsScheduled
<1>6. CASE waiters[d] # <<>>
  <2>1. /\ h \in Workers
        /\ h \notin woken[d]
        /\ Task("resume", h, d) \in AllTasks
    <3>1. waiters[d] \in Seq(Workers)
      BY DEF TypeOK
    <3>2. h \in Workers
      BY <1>6, <3>1, HeadTailProperties, EmptySeq
    <3> QED BY <1>5, <3>2, TaskType DEF Kinds
  <2>2. /\ woken' = [woken EXCEPT ![d] = @ \cup {h}]
        /\ ready' = Append(r, Task("resume", h, d))
    BY <1>1, <1>6, <2>1 DEF WakeUpFirst, r
  <2> HIDE DEF h
  <2>3. ~Has(r, Task("resume", h, d))
    BY <1>2, <1>5, <2>1
  <2>4. /\ ready' \in Seq(AllTasks)
        /\ Unique(ready')
        /\ \A e : Has(ready', e) <=> Has(r, e) \/ e = Task("resume", h, d)
    BY <1>2, <2>1, <2>2, <2>3, AppendFacts
  <2>5. TypeOK'
    BY <1>1, <2>1, <2>2, <2>4 DEF TypeOK, AllTasks
  <2>6. LockedIffOwned' /\ ReadyIsUnique'
    BY <1>1, <2>4 DEF LockedIffOwned, ReadyIsUnique, TypeOK
  <2>7. TasksArePending'
    BY <1>1, <1>2, <1>3, <1>4, <2>4 DEF TasksArePending, TypeOK
  <2>8. WaitersArePending'
    BY <1>1, <1>2, <1>3, <1>4, <2>4 DEF WaitersArePending, TypeOK
  <2>9. ResumeIsFirst'
    BY <1>1, <1>2, <1>3, <1>5, <1>6, <2>4 DEF ResumeIsFirst, TypeOK, h
  <2>10. WokenIsScheduled'
    BY <1>1, <1>2, <1>3, <2>2, <2>4 DEF WokenIsScheduled, TypeOK
  <2>11. CallsAreOwn'
    BY <1>1 DEF CallsAreOwn, DevicesOf, TypeOK
  <2>12. NoLostWakeup'
    BY <1>1, <1>2, <1>3, <2>4 DEF NoLostWakeup, TypeOK, h
  <2> QED BY <2>5, <2>6, <2>7, <2>8, <2>9, <2>10, <2>11, <2>12
<1>7. CASE waiters[d] = <<>>
  <2>1. ready' = r /\ woken' = woken
    BY <1>1, <1>7 DEF WakeUpFirst, r
  <2>2. TypeOK'
    BY <1>1, <1>2, <2>1 DEF TypeOK, AllTasks
  <2>3. LockedIffOwned' /\ ReadyIsUnique'
    BY <1>1, <1>2, <2>1 DEF LockedIffOwned, ReadyIsUnique, TypeOK
  <2>4. TasksArePending'
    BY <1>1, <1>2, <1>3, <1>4, <2>1 DEF TasksArePending, TypeOK
  <2>5. WaitersArePending'
    BY <1>1, <1>2, <1>3, <1>4, <2>1 DEF WaitersArePending, TypeOK
  <2>6. ResumeIsFirst' /\ WokenIsScheduled'
    BY <1>1, <1>2, <1>3, <2>1 DEF ResumeIsFirst, WokenIsScheduled, TypeOK
  <2>7. CallsAreOwn'
    BY <1>1 DEF CallsAreOwn, DevicesOf, TypeOK
  <2>8. NoLostWakeup'
    BY <1>1, <1>2, <1>3, <1>7, <2>1 DEF NoLostWakeup, TypeOK
  <2> QED BY <2>2, <2>3, <2>4, <2>5, <2>6, <2>7, <2>8
<1> QED BY <1>6, <1>7

(* A release that raises ends its worker and leaves the locks alone. *)
LEMMA ReleaseRaisesInv ==
    ASSUME LockInv, NEW w \in Workers, NEW d \in Devices,
           IsNext("release", w, d), ReleaseRaises(w, d)
    PROVE  LockInv'
<1> USE DEF LockInv
<1>1. /\ ready' = Tail(ready)
      /\ pc' = [pc EXCEPT ![w] = "failed"]
      /\ depth' = [depth EXCEPT ![w] = 0]
      /\ pending' = [pending EXCEPT ![w] = @ \ {d}]
      /\ UNCHANGED <<locked, owner, waiters, woken>>
  BY DEF ReleaseRaises, Finish, lockVars
<1>2. /\ ready' \in Seq(AllTasks)
      /\ Unique(ready')
      /\ Has(ready, Task("release", w, d))
      /\ \A e : Has(ready', e) <=> Has(ready, e) /\ e # Task("release", w, d)
  BY <1>1, PopFacts DEF Kinds
<1>3. \A k, v, c : Task(k, v, c) = Task("release", w, d) <=> k = "release" /\ v = w /\ c = d
  BY TaskEqual
<1>4. pc[w] \in {"releasing", "failed"}
  BY <1>2 DEF TasksArePending
<1>5. TypeOK'
  BY <1>1, <1>2, MaxDepthAssumption DEF TypeOK, AllTasks
<1>6. LockedIffOwned' /\ ReadyIsUnique'
  BY <1>1, <1>2 DEF LockedIffOwned, ReadyIsUnique
<1>7. TasksArePending'
  BY <1>1, <1>2, <1>3, <1>4 DEF TasksArePending, TypeOK
<1>8. WaitersArePending'
  BY <1>1, <1>2, <1>4 DEF WaitersArePending, TypeOK
<1>9. ResumeIsFirst' /\ WokenIsScheduled'
  BY <1>1, <1>2, <1>3 DEF ResumeIsFirst, WokenIsScheduled
<1>10. CallsAreOwn'
  BY <1>1 DEF CallsAreOwn, DevicesOf, TypeOK
<1>11. NoLostWakeup'
  BY <1>1, <1>2, <1>3 DEF NoLostWakeup
<1> QED BY <1>5, <1>6, <1>7, <1>8, <1>9, <1>10, <1>11

LEMMA StepInv == LockInv /\ [Next]_vars => LockInv'
<1> SUFFICES ASSUME LockInv, [Next]_vars PROVE LockInv'
  OBVIOUS
<1>1. CASE UNCHANGED vars
  BY <1>1 DEF vars, lockVars, callerVars, LockInv, TypeOK, LockedIffOwned, ReadyIsUnique,
     TasksArePending, WaitersArePending, ResumeIsFirst, WokenIsScheduled, DevicesOf,
     CallsAreOwn, NoLostWakeup
<1>2. ASSUME NEW w \in Workers, WorkerStep(w) PROVE LockInv'
  BY <1>2, EnterInv, LeaveInv, ReturnInv DEF WorkerStep
<1>3. CASE RunReady
  <2>1. PICK w \in Workers, d \in Devices :
          \/ IsNext("acquire", w, d) /\ Acquire(w, d)
          \/ IsNext("resume", w, d) /\ Resume(w, d)
          \/ IsNext("release", w, d) /\ (Release(w, d) \/ ReleaseRaises(w, d))
    BY <1>3 DEF RunReady
  <2> QED BY <2>1, AcquireOwnedInv, AcquireFreeInv, AcquireWaitInv, ResumeInv,
             ReleaseInv, ReleaseRaisesInv DEF Acquire
<1> QED BY <1>1, <1>2, <1>3 DEF Next

-----------------------------------------------------------------------------
(* Blocks that are not nested.                                              *)

LEMMA CallDepth ==
    ASSUME NotNested, LockInv, NEW w \in Workers
    PROVE  /\ pc[w] = "acquiring" => depth[w] = 0 /\ depth[w] + 1 = 1
           /\ pc[w] = "releasing" => depth[w] = 1 /\ depth[w] - 1 = 0
<1>1. depth[w] \in 0..1 /\ MaxDepth = 1
  BY DEF NotNested, LockInv, TypeOK
<1> QED BY <1>1 DEF LockInv, CallsAreOwn

(* With blocks that are not nested only the owner releases. *)
LEMMA NoReleaseRaises ==
    ASSUME NotNested, IInv, NEW w \in Workers, NEW d \in Devices,
           IsNext("release", w, d)
    PROVE  ~ReleaseRaises(w, d)
<1> USE DEF IInv, LockInv, HolderInv
<1>1. pc[w] = "releasing" /\ d \in pending[w] /\ d \in DevicesOf(w)
  BY PopFacts DEF Kinds, TasksArePending, ReleaseNeverRaises, CallsAreOwn
<1>2. owner[d] = w
  BY <1>1 DEF HolderOwns, Holds
<1> QED BY <1>2, WorkersAssumption DEF ReleaseRaises, MayRelease, LockedIffOwned

(* Whoever has finished acquiring keeps what it owns until it releases it. *)
LEMMA HolderStep == NotNested /\ IInv /\ [Next]_vars => HolderInv'
<1> SUFFICES ASSUME NotNested, IInv, [Next]_vars PROVE HolderInv'
  OBVIOUS
<1> USE DEF IInv, LockInv, HolderInv
<1>1. \A w \in Workers : depth[w] \in 0..1 /\ MaxDepth = 1
  BY DEF NotNested, TypeOK
<1>2. CASE UNCHANGED vars
  BY <1>2 DEF vars, lockVars, callerVars, HolderOwns, Holds, DevicesOf, ReleaseNeverRaises
<1>3. ASSUME NEW w \in Workers, WorkerStep(w) PROVE HolderInv'
  <2>1. CASE Enter(w)
    BY <2>1 DEF Enter, Call, lockVars, HolderOwns, Holds, DevicesOf, ReleaseNeverRaises,
       TypeOK
  <2>2. CASE Leave(w)
    <3>1. pc[w] = "running" /\ depth[w] = 1
      BY <1>1, <2>2 DEF Leave
    <3> QED BY <2>2, <3>1 DEF Leave, Call, lockVars, HolderOwns, Holds, DevicesOf,
                              ReleaseNeverRaises, TypeOK
  <2>3. CASE EnterReturns(w)
    BY <2>3 DEF EnterReturns, lockVars, HolderOwns, Holds, DevicesOf, ReleaseNeverRaises,
       TypeOK
  <2>4. CASE LeaveReturns(w)
    <3>1. depth[w] = 1 /\ depth[w] - 1 # 1
      BY <1>1, <2>4 DEF LeaveReturns, CallsAreOwn
    <3> QED BY <2>4, <3>1 DEF LeaveReturns, lockVars, HolderOwns, Holds, DevicesOf,
                              ReleaseNeverRaises, TypeOK
  <2> QED BY <1>3, <2>1, <2>2, <2>3, <2>4 DEF WorkerStep
<1>4. ASSUME NEW w \in Workers, NEW d \in Devices, IsNext("acquire", w, d), Acquire(w, d)
      PROVE  HolderInv'
  <2>1. pc[w] = "acquiring"
    BY <1>4, PopFacts DEF Kinds, TasksArePending
  <2>2. CASE AcquireOwned(w, d)
    BY <2>1, <2>2 DEF AcquireOwned, Finish, lockVars, HolderOwns, Holds, DevicesOf,
       ReleaseNeverRaises, TypeOK
  <2>3. CASE AcquireFree(w, d)
    <3>1. \A v \in Workers : ~Holds(v, d)
      BY <2>3, WorkersAssumption DEF AcquireFree, LockedIffOwned, HolderOwns
    <3> QED BY <2>1, <2>3, <3>1 DEF AcquireFree, Finish, HolderOwns, Holds, DevicesOf,
                                    ReleaseNeverRaises, TypeOK
  <2>4. CASE AcquireWait(w, d)
    BY <2>4 DEF AcquireWait, callerVars, HolderOwns, Holds, DevicesOf, ReleaseNeverRaises
  <2> QED BY <1>4, <2>2, <2>3, <2>4 DEF Acquire
<1>5. ASSUME NEW w \in Workers, NEW d \in Devices, IsNext("resume", w, d), Resume(w, d)
      PROVE  HolderInv'
  <2>1. /\ owner' = [owner EXCEPT ![d] = w]
        /\ pending' = [pending EXCEPT ![w] = @ \ {d}]
        /\ UNCHANGED <<pc, depth>>
    BY <1>5 DEF Resume, Finish
  <2>2. pc[w] = "acquiring" /\ owner[d] = NoWorker
    BY <1>5, PopFacts DEF Resume, Has, WaitersArePending, Kinds, ResumeIsFirst
  <2>3. \A v \in Workers : ~Holds(v, d)
    BY <2>2, WorkersAssumption DEF HolderOwns
  <2> QED BY <2>1, <2>2, <2>3 DEF HolderOwns, Holds, DevicesOf, ReleaseNeverRaises, TypeOK
<1>6. ASSUME NEW w \in Workers, NEW d \in Devices, IsNext("release", w, d), Release(w, d)
      PROVE  HolderInv'
  <2>1. /\ owner' = [owner EXCEPT ![d] = NoWorker]
        /\ pending' = [pending EXCEPT ![w] = @ \ {d}]
        /\ UNCHANGED <<pc, depth>>
    BY <1>6 DEF Release, Finish
  <2>2. pc[w] = "releasing"
    BY <1>6, PopFacts DEF Kinds, TasksArePending, ReleaseNeverRaises
  <2>3. \A v \in Workers : v # w => ~Holds(v, d)
    BY <1>6, WorkersAssumption DEF Release, MayRelease, HolderOwns
  <2> QED BY <2>1, <2>2, <2>3 DEF HolderOwns, Holds, DevicesOf, ReleaseNeverRaises, TypeOK
<1>7. CASE RunReady
  BY <1>4, <1>5, <1>6, <1>7, NoReleaseRaises DEF RunReady
<1> QED BY <1>2, <1>3, <1>7 DEF Next

-----------------------------------------------------------------------------
(* What holds of the manager whatever its callers do: its locks agree with  *)
(* their owners, and every task and every waiter belongs to a call.         *)
THEOREM Invariant == Spec => []LockInv
<1> QED BY InitInv, StepInv, PTL DEF Spec

(* WorkerDeviceLock keeps its fields in their types. *)
THEOREM TypeCorrect == Spec => []TypeOK
<1>1. LockInv => TypeOK
  BY DEF LockInv
<1> QED BY <1>1, Invariant, PTL

(* The assertion in WorkerDeviceLock.acquire never fails, however deep      *)
(* blocks are nested and whoever releases.                                  *)
THEOREM AssertionHolds == Spec => []ResumeFindsNoOwner
<1>1. LockInv => ResumeFindsNoOwner
  BY DEF LockInv, ResumeFindsNoOwner, ResumeIsFirst, LockedIffOwned
<1> QED BY <1>1, Invariant, PTL

(* A free accelerator that workers wait for is about to be handed on,       *)
(* however deep blocks are nested and whoever releases.                     *)
THEOREM NoWakeupIsLost == Spec => []NoLostWakeup
<1>1. LockInv => NoLostWakeup
  BY DEF LockInv
<1> QED BY <1>1, Invariant, PTL

LEMMA NotNestedInvariant ==
    ASSUME NotNested
    PROVE  Spec => []IInv
<1>1. Init => IInv
  BY InitInv DEF IInv
<1>2. IInv /\ [Next]_vars => IInv'
  BY NotNested, StepInv, HolderStep DEF IInv
<1> QED BY <1>1, <1>2, PTL DEF Spec

(* Two workers inside their `with device_lock` blocks never share an        *)
(* accelerator, however many workers there are and whatever their lists of  *)
(* accelerators: each of them owns the lock of every accelerator it uses.   *)
THEOREM Exclusion ==
    ASSUME NotNested
    PROVE  Spec => []MutualExclusion
<1>1. IInv => MutualExclusion
  <2> SUFFICES ASSUME IInv,
                      NEW v \in Workers, NEW w \in Workers, v # w,
                      InBlock(v), InBlock(w),
                      NEW d \in DevicesOf(v) \cap DevicesOf(w)
               PROVE  FALSE
    BY DEF MutualExclusion
  <2>1. ASSUME NEW u \in Workers, InBlock(u) PROVE pc[u] = "running" /\ depth[u] = 1
    <3>1. /\ depth[u] \in 0..1
          /\ pc[u] \in {"running", "acquiring", "releasing"}
          /\ pc[u] = "acquiring" => depth[u] < 1
      BY NotNested DEF NotNested, IInv, LockInv, HolderInv, CallsAreOwn, ReleaseNeverRaises,
                       TypeOK
    <3>2. depth[u] > IF pc[u] = "releasing" THEN 1 ELSE 0
      BY <2>1 DEF InBlock
    <3> QED BY <3>1, <3>2
  <2>2. d \in Devices
    <3>1. DevicesOf(v) \subseteq Devices
      BY DevicesOfType
    <3> QED BY <3>1
  <2>3. Holds(v, d) /\ Holds(w, d)
    BY <2>1 DEF Holds
  <2> QED BY <2>2, <2>3 DEF IInv, HolderInv, HolderOwns
<1> QED BY NotNested, <1>1, NotNestedInvariant, PTL

(* No release of a worker that leaves the blocks it entered raises. *)
THEOREM ReleaseSucceeds ==
    ASSUME NotNested
    PROVE  Spec => []ReleaseNeverRaises
<1>1. IInv => ReleaseNeverRaises
  BY DEF IInv, HolderInv
<1> QED BY NotNested, <1>1, NotNestedInvariant, PTL

-----------------------------------------------------------------------------
(* DeviceLock implements ExclusiveDevices: every step of the manager, its   *)
(* loop and its workers is a step of the abstract specification or leaves   *)
(* the workers' view alone.  What takes work is the return of an acquire,   *)
(* which must find that nobody ahead wants an accelerator of the worker.    *)

(* asked holds the workers whose acquire has begun and whose release has    *)
(* not, each once.                                                          *)
AskedIsOpen ==
    /\ asked \in Seq(Workers)
    /\ Unique(asked)
    /\ \A w \in Workers :
        Has(asked, w) <=> pc[w] = "acquiring" \/ (pc[w] = "running" /\ depth[w] = 1)

(* An accelerator that an acquire still waits for has its task in ready or  *)
(* its worker among the waiters.                                            *)
PendingIsTracked ==
    \A w \in Workers, d \in Devices :
        pc[w] = "acquiring" /\ d \in pending[w] =>
            Has(ready, Task("acquire", w, d)) \/ Has(waiters[d], w)

(* The converse of HolderOwns. *)
OwnerHolds == \A w \in Workers, d \in Devices : owner[d] = w => Holds(w, d)

(* v reaches accelerator d before w does: w still waits for it, behind v    *)
(* among the waiters or among the tasks, or with v holding it.              *)
Precedes(v, w, d) ==
    /\ pc[w] = "acquiring"
    /\ d \in pending[w]
    /\ Has(waiters[d], w) =>
        /\ ~Has(ready, Task("acquire", v, d))
        /\ Has(waiters[d], v) => Before(waiters[d], v, w)
    /\ Has(ready, Task("acquire", w, d)) /\ Has(ready, Task("acquire", v, d)) =>
        Before(ready, Task("acquire", v, d), Task("acquire", w, d))

(* The order of asking decides at every shared accelerator. *)
ServedInOrder ==
    \A v, w \in Workers : Before(asked, v, w) =>
        \A d \in DevicesOf(v) \cap DevicesOf(w) : Precedes(v, w, d)

OrderInv == AskedIsOpen /\ PendingIsTracked /\ OwnerHolds /\ ServedInOrder

(* How far the tasks that are in ready have an order of their own. *)
LEMMA PopOrder ==
    ASSUME TypeOK, ReadyIsUnique,
           NEW k \in Kinds, NEW w \in Workers, NEW d \in Devices, IsNext(k, w, d)
    PROVE  /\ \A a, b : Before(Tail(ready), a, b) <=>
                            Before(ready, a, b) /\ a # Task(k, w, d)
           /\ \A a : ~Before(ready, a, Task(k, w, d))
<1>1. ready \in Seq(AllTasks)
  BY DEF TypeOK, AllTasks
<1> QED BY <1>1, TailOrder DEF ReadyIsUnique, IsNext

(* A call of w keeps the order of what it finds in ready. *)
LEMMA CallOrder ==
    ASSUME TypeOK, NEW k \in Kinds, NEW w \in Workers, ready' = ready \o Gather(k, w)
    PROVE  /\ \A e : Has(ready', e) <=>
                        Has(ready, e) \/ \E d \in DevicesOf(w) : e = Task(k, w, d)
           /\ \A a, b : Before(ready, a, b) => Before(ready', a, b)
           /\ \A a, d : Has(ready, a) /\ d \in DevicesOf(w) =>
                            Before(ready', a, Task(k, w, d))
<1>1. ready \in Seq(AllTasks) /\ Gather(k, w) \in Seq(AllTasks)
  BY GatherFacts DEF TypeOK, AllTasks
<1>2. \A e : Has(Gather(k, w), e) <=> \E d \in DevicesOf(w) : e = Task(k, w, d)
  BY GatherFacts
<1>3. \A e : Has(ready', e) <=> Has(ready, e) \/ Has(Gather(k, w), e)
  BY <1>1, ConcatFacts
<1>4. \A a, b : Before(ready, a, b) \/ (Has(ready, a) /\ Has(Gather(k, w), b)) =>
                    Before(ready', a, b)
  BY <1>1, ConcatOrder
<1> QED BY <1>2, <1>3, <1>4

LEMMA AheadIsOther ==
    ASSUME AskedIsOpen, NEW v \in Workers, NEW w \in Workers, Before(asked, v, w)
    PROVE  v # w /\ Has(asked, v) /\ Has(asked, w)
<1>1. asked \in Seq(Workers) /\ DOMAIN asked = 1..Len(asked)
  BY LenProperties DEF AskedIsOpen
<1>2. PICK i \in DOMAIN asked, j \in DOMAIN asked : i < j /\ asked[i] = v /\ asked[j] = w
  BY DEF Before
<1>3. i # j
  BY <1>1, <1>2
<1> QED BY <1>2, <1>3 DEF AskedIsOpen, Unique, Has

LEMMA InitOrder == HInit => OrderInv
<1> SUFFICES ASSUME HInit PROVE OrderInv
  OBVIOUS
<1>1. AskedIsOpen
  BY DEF HInit, Init, AskedIsOpen, Unique, Has
<1>2. PendingIsTracked
  BY DEF HInit, Init, PendingIsTracked
<1>3. OwnerHolds
  BY WorkersAssumption DEF HInit, Init, OwnerHolds
<1>4. ServedInOrder
  BY DEF HInit, ServedInOrder, Before
<1> QED BY <1>1, <1>2, <1>3, <1>4 DEF OrderInv

(* Whoever asks goes to the end of asked and its tasks to the end of ready. *)
LEMMA EnterOrder ==
    ASSUME NotNested, IInv, OrderInv,
           NEW w \in Workers, Enter(w), asked' = Append(asked, w)
    PROVE  OrderInv'
<1> USE DEF IInv, LockInv, HolderInv, OrderInv
<1>1. /\ pc[w] = "running" /\ depth[w] = 0
      /\ ready' = ready \o Gather("acquire", w)
      /\ pc' = [pc EXCEPT ![w] = "acquiring"]
      /\ pending' = [pending EXCEPT ![w] = DevicesOf(w)]
      /\ UNCHANGED <<locked, owner, waiters, woken, depth>>
  BY DEF Enter, Call, lockVars, NotNested, TypeOK
<1>2. /\ \A e : Has(ready', e) <=>
                    Has(ready, e) \/ \E d \in DevicesOf(w) : e = Task("acquire", w, d)
      /\ \A a, b : Before(ready, a, b) => Before(ready', a, b)
      /\ \A a, d : Has(ready, a) /\ d \in DevicesOf(w) =>
                        Before(ready', a, Task("acquire", w, d))
  BY <1>1, CallOrder DEF Kinds
<1>3. ~Has(asked, w) /\ asked \in Seq(Workers) /\ Unique(asked)
  BY <1>1 DEF AskedIsOpen
<1>4. /\ asked' \in Seq(Workers) /\ Unique(asked')
      /\ \A v : Has(asked', v) <=> Has(asked, v) \/ v = w
      /\ \A u, v : Before(asked', u, v) <=> Before(asked, u, v) \/ (Has(asked, u) /\ v = w)
  BY <1>3, AppendFacts, AppendOrder
<1>5. AskedIsOpen'
  BY <1>1, <1>4 DEF AskedIsOpen, TypeOK
<1>6. PendingIsTracked'
  BY <1>1, <1>2 DEF PendingIsTracked, TypeOK
<1>7. OwnerHolds'
  BY <1>1 DEF OwnerHolds, Holds, TypeOK
<1>8. ServedInOrder'
  <2> SUFFICES ASSUME NEW v \in Workers, NEW u \in Workers, Before(asked', v, u),
                      NEW d \in DevicesOf(v) \cap DevicesOf(u)
               PROVE  Precedes(v, u, d)'
    BY DEF ServedInOrder, DevicesOf
  <2>1. d \in Devices
    BY DevicesOfType
  <2>2. \A x, c : Task("acquire", x, c) = Task("acquire", w, d) <=> x = w /\ c = d
    BY TaskEqual
  <2>3. CASE Before(asked, v, u)
    <3>1. v # w /\ u # w
      BY <1>3, <2>3, AheadIsOther
    <3>2. \A x, e : Task("acquire", v, d) # Task("acquire", w, e)
                 /\ Task("acquire", u, d) # Task("acquire", w, e)
      BY <3>1, TaskEqual
    <3>3. Precedes(v, u, d)
      BY <2>3 DEF ServedInOrder
    <3> QED BY <1>1, <1>2, <3>1, <3>2, <3>3 DEF Precedes, TypeOK
  <2>4. CASE Has(asked, v) /\ u = w
    <3>1. v # w
      BY <1>3, <2>4
    <3>2. \A e : Task("acquire", v, d) # Task("acquire", w, e)
      BY <3>1, TaskEqual
    <3>3. ~Has(waiters[d], w)
      BY <1>1, <2>1 DEF WaitersArePending
    <3> QED BY <1>1, <1>2, <2>4, <3>2, <3>3 DEF Precedes, TypeOK
  <2> QED BY <1>4, <2>3, <2>4
<1> QED BY <1>5, <1>6, <1>7, <1>8

LEMMA WithoutFacts ==
    ASSUME AskedIsOpen, NEW w \in Workers, Has(asked, w)
    PROVE  \E i \in DOMAIN asked :
                asked[i] = w /\ Without(asked, w) = RemoveAtIndex(asked, i)
<1> DEFINE i == CHOOSE i \in DOMAIN asked : asked[i] = w
<1>1. i \in DOMAIN asked /\ asked[i] = w
  BY DEF Has
<1> QED BY <1>1 DEF Without

(* Whoever leaves is taken out of asked and adds only release tasks. *)
LEMMA LeaveOrder ==
    ASSUME NotNested, IInv, OrderInv,
           NEW w \in Workers, Leave(w), asked' = Without(asked, w)
    PROVE  OrderInv'
<1> USE DEF IInv, LockInv, HolderInv, OrderInv
<1>1. /\ pc[w] = "running" /\ depth[w] = 1
      /\ ready' = ready \o Gather("release", w)
      /\ pc' = [pc EXCEPT ![w] = "releasing"]
      /\ pending' = [pending EXCEPT ![w] = DevicesOf(w)]
      /\ UNCHANGED <<locked, owner, waiters, woken, depth>>
  BY DEF Leave, Call, lockVars, NotNested, TypeOK
<1>2. /\ \A e : Has(ready', e) <=>
                    Has(ready, e) \/ \E d \in DevicesOf(w) : e = Task("release", w, d)
      /\ \A a, b : Before(ready, a, b) => Before(ready', a, b)
  BY <1>1, CallOrder DEF Kinds
<1>3. Has(asked, w) /\ asked \in Seq(Workers) /\ Unique(asked)
  BY <1>1 DEF AskedIsOpen
<1>4. PICK i \in DOMAIN asked : asked[i] = w /\ asked' = RemoveAtIndex(asked, i)
  BY <1>3, WithoutFacts
<1>5. /\ asked' \in Seq(Workers) /\ Unique(asked')
      /\ \A v : Has(asked', v) <=> Has(asked, v) /\ v # w
      /\ \A u, v : Before(asked', u, v) <=> Before(asked, u, v) /\ u # w /\ v # w
  BY <1>3, <1>4, RemoveFacts, RemoveOrder
<1>6. \A v, d, e : Task("acquire", v, d) # Task("release", w, e)
  BY TaskEqual
<1>7. AskedIsOpen'
  BY <1>1, <1>5 DEF AskedIsOpen, TypeOK
<1>8. PendingIsTracked'
  BY <1>1, <1>2 DEF PendingIsTracked, TypeOK
<1>9. OwnerHolds'
  BY <1>1, ZenonT(60) DEF OwnerHolds, Holds, DevicesOf, TypeOK
<1>10. ServedInOrder'
  <2> SUFFICES ASSUME NEW v \in Workers, NEW u \in Workers, Before(asked', v, u),
                      NEW d \in DevicesOf(v) \cap DevicesOf(u)
               PROVE  Precedes(v, u, d)'
    BY DEF ServedInOrder, DevicesOf
  <2>1. v # w /\ u # w /\ Precedes(v, u, d)
    BY <1>5 DEF ServedInOrder
  <2> QED BY <1>1, <1>2, <1>6, <2>1 DEF Precedes, TypeOK
<1> QED BY <1>7, <1>8, <1>9, <1>10

(* An acquire that returns has nothing pending, so nobody precedes it. *)
LEMMA ReturnOrder ==
    ASSUME NotNested, IInv, OrderInv,
           NEW w \in Workers, EnterReturns(w) \/ LeaveReturns(w), UNCHANGED asked
    PROVE  OrderInv'
<1> USE DEF IInv, LockInv, HolderInv, OrderInv
<1>1. /\ pc[w] \in {"acquiring", "releasing"} /\ pending[w] = {}
      /\ pc' = [pc EXCEPT ![w] = "running"]
      /\ depth' = [depth EXCEPT ![w] = IF pc[w] = "acquiring" THEN 1 ELSE 0]
      /\ UNCHANGED <<locked, owner, waiters, woken, ready, pending>>
  <2>1. CASE EnterReturns(w)
    BY <2>1, CallDepth DEF EnterReturns, lockVars
  <2>2. CASE LeaveReturns(w)
    BY <2>2, CallDepth DEF LeaveReturns, lockVars
  <2> QED BY <2>1, <2>2
<1>2. AskedIsOpen'
  BY <1>1 DEF AskedIsOpen, TypeOK
<1>3. PendingIsTracked'
  BY <1>1 DEF PendingIsTracked, TypeOK
<1>4. OwnerHolds'
  BY <1>1, ZenonT(60) DEF OwnerHolds, Holds, DevicesOf, TypeOK
<1>5. ServedInOrder'
  <2> SUFFICES ASSUME NEW v \in Workers, NEW u \in Workers, Before(asked, v, u),
                      NEW d \in DevicesOf(v) \cap DevicesOf(u)
               PROVE  Precedes(v, u, d)'
    BY DEF ServedInOrder, DevicesOf
  <2>1. Precedes(v, u, d)
    BY DEF ServedInOrder
  <2>2. u # w
    BY <1>1, <2>1 DEF Precedes
  <2> QED BY <1>1, <2>1, <2>2 DEF Precedes, TypeOK
<1> QED BY <1>2, <1>3, <1>4, <1>5

(* Nobody ahead of w in asked shares an accelerator that w is about to get: *)
(* it would hold it, be an earlier waiter or have an earlier task.          *)
LEMMA NobodyAhead ==
    ASSUME NotNested, IInv, OrderInv, NEW w \in Workers, NEW d \in Devices,
           ~locked[d],
           \/ IsNext("acquire", w, d) /\ waiters[d] = <<>>
           \/ IsNext("resume", w, d),
           NEW v \in Workers, Before(asked, v, w), d \in DevicesOf(v), d \in DevicesOf(w)
    PROVE  FALSE
<1> USE DEF IInv, LockInv, HolderInv, OrderInv
<1>1. Precedes(v, w, d) /\ Has(asked, v)
  BY AheadIsOther DEF ServedInOrder
<1>2. owner[d] = NoWorker /\ ~Holds(v, d)
  BY WorkersAssumption DEF LockedIffOwned, HolderOwns
<1>3. pc[v] = "acquiring" /\ d \in pending[v]
  BY <1>1, <1>2 DEF AskedIsOpen, Holds
<1>4. Has(ready, Task("acquire", v, d)) \/ Has(waiters[d], v)
  BY <1>3 DEF PendingIsTracked
<1>5. CASE IsNext("acquire", w, d) /\ waiters[d] = <<>>
  <2>1. /\ Has(ready, Task("acquire", w, d))
        /\ ~Before(ready, Task("acquire", v, d), Task("acquire", w, d))
    BY <1>5, PopFacts, PopOrder DEF Kinds
  <2>2. ~Has(waiters[d], v)
    BY <1>5 DEF Has
  <2> QED BY <1>1, <1>4, <2>1, <2>2 DEF Precedes
<1>6. CASE IsNext("resume", w, d)
  <2>1. Has(ready, Task("resume", w, d))
    BY <1>6, PopFacts DEF Kinds
  <2>2. waiters[d] # <<>> /\ Head(waiters[d]) = w
    BY <2>1 DEF ResumeIsFirst
  <2>3. waiters[d] \in Seq(Workers) /\ Unique(waiters[d])
    BY DEF TypeOK, WaitersArePending
  <2>4. Has(waiters[d], w) /\ ~Before(waiters[d], v, w)
    BY <2>2, <2>3, TailFacts, TailOrder
  <2> QED BY <1>1, <1>4, <2>4 DEF Precedes
<1> QED BY <1>5, <1>6

LEMMA AcquireFreeOrder ==
    ASSUME NotNested, IInv, OrderInv, NEW w \in Workers, NEW d \in Devices,
           IsNext("acquire", w, d), AcquireFree(w, d), UNCHANGED asked
    PROVE  OrderInv'
<1> USE DEF IInv, LockInv, HolderInv, OrderInv
<1>1. /\ ~locked[d] /\ waiters[d] = <<>>
      /\ owner' = [owner EXCEPT ![d] = w]
      /\ ready' = Tail(ready)
      /\ pending' = [pending EXCEPT ![w] = @ \ {d}]
      /\ UNCHANGED <<waiters, woken, pc, depth>>
  BY DEF AcquireFree, Finish
<1>2. /\ Has(ready, Task("acquire", w, d))
      /\ \A e : Has(ready', e) <=> Has(ready, e) /\ e # Task("acquire", w, d)
      /\ \A a, b : Before(ready', a, b) <=> Before(ready, a, b) /\ a # Task("acquire", w, d)
  BY <1>1, PopFacts, PopOrder DEF Kinds
<1>3. \A v, c : Task("acquire", v, c) = Task("acquire", w, d) <=> v = w /\ c = d
  BY TaskEqual
<1>4. pc[w] = "acquiring" /\ d \in pending[w] /\ d \in DevicesOf(w)
  BY <1>2 DEF TasksArePending, CallsAreOwn
<1>5. AskedIsOpen'
  BY <1>1 DEF AskedIsOpen
<1>6. PendingIsTracked'
  BY <1>1, <1>2, <1>3 DEF PendingIsTracked, TypeOK
<1>7. OwnerHolds'
  BY <1>1, <1>4 DEF OwnerHolds, Holds, DevicesOf, TypeOK
<1>8. ServedInOrder'
  <2> SUFFICES ASSUME NEW v \in Workers, NEW u \in Workers, Before(asked, v, u),
                      NEW c \in DevicesOf(v) \cap DevicesOf(u)
               PROVE  Precedes(v, u, c)'
    BY DEF ServedInOrder, DevicesOf
  <2>1. Precedes(v, u, c)
    BY DEF ServedInOrder
  <2>2. ~(u = w /\ c = d)
    BY <1>1, NobodyAhead
  <2> QED BY <1>1, <1>2, <1>3, <2>1, <2>2 DEF Precedes, TypeOK
<1> QED BY <1>5, <1>6, <1>7, <1>8

LEMMA AcquireWaitOrder ==
    ASSUME NotNested, IInv, OrderInv, NEW w \in Workers, NEW d \in Devices,
           IsNext("acquire", w, d), AcquireWait(w, d), UNCHANGED asked
    PROVE  OrderInv'
<1> USE DEF IInv, LockInv, HolderInv, OrderInv
<1>1. /\ waiters' = [waiters EXCEPT ![d] = Append(@, w)]
      /\ ready' = Tail(ready)
      /\ UNCHANGED <<locked, owner, woken, pc, depth, pending>>
  BY DEF AcquireWait, callerVars
<1>2. /\ Has(ready, Task("acquire", w, d))
      /\ \A e : Has(ready', e) <=> Has(ready, e) /\ e # Task("acquire", w, d)
      /\ \A a, b : Before(ready', a, b) <=> Before(ready, a, b) /\ a # Task("acquire", w, d)
      /\ \A a : ~Before(ready, a, Task("acquire", w, d))
  BY <1>1, PopFacts, PopOrder DEF Kinds
<1>3. \A v, c : Task("acquire", v, c) = Task("acquire", w, d) <=> v = w /\ c = d
  BY TaskEqual
<1>4. /\ \A e : Has(waiters'[d], e) <=> Has(waiters[d], e) \/ e = w
      /\ \A a, b : Before(waiters'[d], a, b) <=>
                        Before(waiters[d], a, b) \/ (Has(waiters[d], a) /\ b = w)
      /\ \A c \in Devices : c # d => waiters'[c] = waiters[c]
  <2>1. waiters[d] \in Seq(Workers) /\ waiters'[d] = Append(waiters[d], w)
    BY <1>1 DEF TypeOK
  <2> QED BY <1>1, <2>1, AppendFacts, AppendOrder DEF TypeOK
<1>5. AskedIsOpen'
  BY <1>1 DEF AskedIsOpen
<1>6. PendingIsTracked'
  BY <1>1, <1>2, <1>3, <1>4 DEF PendingIsTracked
<1>7. OwnerHolds'
  BY <1>1 DEF OwnerHolds, Holds, DevicesOf
<1>8. ServedInOrder'
  <2> SUFFICES ASSUME NEW v \in Workers, NEW u \in Workers, Before(asked, v, u),
                      NEW c \in DevicesOf(v) \cap DevicesOf(u)
               PROVE  Precedes(v, u, c)'
    BY <1>1 DEF ServedInOrder, DevicesOf
  <2>1. Precedes(v, u, c) /\ v # u /\ c \in Devices
    BY AheadIsOther, DevicesOfType DEF ServedInOrder
  <2>2. CASE c # d
    BY <1>1, <1>2, <1>3, <1>4, <2>1, <2>2 DEF Precedes
  <2>3. CASE c = d /\ u = w
    <3>1. ~Has(ready', Task("acquire", v, d)) /\ ~Has(ready', Task("acquire", w, d))
      BY <1>2, <2>1, <2>3 DEF Precedes
    <3> QED BY <1>1, <1>4, <2>1, <2>3, <3>1 DEF Precedes
  <2>4. CASE c = d /\ u # w
    <3>1. v = w => ~Has(waiters'[d], u)
      BY <1>2, <1>4, <2>1, <2>4 DEF Precedes
    <3> QED BY <1>1, <1>2, <1>3, <1>4, <2>1, <2>4, <3>1 DEF Precedes
  <2> QED BY <2>2, <2>3, <2>4
<1> QED BY <1>5, <1>6, <1>7, <1>8

LEMMA ResumeOrder ==
    ASSUME NotNested, IInv, OrderInv, NEW w \in Workers, NEW d \in Devices,
           IsNext("resume", w, d), Resume(w, d), UNCHANGED asked
    PROVE  OrderInv'
<1> USE DEF IInv, LockInv, HolderInv, OrderInv
<1>1. PICK i \in DOMAIN waiters[d] :
        /\ waiters[d][i] = w
        /\ waiters' = [waiters EXCEPT ![d] = RemoveAtIndex(@, i)]
  BY DEF Resume
<1>2. /\ owner' = [owner EXCEPT ![d] = w]
      /\ ready' = Tail(ready)
      /\ pending' = [pending EXCEPT ![w] = @ \ {d}]
      /\ UNCHANGED <<pc, depth>>
  BY DEF Resume, Finish
<1>3. /\ Has(ready, Task("resume", w, d))
      /\ \A e : Has(ready', e) <=> Has(ready, e) /\ e # Task("resume", w, d)
      /\ \A a, b : Before(ready', a, b) <=> Before(ready, a, b) /\ a # Task("resume", w, d)
  BY <1>2, PopFacts, PopOrder DEF Kinds
<1>4. \A v, c : Task("acquire", v, c) # Task("resume", w, d)
  BY TaskEqual
<1>5. /\ pc[w] = "acquiring" /\ d \in pending[w] /\ d \in DevicesOf(w)
      /\ ~locked[d]
  <2>1. Has(waiters[d], w)
    BY <1>1 DEF Has
  <2>2. owner[d] = NoWorker
    BY <1>3 DEF ResumeIsFirst
  <2> QED BY <2>1, <2>2 DEF WaitersArePending, CallsAreOwn, LockedIffOwned
<1>6. /\ \A e : Has(waiters'[d], e) <=> Has(waiters[d], e) /\ e # w
      /\ \A a, b : Before(waiters'[d], a, b) <=>
                        Before(waiters[d], a, b) /\ a # w /\ b # w
      /\ \A c \in Devices : c # d => waiters'[c] = waiters[c]
  <2>1. waiters[d] \in Seq(Workers) /\ Unique(waiters[d])
    BY DEF TypeOK, WaitersArePending
  <2>2. waiters'[d] = RemoveAtIndex(waiters[d], i)
    BY <1>1 DEF TypeOK
  <2> QED BY <1>1, <2>1, <2>2, RemoveFacts, RemoveOrder DEF TypeOK
<1>7. AskedIsOpen'
  BY <1>2 DEF AskedIsOpen
<1>8. PendingIsTracked'
  BY <1>2, <1>3, <1>4, <1>6 DEF PendingIsTracked, TypeOK
<1>9. OwnerHolds'
  BY <1>2, <1>5 DEF OwnerHolds, Holds, DevicesOf, TypeOK
<1>10. ServedInOrder'
  <2> SUFFICES ASSUME NEW v \in Workers, NEW u \in Workers, Before(asked, v, u),
                      NEW c \in DevicesOf(v) \cap DevicesOf(u)
               PROVE  Precedes(v, u, c)'
    BY DEF ServedInOrder, DevicesOf
  <2>1. Precedes(v, u, c) /\ c \in Devices
    BY DevicesOfType DEF ServedInOrder
  <2>2. ~(u = w /\ c = d)
    BY <1>5, NobodyAhead
  <2>3. pc'[u] = "acquiring" /\ c \in pending'[u]
    BY <1>2, <2>1, <2>2 DEF Precedes, TypeOK
  <2>4. CASE c # d
    BY <1>3, <1>4, <1>6, <2>1, <2>3, <2>4 DEF Precedes
  <2>5. CASE c = d
    BY <1>3, <1>4, <1>6, <2>1, <2>2, <2>3, <2>5 DEF Precedes
  <2> QED BY <2>4, <2>5
<1> QED BY <1>7, <1>8, <1>9, <1>10

LEMMA ReleaseOrder ==
    ASSUME NotNested, IInv, OrderInv, NEW w \in Workers, NEW d \in Devices,
           IsNext("release", w, d), Release(w, d), UNCHANGED asked
    PROVE  OrderInv'
<1> USE DEF IInv, LockInv, HolderInv, OrderInv
<1>1. /\ owner' = [owner EXCEPT ![d] = NoWorker]
      /\ WakeUpFirst(d)
      /\ pending' = [pending EXCEPT ![w] = @ \ {d}]
      /\ UNCHANGED <<waiters, pc, depth>>
  BY DEF Release, Finish
<1>2. /\ Tail(ready) \in Seq(AllTasks)
      /\ Has(ready, Task("release", w, d))
      /\ \A e : Has(Tail(ready), e) <=> Has(ready, e) /\ e # Task("release", w, d)
      /\ \A a, b : Before(Tail(ready), a, b) <=>
                        Before(ready, a, b) /\ a # Task("release", w, d)
  BY PopFacts, PopOrder DEF Kinds
<1>3. pc[w] = "releasing" /\ ~Has(asked, w)
  BY <1>2 DEF TasksArePending, ReleaseNeverRaises, AskedIsOpen
(* Tasks that acquire neither come nor go, nor change places. *)
<1>4. \A u, v, b, c :
        /\ Has(ready', Task("acquire", u, b)) <=> Has(ready, Task("acquire", u, b))
        /\ Before(ready, Task("acquire", u, b), Task("acquire", v, c)) =>
                Before(ready', Task("acquire", u, b), Task("acquire", v, c))
  <2>1. \A v, c, x : /\ Task("acquire", v, c) # Task("release", w, d)
                     /\ Task("acquire", v, c) # Task("resume", x, d)
    BY TaskEqual
  <2>2. CASE ready' = Tail(ready)
    BY <1>2, <2>1, <2>2
  <2>3. CASE waiters[d] # <<>> /\ ready' = Append(Tail(ready), Task("resume", Head(waiters[d]), d))
    <3> DEFINE h == Head(waiters[d])
    <3>1. waiters[d] \in Seq(Workers)
      BY DEF TypeOK
    <3>2. h \in Workers
      BY <2>3, <3>1, HeadTailProperties, EmptySeq
    <3>3. Task("resume", h, d) \in AllTasks
      BY <3>2, TaskType DEF Kinds
    <3> DEFINE e0 == Task("resume", h, d)
               r == Tail(ready)
    <3>4. ready' = Append(r, e0) /\ e0 \in AllTasks /\ r \in Seq(AllTasks)
      BY <1>2, <2>3, <3>3
    <3> HIDE DEF e0, r
    <3>5. \A e : Has(ready', e) <=> Has(r, e) \/ e = e0
      BY <3>4, AppendFacts
    <3>6. \A a, b : Before(r, a, b) => Before(ready', a, b)
      BY <3>4, AppendOrder
    <3> QED BY <1>2, <2>1, <3>5, <3>6 DEF e0, r
  <2> QED BY <1>1, <2>2, <2>3 DEF WakeUpFirst
<1>5. AskedIsOpen'
  BY <1>1 DEF AskedIsOpen
<1>6. PendingIsTracked'
  BY <1>1, <1>3, <1>4 DEF PendingIsTracked, TypeOK
<1>7. OwnerHolds'
  BY <1>1, WorkersAssumption, ZenonT(60) DEF OwnerHolds, Holds, DevicesOf, TypeOK
<1>8. ServedInOrder'
  <2> SUFFICES ASSUME NEW v \in Workers, NEW u \in Workers, Before(asked, v, u),
                      NEW c \in DevicesOf(v) \cap DevicesOf(u)
               PROVE  Precedes(v, u, c)'
    BY DEF ServedInOrder, DevicesOf
  <2>1. Precedes(v, u, c) /\ u # w
    BY <1>3, AheadIsOther DEF ServedInOrder
  <2> QED BY <1>1, <1>4, <2>1 DEF Precedes, TypeOK
<1> QED BY <1>5, <1>6, <1>7, <1>8

(* With blocks that are not nested nobody acquires what it owns. *)
LEMMA NoAcquireOwned ==
    ASSUME IInv, OrderInv, NEW w \in Workers, NEW d \in Devices, IsNext("acquire", w, d)
    PROVE  ~AcquireOwned(w, d)
<1>1. pc[w] = "acquiring" /\ d \in pending[w]
  BY PopFacts DEF Kinds, IInv, LockInv, TasksArePending
<1> QED BY <1>1 DEF AcquireOwned, OrderInv, OwnerHolds, Holds

LEMMA StepOrder == NotNested /\ IInv /\ OrderInv /\ [HNext]_hvars => OrderInv'
<1> SUFFICES ASSUME NotNested, IInv, OrderInv, [HNext]_hvars PROVE OrderInv'
  OBVIOUS
<1>1. CASE UNCHANGED hvars
  BY <1>1 DEF hvars, vars, lockVars, callerVars, OrderInv, AskedIsOpen, PendingIsTracked,
     OwnerHolds, Holds, ServedInOrder, Precedes, DevicesOf
<1>2. ASSUME NEW w \in Workers,
             \/ Enter(w) /\ asked' = Append(asked, w)
             \/ Leave(w) /\ asked' = Without(asked, w)
             \/ (EnterReturns(w) \/ LeaveReturns(w)) /\ UNCHANGED asked
      PROVE  OrderInv'
  BY <1>2, EnterOrder, LeaveOrder, ReturnOrder
<1>3. CASE RunReady /\ UNCHANGED asked
  <2>1. PICK w \in Workers, d \in Devices :
          \/ IsNext("acquire", w, d) /\ Acquire(w, d)
          \/ IsNext("resume", w, d) /\ Resume(w, d)
          \/ IsNext("release", w, d) /\ (Release(w, d) \/ ReleaseRaises(w, d))
    BY <1>3 DEF RunReady
  <2> QED BY <1>3, <2>1, NoAcquireOwned, AcquireFreeOrder, AcquireWaitOrder, ResumeOrder,
             ReleaseOrder, NoReleaseRaises DEF Acquire
<1> QED BY <1>1, <1>2, <1>3 DEF HNext

LEMMA HStepIsStep == [HNext]_hvars => [Next]_vars
  BY DEF HNext, hvars, Next, WorkerStep

(* The order in which workers asked decides at every shared accelerator.    *)
THEOREM OrderInvariant ==
    ASSUME NotNested
    PROVE  HSpec => [](IInv /\ OrderInv)
<1>1. HInit => IInv /\ OrderInv
  BY InitInv, InitOrder DEF HInit, IInv
<1>2. IInv /\ OrderInv /\ [HNext]_hvars => (IInv /\ OrderInv)'
  BY NotNested, HStepIsStep, StepInv, HolderStep, StepOrder DEF IInv
<1> QED BY <1>1, <1>2, PTL DEF HSpec

-----------------------------------------------------------------------------
(* A worker that nobody precedes is the first in asked of those that want   *)
(* its accelerators: its acquire returns as a Grant.                        *)
LEMMA EnterReturnsGrants ==
    ASSUME NotNested, IInv, OrderInv, NEW w \in Workers, EnterReturns(w), UNCHANGED asked
    PROVE  Abstract!Grant(w)
<1> USE DEF IInv, LockInv, HolderInv, OrderInv
<1>1. /\ pc[w] = "acquiring" /\ pending[w] = {} /\ depth[w] = 0
      /\ pc' = [pc EXCEPT ![w] = "running"]
      /\ depth' = [depth EXCEPT ![w] = 1]
  <2>1. pc[w] = "acquiring" /\ depth[w] = 0 /\ depth[w] + 1 = 1
    BY CallDepth DEF EnterReturns
  <2> QED BY <2>1 DEF EnterReturns
<1>2. Has(asked, w) /\ asked \in Seq(Workers) /\ DOMAIN asked = 1..Len(asked)
  BY <1>1, LenProperties DEF AskedIsOpen
<1>3. PICK i \in DOMAIN asked : asked[i] = w
  BY <1>2 DEF Has
<1>4. ASSUME NEW j \in 1..(i - 1) PROVE ~Abstract!Conflict(asked[j], w)
  <2>1. j \in DOMAIN asked /\ j < i /\ asked[j] \in Workers
    BY <1>2, <1>3, ElementOfSeq
  <2>2. Before(asked, asked[j], w)
    BY <1>3, <2>1 DEF Before
  <2>3. ASSUME NEW d \in DevicesOf(asked[j]) \cap DevicesOf(w) PROVE FALSE
    <3>1. Precedes(asked[j], w, d)
      BY <2>1, <2>2 DEF ServedInOrder
    <3> QED BY <1>1, <3>1 DEF Precedes
  <2> QED BY <2>3 DEF Abstract!Conflict
<1>5. \A v \in Workers : InBlock(v)' <=> InBlock(v) \/ v = w
  BY <1>1 DEF InBlock, TypeOK
<1>6. ~InBlock(w)
  BY <1>1 DEF InBlock
<1> QED BY <1>3, <1>4, <1>5, <1>6 DEF Abstract!Grant

(* Seen from the workers, DeviceLock grants all accelerators of a worker at *)
(* once and serves conflicting workers in the order in which they asked,    *)
(* however their acquires interleave on the manager's event loop.  This is  *)
(* the safety part of GrantsInOrder.                                        *)
THEOREM GrantsAreInOrder ==
    ASSUME NotNested
    PROVE  HSpec => Abstract!Spec
<1>1. HInit => Abstract!Init
  BY DEF HInit, Init, InBlock, Abstract!Init
<1>2. IInv /\ OrderInv /\ [HNext]_hvars => [Abstract!Next]_<<{w \in Workers : InBlock(w)}, asked>>
  <2> SUFFICES ASSUME IInv, OrderInv, [HNext]_hvars
               PROVE  [Abstract!Next]_<<{w \in Workers : InBlock(w)}, asked>>
    OBVIOUS
  <2> USE DEF IInv, LockInv, HolderInv, OrderInv
  <2>1. CASE UNCHANGED hvars
    BY <2>1 DEF hvars, vars, callerVars, InBlock
  <2>2. CASE RunReady /\ UNCHANGED asked
    <3>1. PICK w \in Workers, d \in Devices :
            \/ IsNext("acquire", w, d) /\ Acquire(w, d)
            \/ IsNext("resume", w, d) /\ Resume(w, d)
            \/ IsNext("release", w, d) /\ (Release(w, d) \/ ReleaseRaises(w, d))
      BY <2>2 DEF RunReady
    <3>2. ~(IsNext("release", w, d) /\ ReleaseRaises(w, d))
      BY NotNested, NoReleaseRaises
    <3>3. UNCHANGED <<pc, depth>>
      BY <3>1, <3>2 DEF Acquire, AcquireOwned, AcquireFree, AcquireWait, Resume, Release,
                        callerVars
    <3> QED BY <2>2, <3>3 DEF InBlock
  <2>3. ASSUME NEW w \in Workers, Enter(w), asked' = Append(asked, w)
        PROVE  Abstract!Ask(w)
    <3>1. /\ pc[w] = "running" /\ depth[w] = 0
          /\ pc' = [pc EXCEPT ![w] = "acquiring"]
          /\ UNCHANGED depth
      BY <2>3, NotNested DEF Enter, Call, NotNested, TypeOK
    <3>2. w \notin {asked[i] : i \in DOMAIN asked}
      BY <3>1 DEF AskedIsOpen, Has
    <3>3. \A v \in Workers : InBlock(v)' <=> InBlock(v)
      BY <3>1 DEF InBlock, TypeOK
    <3> QED BY <2>3, <3>2, <3>3 DEF Abstract!Ask, Abstract!Queued
  <2>4. ASSUME NEW w \in Workers, Leave(w), asked' = Without(asked, w)
        PROVE  Abstract!Leave(w)
    <3>1. /\ pc[w] = "running" /\ depth[w] = 1
          /\ pc' = [pc EXCEPT ![w] = "releasing"]
          /\ UNCHANGED depth
      BY <2>4, NotNested DEF Leave, Call, NotNested, TypeOK
    <3>2. \E i \in DOMAIN asked : asked[i] = w /\ asked' = RemoveAtIndex(asked, i)
      BY <2>4, <3>1, WithoutFacts DEF AskedIsOpen
    <3>3. InBlock(w) /\ \A v \in Workers : InBlock(v)' <=> InBlock(v) /\ v # w
      BY <3>1 DEF InBlock, TypeOK
    <3> QED BY <3>2, <3>3 DEF Abstract!Leave, RemoveAtIndex
  <2>5. ASSUME NEW w \in Workers, LeaveReturns(w), UNCHANGED asked
        PROVE  UNCHANGED <<{v \in Workers : InBlock(v)}, asked>>
    <3>1. /\ pc[w] = "releasing" /\ depth[w] = 1
          /\ pc' = [pc EXCEPT ![w] = "running"]
          /\ depth' = [depth EXCEPT ![w] = 0]
      <4>1. pc[w] = "releasing" /\ depth[w] = 1 /\ depth[w] - 1 = 0
        BY <2>5, NotNested, CallDepth DEF LeaveReturns
      <4> QED BY <2>5, <4>1 DEF LeaveReturns
    <3>2. \A v \in Workers : InBlock(v)' <=> InBlock(v)
      BY <3>1 DEF InBlock, TypeOK
    <3> QED BY <2>5, <3>2
  <2>6. ASSUME NEW w \in Workers, EnterReturns(w), UNCHANGED asked
        PROVE  Abstract!Grant(w)
    BY <2>6, NotNested, EnterReturnsGrants
  <2> QED BY <2>1, <2>2, <2>3, <2>4, <2>5, <2>6 DEF HNext, Abstract!Next
<1> QED BY NotNested, <1>1, <1>2, OrderInvariant, PTL DEF HSpec, Abstract!Spec, Abstract!vars
=============================================================================
