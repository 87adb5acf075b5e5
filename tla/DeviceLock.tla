------------------------------ MODULE DeviceLock ------------------------------
(***************************************************************************)
(* The accelerator lock of RLinf: the DeviceLockManager actor, the         *)
(* WorkerDeviceLock it keeps per accelerator, and the worker-side handle   *)
(* used as `with worker.device_lock`.                                      *)
(*                                                                         *)
(* The manager is one asyncio event loop.  An RPC runs asyncio.gather over *)
(* the worker's accelerators, which makes one task per accelerator; tasks  *)
(* and wake-ups run one at a time in the order in which they were          *)
(* scheduled, the FIFO `ready`.                                            *)
(*                                                                         *)
(* No caller of the repository cancels an acquire, so a waiter is never    *)
(* cancelled and "all waiters cancelled" means "no waiters".               *)
(***************************************************************************)
EXTENDS Integers, Sequences, SeqFacts

CONSTANTS
    Workers,        \* worker addresses
    Devices,        \* global accelerator ids
    AccelIds,       \* AccelIds[w]: the accelerators of w, in the order of its placement
    MaxDepth,       \* bound: how deep a worker nests `with device_lock`
    NoWorker        \* the address of a lock that nobody owns

ASSUME WorkersAssumption == NoWorker \notin Workers
ASSUME AccelIdsAssumption ==
    /\ AccelIds \in [Workers -> Seq(Devices)]
    /\ \A w \in Workers : \A i, j \in DOMAIN AccelIds[w] :
            AccelIds[w][i] = AccelIds[w][j] => i = j
ASSUME MaxDepthAssumption == MaxDepth \in Nat \ {0}

VARIABLES
    locked,         \* locked[d]: asyncio.Lock._locked
    owner,          \* owner[d]: _worker_address, or NoWorker
    waiters,        \* waiters[d]: _waiters, each future named by the worker awaiting it
    woken,          \* woken[d]: the workers whose future at d is done but not yet removed
    ready,          \* the callbacks the manager's event loop has yet to run
    pc,             \* pc[w]: what the thread of worker w is doing
    depth,          \* depth[w]: the `with` blocks w has entered
    pending         \* pending[w]: accelerators whose task of w's gather is unfinished

lockVars == <<locked, owner, waiters, woken>>
callerVars == <<pc, depth, pending>>
vars == <<lockVars, ready, callerVars>>

DevicesOf(w) == {AccelIds[w][i] : i \in DOMAIN AccelIds[w]}

Task(k, w, d) == [kind |-> k, worker |-> w, device |-> d]
Kinds == {"acquire", "resume", "release"}

(* What asyncio.gather schedules: one task per accelerator of w, in order. *)
Gather(k, w) == [i \in DOMAIN AccelIds[w] |-> Task(k, w, AccelIds[w][i])]

Init ==
    /\ locked = [d \in Devices |-> FALSE]
    /\ owner = [d \in Devices |-> NoWorker]
    /\ waiters = [d \in Devices |-> <<>>]
    /\ woken = [d \in Devices |-> {}]
    /\ ready = <<>>
    /\ pc = [w \in Workers |-> "running"]
    /\ depth = [w \in Workers |-> 0]
    /\ pending = [w \in Workers |-> {}]

-----------------------------------------------------------------------------
(* The worker side: DeviceLock.acquire and DeviceLock.release block the     *)
(* calling thread in ray.get until the RPC answers.                         *)

Call(w, k, doing) ==
    /\ ready' = ready \o Gather(k, w)
    /\ pc' = [pc EXCEPT ![w] = doing]
    /\ pending' = [pending EXCEPT ![w] = DevicesOf(w)]
    /\ UNCHANGED <<lockVars, depth>>

Enter(w) ==
    /\ pc[w] = "running"
    /\ depth[w] < MaxDepth
    /\ Call(w, "acquire", "acquiring")

EnterReturns(w) ==
    /\ pc[w] = "acquiring"
    /\ pending[w] = {}
    /\ pc' = [pc EXCEPT ![w] = "running"]
    /\ depth' = [depth EXCEPT ![w] = @ + 1]
    /\ UNCHANGED <<lockVars, ready, pending>>

Leave(w) ==
    /\ pc[w] = "running"
    /\ depth[w] > 0
    /\ Call(w, "release", "releasing")

LeaveReturns(w) ==
    /\ pc[w] = "releasing"
    /\ pending[w] = {}
    /\ pc' = [pc EXCEPT ![w] = "running"]
    /\ depth' = [depth EXCEPT ![w] = @ - 1]
    /\ UNCHANGED <<lockVars, ready, pending>>

-----------------------------------------------------------------------------
(* The manager side: the event loop runs the callback at the head of ready. *)

Finish(w, d) == pending' = [pending EXCEPT ![w] = @ \ {d}]

(* acquire by the worker that already owns the lock returns at once. *)
AcquireOwned(w, d) ==
    /\ owner[d] = w
    /\ ready' = Tail(ready)
    /\ Finish(w, d)
    /\ UNCHANGED <<lockVars, pc, depth>>

(* Mutant: a newcomer takes a free lock ahead of the waiter already woken. *)
AcquireFree_Barging(w, d) ==
    /\ owner[d] # w
    /\ ~locked[d]
    /\ locked' = [locked EXCEPT ![d] = TRUE]
    /\ owner' = [owner EXCEPT ![d] = w]
    /\ ready' = Tail(ready)
    /\ Finish(w, d)
    /\ UNCHANGED <<waiters, woken, pc, depth>>

AcquireFree(w, d) ==
    /\ owner[d] # w
    /\ ~locked[d]
    /\ waiters[d] = <<>>
    /\ locked' = [locked EXCEPT ![d] = TRUE]
    /\ owner' = [owner EXCEPT ![d] = w]
    /\ ready' = Tail(ready)
    /\ Finish(w, d)
    /\ UNCHANGED <<waiters, woken, pc, depth>>

(* Mutant: waiters are served last come, first served. *)
AcquireWait_Front(w, d) ==
    /\ owner[d] # w
    /\ locked[d] \/ waiters[d] # <<>>
    /\ waiters' = [waiters EXCEPT ![d] = <<w>> \o @]
    /\ ready' = Tail(ready)
    /\ UNCHANGED <<locked, owner, woken, callerVars>>

AcquireWait(w, d) ==
    /\ owner[d] # w
    /\ locked[d] \/ waiters[d] # <<>>
    /\ waiters' = [waiters EXCEPT ![d] = Append(@, w)]
    /\ ready' = Tail(ready)
    /\ UNCHANGED <<locked, owner, woken, callerVars>>

Acquire(w, d) == AcquireOwned(w, d) \/ AcquireFree(w, d) \/ AcquireWait(w, d)

(* Mutant: the resumed waiter becomes the owner of a lock it leaves open. *)
Resume_Unlocked(w, d) ==
    /\ \E i \in DOMAIN waiters[d] :
        /\ waiters[d][i] = w
        /\ waiters' = [waiters EXCEPT ![d] = RemoveAtIndex(@, i)]
    /\ woken' = [woken EXCEPT ![d] = @ \ {w}]
    /\ owner' = [owner EXCEPT ![d] = w]
    /\ ready' = Tail(ready)
    /\ Finish(w, d)
    /\ UNCHANGED <<locked, pc, depth>>

(* The rest of acquire, run when the future of w at d is done.  The code    *)
(* asserts that the lock has no owner here: ResumeFindsNoOwner.             *)
Resume(w, d) ==
    /\ \E i \in DOMAIN waiters[d] :
        /\ waiters[d][i] = w
        /\ waiters' = [waiters EXCEPT ![d] = RemoveAtIndex(@, i)]
    /\ woken' = [woken EXCEPT ![d] = @ \ {w}]
    /\ locked' = [locked EXCEPT ![d] = TRUE]
    /\ owner' = [owner EXCEPT ![d] = w]
    /\ ready' = Tail(ready)
    /\ Finish(w, d)
    /\ UNCHANGED <<pc, depth>>

(* Mutant: release forgets to wake the first waiter. *)
WakeUpFirst_Missing(d) == ready' = Tail(ready) /\ UNCHANGED woken

(* asyncio.Lock._wake_up_first: nothing if nobody waits or the first        *)
(* waiter is already woken.                                                 *)
WakeUpFirst(d) ==
    IF waiters[d] # <<>> /\ Head(waiters[d]) \notin woken[d]
    THEN /\ woken' = [woken EXCEPT ![d] = @ \cup {Head(waiters[d])}]
         /\ ready' = Append(Tail(ready), Task("resume", Head(waiters[d]), d))
    ELSE /\ ready' = Tail(ready)
         /\ UNCHANGED woken

MayRelease(w, d) == owner[d] \in {w, NoWorker} /\ locked[d]

Release(w, d) ==
    /\ MayRelease(w, d)
    /\ locked' = [locked EXCEPT ![d] = FALSE]
    /\ owner' = [owner EXCEPT ![d] = NoWorker]
    /\ WakeUpFirst(d)
    /\ Finish(w, d)
    /\ UNCHANGED <<waiters, pc, depth>>

(* release raises RuntimeError: the lock is another worker's, or not        *)
(* acquired.  gather hands the error to the caller at once, whose `with`    *)
(* blocks all unwind; the other release tasks still run.  The blocks        *)
(* outside release too as they unwind, which changes nothing: the release   *)
(* that succeeded gave up every lock, so they only raise again.             *)
ReleaseRaises(w, d) ==
    /\ ~MayRelease(w, d)
    /\ ready' = Tail(ready)
    /\ pc' = [pc EXCEPT ![w] = "failed"]
    /\ depth' = [depth EXCEPT ![w] = 0]
    /\ Finish(w, d)
    /\ UNCHANGED lockVars

IsNext(k, w, d) == ready # <<>> /\ Head(ready) = Task(k, w, d)

RunReady ==
    \E w \in Workers, d \in Devices :
        \/ IsNext("acquire", w, d) /\ Acquire(w, d)
        \/ IsNext("resume", w, d) /\ Resume(w, d)
        \/ IsNext("release", w, d) /\ (Release(w, d) \/ ReleaseRaises(w, d))

WorkerStep(w) == Enter(w) \/ EnterReturns(w) \/ Leave(w) \/ LeaveReturns(w)

Next == RunReady \/ \E w \in Workers : WorkerStep(w)

Spec == Init /\ [][Next]_vars

(* The event loop keeps running, an RPC that is answered returns, and a     *)
(* worker does not stay inside its `with` block for ever.  Nothing obliges  *)
(* a worker to enter one.                                                   *)
Fairness ==
    /\ WF_vars(RunReady)
    /\ \A w \in Workers :
        WF_vars(EnterReturns(w)) /\ WF_vars(Leave(w)) /\ WF_vars(LeaveReturns(w))

FairSpec == Spec /\ Fairness

-----------------------------------------------------------------------------
(* Types: every variable stays in the set its comment above describes. *)
TypeOK ==
    /\ locked \in [Devices -> BOOLEAN]
    /\ owner \in [Devices -> Workers \cup {NoWorker}]
    /\ waiters \in [Devices -> Seq(Workers)]
    /\ woken \in [Devices -> SUBSET Workers]
    /\ ready \in Seq([kind : Kinds, worker : Workers, device : Devices])
    /\ pc \in [Workers -> {"running", "acquiring", "releasing", "failed"}]
    /\ depth \in [Workers -> 0..MaxDepth]
    /\ pending \in [Workers -> SUBSET Devices]

(* w is in the body of a `with device_lock` block: it has entered one that  *)
(* it has not begun to leave.                                               *)
InBlock(w) == depth[w] > (IF pc[w] = "releasing" THEN 1 ELSE 0)

(* "this lock ensures that only one worker can access the accelerator       *)
(* resources at a time" (worker/lock.py): two workers that are both inside  *)
(* their blocks share no accelerator.                                       *)
MutualExclusion ==
    \A v, w \in Workers :
        v # w /\ InBlock(v) /\ InBlock(w) => DevicesOf(v) \cap DevicesOf(w) = {}

(* The assertion in WorkerDeviceLock.acquire never fails: whenever a waiter *)
(* is about to run again, the lock it was promised is still free, however   *)
(* many acquires and releases ran between the wake-up and the resumption.   *)
ResumeFindsNoOwner ==
    \A w \in Workers, d \in Devices :
        Has(ready, Task("resume", w, d)) => owner[d] = NoWorker /\ ~locked[d]

(* No wake-up is lost: a lock that is free and has waiters has woken the    *)
(* first of them, and the callback that resumes it is scheduled.            *)
NoLostWakeup ==
    \A d \in Devices :
        ~locked[d] /\ waiters[d] # <<>> =>
            Has(ready, Task("resume", Head(waiters[d]), d))

(* A worker that releases what it acquired, once per acquire, never gets    *)
(* the RuntimeError of release.                                             *)
ReleaseNeverRaises == \A w \in Workers : pc[w] # "failed"

(* Whoever asks for its accelerators gets all of them, although every       *)
(* worker asks for several locks one by one and in an order of its own.     *)
EveryAcquireReturns ==
    \A w \in Workers : pc[w] = "acquiring" ~> pc[w] = "running" /\ InBlock(w)
=============================================================================
