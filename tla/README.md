# Formal models of RLinf's scheduler

RLinf trains models by reinforcement learning. A driver starts *worker groups*
on a Ray cluster, connects them by *channels* and *collectives*, lets them share
accelerators under a *device lock*, and in one mode moves GPUs between them
while a step runs (the *dynamic scheduler*). These modules model that
coordination code, which is where RLinf is concurrent. Numerical code,
simulators and engines are outside.

Paths below are relative to `src/rlinf/` unless they start with `docs/` or
`tests/`. `PROJECT.json` holds the exact correspondence of every definition to
lines of the source.

## 1. The parts of the system

| Part | State | Operations | What is hard |
|---|---|---|---|
| Device lock (`scheduler/manager/lock_manager.py`, `scheduler/worker/lock.py`) | per accelerator an `asyncio.Lock`, the owner's address | acquire, release of all accelerators of a worker, by RPC | every RPC gathers one task per accelerator; a woken waiter competes with newcomers; several locks per worker |
| Channel worker (`scheduler/channel/channel_worker.py`) | one `PeekQueue` per key | put, get, get_batch, with and without waiting | coroutines interleave at every `await`; `peek` uses up a wake-up; bounded queues |
| Channel, put side (`channel/channel.py`, `collective/async_work.py`) | the last put per key, the wire of a worker | put (sync, async), put_nowait | the item and the remote call travel apart and must be matched |
| Channel, get side (same files) | `_channel_data_store` of a worker, query ids | get, get_batch, get_nowait | answers arrive in another order than the gets were made |
| Local and distributed channels (`channel_worker.py:73-227`, `ensure_key_replica`) | a queue in a process; a key-to-rank map | the same interface | busy waits; caches |
| Collectives (`scheduler/collective/*`) | work queues per group, direction and kind; process groups made on first use | send, recv, broadcast, tensors | caller and queue thread share a line; lazy set-up with ports, locks and a rendezvous |
| Managers (`scheduler/manager/*`) | tables in Ray actors: groups, workers, nodes, ports | register, look up, lock a port | look-ups by polling; workers that die or come back |
| Dynamic scheduler (`scheduler/dynamic_scheduler/*`) | the books of GPUs, one component manager per role | pre-process, migrate, finish, release, allocate | message protocol with workers that run on meanwhile; integer policies; waits in a circle |
| Rollout under the scheduler (`workers/rollout/sglang/sglang_worker.py`, `workers/rollout/utils.py`) | groups running, done, aborted | rollout(), main loop of requests | two coroutines share the status manager |
| Inference and actor under the scheduler (`workers/megatron_worker.py`) | world size, finished flag | resize between iterations | a report that is older than another |
| Dynamic batches (`workers/actor/fsdp_actor_worker.py`, `megatron_worker.py`) | results held back, a pending get | get_dynamic_batch_as_much | ranks must agree, by all-reduce, when to stop |
| Replay buffer (`data/storage/replay/buffer.py`) | index, window cache, slot cache, files | add, sample, checkpoint, load | save threads, a version that not every writer raises |
| Asynchronous embodied training (`workers/rollout/hf`, `workers/env`, `runners/async_*`) | versions, stores ordered by version, weight-sync requests | generate, interact, synchronise, train | bounded staleness without deadlock; coalesced requests |
| Weight syncer (`hybrid_engines/weight_syncer`) | the sender's snapshot | init, sync, apply | patches must meet the state they were made against |
| Routing, placement, micro-batches (`worker/routing.py`, `placement/`, `utils/data_iter_utils.py`) | none | pure algorithms | boundaries of integer division, coverage |
| Workers and groups, runners, agents, cluster | handles and configuration | call on all ranks, wait; outer loops | failures end the program |

How they interact: a driver calls functions of worker groups; workers call the
managers by blocking RPC; `Channel.put`/`get` start a coroutine on the channel
worker and move the item with a collective send or recv between the two
workers; collectives use the collective manager to find each other and the port
locks to choose a port; the dynamic scheduler, the rollout, the inference worker
and the actor speak through channels with a queue for each direction; every
worker that loads weights may hold the device lock.

What makes each part correct is stated by the properties of section 4; the
hazards in `PROJECT.json` name the line at which each one can go wrong, also for
the parts whose model comes next. What the other parts have to get right:

- *Local channel*: put and get spin in the calling thread (`channel_worker.py:166`), so
  one thread must never fill or drain it beyond its bound.
- *Distributed channel*: all clients of a key are told one worker, whoever asks first;
  the client's cache is never wrong since an assignment never changes.
- *Async work*: a `then` callback may run in the queue's own thread (`async_work.py:145`); a
  synchronous send made there on that group would wait for itself.
- *Collective manager*: registering an equal group again drops its master port
  (`coll_manager.py:86`).
- *Worker manager*: workers are never unregistered; a second node of a rank goes behind the
  first, which look-ups return (`worker_manager.py:293`).
- *Worker groups*: the ranks chosen by execute_on must not survive a call that raises
  (`worker_group.py:447`).
- *Weight syncer*: a patch meets the snapshot it was made against; none is lost or applied
  twice.
- *Routing*: sender and receiver cut a batch at the same places and cover it once; recorded
  routes are used once and in order.
- *Placement*: every process gets hardware of its node, ranges do not overlap, and ranks
  are in order.
- *Micro-batches*: partitions cover all sequences once, within the token limit, and the
  reverse index restores the order.
- *Network emulation*: reservations on one uplink or downlink do not overlap.
- *Agent loops*: an answer reaches the request that asked.

## 2. Plan

The order is by how much depends on a part and how hard it is to test.

1. Device lock (done; safety and the order of grants proved), since all that share a GPU
   rely on it.
2. Channel: queue, put side, get side (done, safety proved).
3. Dynamic scheduler with rollout, inference and actor (done, safety proved).
4. Collective point to point (done, safety proved).
5. Dynamic batches of inference (done, its safety proved).
6. Replay buffer (done, its safety proved).
7. Asynchronous PPO (done, its safety proved).
8. The channel's two sides for workers that use several keys and both kinds of get (done:
   what holds of them is proved).
9. Next models: the channel's two sides over `CollectiveGroup` instead of the FIFO wire they
   assume; the Megatron twin of dynamic batches; the background weight synchronisation;
   `CommMapper` against a reference definition; the port daemon; broadcast.

## 3. Modules

| Module | Models | State and actions |
|---|---|---|
| `SeqFacts` | - | membership in and uniqueness of sequences; lemmas on sequences and on sums over finite sets |
| `DeviceLock` | the whole of lock_manager's device locks and `DeviceLock` | `locked`, `owner`, `waiters`, `woken`: the asyncio locks; `ready`: the actor's event loop; `pc`, `depth`, `pending`: the callers. Enter/Leave send the RPC, Acquire*/Resume/Release* are what a task does between two suspensions |
| `ExclusiveDevices` | abstract: a queue of workers, one enters when nobody before it and nobody inside conflicts | `using`, `queue`; Ask, Grant, Leave |
| `DeviceLockQueue` | DeviceLock with the history of who asked, and the refinement mapping to ExclusiveDevices | `asked` |
| `PeekQueue` | `PeekQueue` (asyncio.Queue with peek) as operators on a record: items, parked getters, parked putters | - |
| `ChannelWorker` | coroutines of one channel worker | `queue`, `ready`, `pc`, `taken`, `weight`; an action is one run of a coroutine up to its next `await` |
| `ChannelPut` | producers, `AsyncChannelWork` chaining, the wire and the put coroutine | a put is called, posted when its predecessor under the key is done, received, stored, answered |
| `ChannelGet` | consumers, receives that any answer may complete, the store of answers by query id | a get is called, posted, answered, received, stored or returned |
| `ScalingPolicy` | the integer policies of `dynamic_scheduler/utils.py` and the managers as operators | - |
| `DynamicScheduler` | the managers' coroutine, the two coroutines of each instance, inference, actor | see the comments at its VARIABLES; one action per handler up to its next await |
| `CollectiveGroup` | work queues, set-up and transfer of point-to-point groups | `line` (a work queue and its thread), `phase` of each end of each transfer, the managers' tables, `wire` |
| `DynamicBatch` | `get_dynamic_batch_as_much` and the loop of `run_inference` on every data-parallel rank of the FSDP actor | `held`, `get`: results a rank has beyond what it inferred and its open get; `agreed`: its last reduced length; all-reduce and forward pass are joint steps |
| `ReplayBuffer` | `TrajectoryReplayBuffer` with its `TrajectoryCache`, save executor and directories | the index (`ids`, `version`), the sampled `window`, the ring of slots (`slotOf`, `owner`, `content`), where the training and sampling threads are, jobs, `disk`, `checkpoint`; Resume is a restart in the middle of anything |
| `AsyncPPO` | runner, rollout, actor ranks with receiving thread and `PriorityStore`, bucket weight syncer | a trajectory carries its tags and, unknown to the program, the weights that made it; `weights` by bucket, `tag`, `hand`, `received`, `store`, `ready` |
| `Channel_proofs` | theorems about `ChannelWorker` and, as instances, `ChannelPut` and `ChannelGet` | |
| the other `*_proofs` | theorems about the module they are named after (`DeviceLock_proofs`: also `DeviceLockQueue`) | |
| `MC*` | instances for TLC | |

Common abstractions:

- An asyncio event loop runs callbacks one at a time in the order in which they
  were scheduled: `ready` is a FIFO, an action is what runs between suspensions.
- A Ray actor's method is one step when it has no `await`.
- Items, groups and payloads are names. A sequence group has one sequence.
- Nobody fails, except for the restarts of `ReplayBuffer`: no worker dies, no engine raises. Where the code handles an
  error in the protocol itself (a full queue, an empty one, a release by another
  worker) it is modelled.

### Notes on single modules

**Device lock.** `acquire` by the owner returns at once and is not counted
(`lock_manager.py:39-40`), so a worker that nests two blocks loses the lock at
the first release, and the second release raises, whether another worker has
acquired the lock or none. As the `with` blocks outside unwind their releases raise as well and
change nothing; the model leaves these calls out. The proofs and the run `device_lock` take blocks one deep
(`MaxDepth = 1`, assumption `NotNested`); `device_lock_nested` takes two deep and
checks what the manager still guarantees.

**Channel worker.** `BatchTake` and `BatchStop` follow `get_batch` between its two
awaits. `docs/source-en/rst_source/concepts/channel.rst:55` says that a batch
"reaches or exceeds" the target weight; the code stops below it when the next item
does not fit, which is what `BatchWithinTarget` states. `get_batch` waits with `peek`
(`channel_worker.py:471`), which uses up the wake-up of one put, and then leaves the item
when it does not fit (`:472`) without waking the next getter, who then sleeps beside it.
`GettersServed` and `EveryCallReturns` are claimed of an instance where no item is too
heavy for a batch. All keys have one maxsize.

**Channel, put side.** Puts of a worker under one key are chained; puts under
different keys are not. On a full queue the remote side of put_nowait raises, the
callback reads the result and raises too (`async_work.py:302`), the future is
never set, and put_nowait and every later put of that worker under the key wait
for ever, although `channel.py:434` documents `asyncio.QueueFull` for a full queue.
The model keeps this, and `RefusedPutsHang` (section 6) proves it of every program.
`OnlyNowaitDrops` says that nothing else loses an item. `EveryPutReturns` says that every
put *returns to its caller*, but for a refused put_nowait and what the same producer would
put after it: nothing is claimed of these, and a refusal holds up no other producer. Puts of a worker under two keys are not ordered at all: the coroutine of one can carry
the item of the other, so a put may return before its item is stored, a later item of its key may be stored
before it, and a refused put_nowait may drop the item of another put. The run has one key.

**Channel, get side.** Each get posts a receive and a remote call. The n-th message
completes the n-th receive, whoever it answers; asynchronous gets therefore file
the answer under its query id. A synchronous get trusts its receive instead: it is
right only when the worker has no asynchronous get pending, as in the run
`channel_get`. The answer of an empty get_nowait carries no query id, so that
behind a pending asynchronous get it may be taken by the earlier receive.

**Dynamic scheduler.** Groups are counted, not named. The manager's report of
running groups is kept as `load`, apart from the instances' own state, since it
is stale by the time it is used. Requests may deal groups out unevenly, as
integer division does. Not in the books: `main_loop_finalize`. An instance
without any group reports Offloaded without being asked, which the assumption
`RolloutBatch >= NumInstances` excludes. Without `use_pre_process_policy` a
request may reach an instance whose rollout() has not begun, which the run does
not cover. Without `use_wait_before_last_iter_policy` the finished message of
inference can be newer than the rollout's report of the same iteration; its GPUs are
then counted for the actor, which grows by position onto GPUs that rollout still
holds. `NoSharedGpu` is therefore claimed with the policy. The docstring of
`assign_sequences` promises as many entries as there are ids; the sequential branch
returns fewer when it is exhausted, which is not modelled. The device lock that an instance holds
during rollout() (`sglang_worker.py:423`) is left out: it would only delay a component that is
given a GPU which another still holds, and that is what `NoSharedGpu` excludes.

**Collectives.** A worker has one caller ("This method is not thread safe"), and the two
ends of a group call their transfers in the same order. A send broadcasts its parts; the
transport keeps one part in flight per direction, and the last broadcast may
return at once (buffered) or only when the part has arrived. Finding a port, locking it
(`worker.py:1266`) and publishing it (`collective_group.py:1292`) are one step, of which others see
only the last. Broadcast over
more than two workers, `send_tensor`, streams and network emulation are left out.

**Dynamic batches.** Results are counted, not named: those of a channel are alike for the
question who stops when. `result_len` begins as a rank's own count; from the second
reduction on it is the last minimum, the same for all. Timeouts are a choice at every
turn of the loop, as nothing bounds how long a turn lasts.

**Replay buffer.** One trajectory has one sample. Four kinds of buffer are checked: with and
without `auto_save` (files back the cache, or nothing does), and sampled by the training
thread or by a preloading one. Only without preload does a sample have to be the right
one: the preloading thread reads the cache without a lock and may meet a slot given away
since (KeyError), or one with new data; an exception there ends the thread while the
iterator waits on (`data/storage/replay/dataset.py:176`). With `auto_save` a
checkpoint copies only files of the last sampled window but lists the whole index
(`buffer.py:973`), so its load may raise; the directory itself may list trajectories of a
later call whose files are not there yet; a distributed load of a checkpoint made
without `auto_save` lacks the files of early parts; and a closed directory whose
buffer had itself loaded another lists ids whose files are in that other one. TLC
reaches these states; `LoadSucceeds` says what holds beside them.

**Asynchronous PPO.** Rollout and environment are one producer. The receiving thread takes a
trajectory and checks its age in one step; the check is repeated when it is drained
and before training. `topn` leaves what it returns in the
store, so that trajectories may be trained on again while they are fresh.
With `load_instant` buckets replace weights at once, and a chunk may be predicted by a
mixture tagged with the older version; the properties speak of the weights that
made a chunk, and `tag <= weights` is the invariant that makes tags enough. The
staleness gate of the rollout (`async_huggingface_worker.py:92`) is left out: it compares
a count of episodes that grows in the decoupled mode only, and is asked in the other
only, so it never waits. The metric of discarded trajectories is left out.

## 4. Runs

| Run | Instance | Shows |
|---|---|---|
| `device_lock` | four workers, three accelerators; three workers in a cycle, one on a single accelerator | exclusion, the assertion on the owner, no failing release, every acquire returns, grants in order of asking (refinement) |
| `device_lock_nested` | three workers, two accelerators, blocks two deep | no free lock with waiters is left alone, whatever releases raise |
| `channel_worker_blocking` | one place, four puts, two gets, a batch of two | items are stored and taken once, the bound holds, nobody waits beside room or items, every call returns |
| `channel_worker_mixed` | two places, two keys, all methods, batches of 3 and of 1, weights 1 and 2 | no batch above its target, also with two batches at once |
| `channel_put` | two producers, one shared key, one place, sync, async and nowait, a put_nowait behind an asynchronous put and before another | order, a returned put is stored, only a refused put_nowait drops, every put returns to its caller unless its producer was refused |
| `channel_get` | two consumers, two keys, all modes, sync and async not in one consumer | items of the right key, once, every get returns |
| `dynamic_scheduler` | four GPUs, three rollout instances, twelve groups, three iterations, both policies | no GPU shared, books add up, no group lost, answers fit requests, the last iteration has the cluster, nothing left behind, every global step ends |
| `collective_group` | three workers, two groups sharing a master, both directions, four transfers of two parts, six mixes of sync, async and awaited | order, one work per line, a group is set up once, all transfers complete |
| `dynamic_batch` | three ranks, five results each, at most two a round, pipelined | all stop at the same reduction, nothing is held back, all end |
| `dynamic_batch_uneven` | two ranks, three results each, all at once if they can | **violated** `RanksStopTogether` |
| `replay_buffer` | the four kinds of buffer, a window of two, one slot where files back the cache, two save threads, up to five trajectories and two restarts | samples come from the current window and are those asked for, loads succeed, the directory catches up |
| `async_ppo` | two ranks, two trajectories each of two chunks, two buckets, three steps, a threshold of one, half on policy | batches within the threshold and above the ratio, every step is made |

Why these bounds. Two tasks race for one lock only with at least two workers
and a newcomer; a cycle of waiting needs three accelerators; the fourth worker
lets two be inside at once. One place with four puts gives a parked put, a woken
one, a newcomer and a second parked one together; a batch over two items is
suspended between its items. Three rollout instances are the fewest with which one
is closed while groups move between two others; three iterations are the fewest
with a first, a middle and a last one, and twelve groups let each of them end
with instances in the middle of work. Four transfers over two groups, one of them
used in both directions and twice in one, give work queued behind work in one
thread while the caller sets up the other group. Five results at most two a round give
rounds of two and of one, results kept for the next round and a last round
that is cut short; a third rank keeps two of them from being always the least and
the rest. Five trajectories go twice round a window of two, and a second restart
loads what a restarted buffer wrote; one slot behind files makes every second
sample a miss. Three steps with a threshold of one make trajectories stale in the channel, in
the hand of the receiving thread, in its queue and in the store. `Ways`, `InFlight`,
`MaxSteps` and the numbers of calls bound what the code leaves unbounded.

Runs whose programs end (all but the first and the scheduler's) do not check for deadlock;
their liveness properties do instead where they have them. In
`device_lock_nested` a worker whose release raised has stopped.

### Fairness

- Device lock and channel: the event loop runs what is ready (`RunReady`), an RPC
  that was answered returns, a message that was sent arrives: Ray and asyncio do
  that unless something dies. A worker inside its block leaves it (`Leave`), as
  `with` blocks of the repository do; nobody is bound to enter one.
- `channel_put` also assumes that somebody goes on taking items (`Get`), and
  `channel_get` that each item is put (`PutItem`): else a bounded or an empty queue
  waits rightly.
- Dynamic scheduler: some step is taken while one can be, and the instances' own
  steps are not starved by the manager, which asks again and again in the
  pre-process but sleeps in between.
- Collectives: some thread that can move does. The early return of a send is not
  counted on, so progress does not depend on the transport's buffering.
- Dynamic batches: rollout puts its results, gets are answered, every rank goes on in its
  loop, and a collective that all ranks have reached takes place.
- Replay buffer: a call that has begun ends and the executor's threads run. Nobody is bound
  to add, sample, save or load.
- Asynchronous PPO: every process goes on. The ranks' gets on one channel are strongly fair:
  the channel serves getters in the order in which they asked (`PeekQueue`), so none is
  passed over for ever. So is `Check`: the loop that drains a rank's queue ends when
  it finds the queue empty, which happens as messages take longer to
  arrive than to be moved to the store.

## 5. Disagreements between code and documentation

The run `dynamic_batch_uneven` is expected to violate its property.

**Ranks stop at different reductions.** A comment in `get_dynamic_batch_as_much`
(`workers/actor/fsdp_actor_worker.py:352`) says that the loop stops when "the min result between dp
(result_len) is same as the last min result". At the first reduction there is no
last minimum: `result_len` begins as the rank's own count (`:354`). With the pipeline and
rounds of three or more, one rank may bring two results over from the last round and
another only one. When the second has taken one more before they reduce, both read
two: the first finds no growth and goes to infer, the second finds growth and waits
in another all-reduce for a rank that waits in its forward pass for it.
`StopTogether` (section 6) proves that nothing smaller does it: without the pipeline, or with
rounds of at most two, ranks always stop together.

**A refused put_nowait does not raise.** `Channel.put_nowait` "Raises asyncio.QueueFull if the queue
is full" (`scheduler/channel/channel.py:424`, `:434`). Inside a worker its caller waits for ever:
the exception of the remote call is raised in a done callback, where it is lost
(`scheduler/collective/async_work.py:302`). No run is set to be violated for it;
`RefusedPutsHang` proves that the caller stays where it is, in every program, which says more than a
counterexample, and `EveryPutReturns` names the case it excepts.

Other places where a reader of the documentation might expect more are described with
their modules in section 3: getters beside a batch that takes nothing, puts under two
keys, a synchronous get beside pending asynchronous ones, `NoSharedGpu` without the
wait policy, loads of checkpoints written with `auto_save`, preloaded samples.

## 6. Proofs

Checked by TLAPS for every value of the constants that meets the assumptions their modules
name: `WorkersAssumption`, `AccelIdsAssumption`, `MaxDepthAssumption` (device lock),
`MaxSizeAssumption`, `CallsAssumption` (channel worker), `PolicyAssumption`,
`PlacementAssumption` (scheduler), `WorkersAssumption`, `PartsAssumption`, `PortsAssumption`,
`TransfersAssumption`, `ModesAssumption` (collectives), `RanksAssumption`, `WaysAssumption`,
`SizesAssumption` (the others). They give types, say that "none" is no member, and
repeat what the configuration code asserts. Hypotheses beyond them restrict a theorem to
the cases in which the code keeps what it states, and stand in the theorem:
`NotNested`, `BatchesFit`, `OneKeyEach`, `OneModeEach`, `UseWait`, `BeginsAlike`.
Section 3 says what happens without each of them; the runs that check the properties
meet them.

**`DeviceLock_proofs`.** The inductive `LockInv` ties what is scheduled to who called: every
scheduled task and every waiter belongs to a call that is pending at that accelerator
(`TasksArePending`, `WaitersArePending`), none is scheduled twice (`ReadyIsUnique`), a
scheduled resumption is that of the first waiter, woken, at a free lock
(`ResumeIsFirst`, `WokenIsScheduled`), a lock is held exactly when it has an owner
(`LockedIffOwned`), and `NoLostWakeup`. It holds for blocks of any depth and gives
`TypeCorrect` (`TypeOK`), `AssertionHolds` (`ResumeFindsNoOwner`) and `NoWakeupIsLost`
(`NoLostWakeup`). With `NotNested` (blocks one deep) a worker that has passed `acquire`
also owns the lock (`HolderOwns`, in `IInv`), whence `Exclusion` (`MutualExclusion`) and
`ReleaseSucceeds` (`ReleaseNeverRaises`). Exclusion alone is not inductive: a resumption
would be free to take a lock that a newcomer holds.

`GrantsAreInOrder` proves step by step that `DeviceLockQueue` implements the specification
of `ExclusiveDevices`: each step asks, grants, leaves or stutters. A grant needs that
nobody who asked earlier conflicts; `OrderInv` provides it: of two workers that share an
accelerator the one that asked first holds it, waits before the other, or has
its task scheduled before the other's, at every accelerator they share (`ServedInOrder`).
This is so because one call schedules its tasks for all accelerators at once.

**`Channel_proofs`, the worker.** `IInv` adds to the type invariant that a call is in one
place (`OnePlace`) and that, while puts are parked under a key, the free places
are covered by puts that were woken but have yet to run (`RoomIsClaimed`). Without
it a removal could leave a parked put beside room. Results: `NoItemIsLost`
(`EachItemOnce`), `QueueIsBounded` (`WithinMaxSize`), `RoomIsNotWasted` (`PuttersServed`).
`BatchesStayWithinTarget` (`BatchWithinTarget`) rests on `WeightsAdded`: the weight a batch has
counted is the sum over what it took. The twin of `PuttersServed`
for gets fails when a batch stops below its target (section 3); `ItemsAreNotWasted`
(`GettersServed`) is proved under `BatchesFit`: no item weighs more than 1 and every batch
wants something. Its invariant is `ItemsAreClaimed`, every item under a key with
parked gets is covered by a woken get, together with `Hungry`, a batch that is suspended
still lacks weight, so that it will not leave the item it was woken for.

**`Channel_proofs`, the client sides.** `ChannelPut` and `ChannelGet` are instances here
(`PutSide`, `GetSide`), with the hypotheses `PutsAssumption` and `GetsAssumption` in the place
of the assumptions of those modules (`ProgramAssumption`, `NoPutAssumption`,
`ItemsAssumption`), which TLC evaluates. The theorems are about their specifications:
`PutSide!Spec => []PutSide!InOrder` and so on.

**The put side.** For any programs, with several keys and all modes: `NothingIsMislaid`. An item that
was sent is under way, stored, or was carried by a put_nowait of its worker that a full queue
refused; what is stored is stored once, under its own key. The invariant is `CargoInv`:
`Travel` says that the items on the wire are those not received, in order, `Carrying` that each
item received is with one coroutine of its producer, not always that of its own call,
`PutPlaces` that a coroutine is scheduled once or parked under the key of the item it
carries, `Stowed` that what is stored is what the answered coroutines carried. `RefusedPutsHang` is
proved of the same programs: the caller of a put_nowait waits until its work is done
(`CallerWaits`), and no step takes a refused work out of that state.

Under `OneKeyEach` (a worker puts under one key) more holds: `PutsAreInOrder` (`InOrder`),
`PutsAreStored` (`ReturnedIsStored`), `OnlyRefusedPutsAreLost` (`OnlyNowaitDrops`: the refused
put is the item's own). `Chain` says that a put is called only after all puts of its worker are
done, so that by `InTurn` every coroutine has received its own item, which is what
the code hopes for when it matches calls with items by position. With two keys all three
fail (section 3).

**The get side.** For any mixture of gets: `ItemsStaySingle` (`EachItemOnce`), and
`OrderlyGetsReturnTheirKey`: an asynchronous get, or a get of a worker that makes none, returns an
item of its key. Hence, under `OneModeEach` (the gets of a worker are all asynchronous or none is),
`GetsReturnTheirKey` (`OwnKey`). The invariant is `GetSideInv`. `Mail` says that a message
with an item answers one get, which has no other answer anywhere and whose key is the item's;
`OneAnswer` that a worker with synchronous gets only has one answer under way, that of the get it is
in, so that ignoring the query id does no harm; `Receives` and `Ahead` that a receive takes
one message, before its get returns. A worker that mixes the two kinds can return from a
synchronous get with an asynchronous one's item, and that one's answer never comes.

**`DynamicScheduler_proofs`.** Invariants in layers, each kept given those before it; for every
placement, batch and choice of policies.
- `Books`: the invariant follows the GPUs in transit through each program point of the manager.
  `BooksAddUp` (`GpusAccounted`): between iterations the GPUs of actor, open instances,
  inference and the available ones add up to the cluster. It rests on `ActorGrowsToFit` (the
  actor never takes more than is available: the closing assertion of `try_allocate`)
  and `ReleaseFits` (no more instances are closed than there are: the closing assertion of
  `find_release_instance_num_needed`, with its rounding).
- `ProtocolInv`: for each program point of the manager and each instance, what is in the
  two queues, which of the instance's coroutines waits for what, and which groups it may
  have. `AnswersAreAwaited` (`AnswersFit`): an answer is always one to the request that waits for
  it. `Conserved`: groups generating, cut off, aborted, in a request or sent are those
  dealt out so far, from which `NoGroupIsLost` (`GroupsConserved`).
- `StageInv`, `FlowInv`, `LastInv`: how the actor's conversation with the manager runs, that it
  trains no more than was inferred and sent, and that the last iteration closes every instance
  and hears from inference. Together `NextStepStartsClean` (`NothingLeftBehind`).
- `FitsInv`, `WaitInv`: what is counted as held fits the cluster, and inference gives up its
  GPUs only after all instances have. With `UseWait` (use_wait_before_last_iter_policy)
  `LastIterationOnAll` (`LastIterationTakesAll`) and `NoGpuIsShared` (`NoSharedGpu`): what the
  components hold, not only what the manager counts, is disjoint.

**`CollectiveGroup_proofs`.** For any workers, programs of transfers, mixes of synchronous and
asynchronous calls, ports and parts. `QueueInv`: the items of a queue are the
asynchronous works of its line that were called and have not begun, in order
(`ItemsAreCalled`, `ItemsAreSorted`); a synchronous work runs only with its caller
waiting for it (`SyncIsTheCallers`), and `done` is set only on an idle thread
(`DoneMeansIdle`), so that a synchronous call that finds it set overtakes nothing; hence
`BegunInOrder` and `OneWorkPerLine` (`OneAtATime`). `SetupInv`: one thread of a worker is in the
set-up of a group, only if the group is missing (`SetUpAlone`, `SetUpIfMissing`), and
whoever joins does so at the port of which the master holds the lock
(`JoinsAtTheMasters`, `PortIsTheGroups`); hence `GroupsAreSetUpOnce` (`OneSetUpPerGroup`). `WireInv`:
what was sent of a transfer has arrived or is the one part on the wire of its line
(`SentIsGotOrOnWire`, `WireIsItsLines`); hence `OrderIsStrict` (`StrictOrder`).

**`DynamicBatch_proofs`.** `NothingIsHeldBack` (`NothingHeldBack`) has no hypothesis: with and without the
pipeline, for rounds of any size. Its invariant `ShareInv` says that all ranks have inferred
equally much (`SameTotal`), that what a rank holds and has asked for is within its share
(`WithinShare`), and that once a rank goes to infer no rank changes its agreed number before
all have (`InferAgreed`): where the ranks part (section 5) none of them comes to its end.
`StopTogether` (`RanksStopTogether`) needs `BeginsAlike`: no pipeline, or rounds of at most
two, where what a rank keeps never exceeds what a round must begin with. It is the hypothesis
without which the property is false, as `dynamic_batch_uneven` shows for rounds of three. Its
invariant `IInv` adds to `ShareInv` that all ranks are at the same stage of the same round
(`SameStage`) and that ranks in the loop agree on their last length (`FirstCount`, `SameCount`).

**`AsyncPPO_proofs`.** `BatchIsFresh` (`TrainedIsFresh`) and `BatchIsOnPolicy` (`OnPolicyEnough`) for any
threshold, ratio, number of ranks, buckets and chunks, and `TypeCorrect` (`TypeOK`). The properties are about the weights
that made a chunk; the invariant links them to the tags the code checks: the rollout's tag
is no newer than any bucket (`Tagged`), a trajectory's tags no newer than what
made it (`Known`), and what a rank found when it reported its store ready is still so
when all of them train (`Gate`), since the version does not move before.

**`ReplayBuffer_proofs`.** For every configuration, size of window, cache and pool, and any number of
trajectories and restarts. The invariant is `MInv /\ KInv` (`BufferInvariant`):

- `IInv`: the cached window is that of the index whenever the versions agree; hence `WindowIsCurrent`
  (`SampleFromRecent`).
- `Ring`: the last ids of the index are in the slots behind the next one, in order, each with its
  data unless those are being inserted, and nothing else is cached; a trajectory is put out of
  its slot only by the one that pushes it out of the last `Slots`. `SampleInv` follows a sample drawn by the
  training thread through the ring; hence `SamplesAreRight` (`SampleIsRight`).
- `CheckpointInv`: what was written without `auto_save` lists no trajectory of its window without data.
  `DiskInv` says that the index on disk rises and is part of this one, `FileInv` that every trajectory added
  since the program was started is in a file or in a job that is to write it. Hence
  `CheckpointsLoad` (`LoadSucceeds`), for checkpoints and for the parts of a closed directory.
  `PartsCoverTheIndex` says of the same parts that they leave nothing out and take nothing twice.
- `FlushInv`: between two calls the directory has the last index and metadata, or a job is
  still to write them. A flush writes the index of the time when it runs, which is
  why jobs of several calls may overlap. Hence `SettledIsOnDisk`: once the jobs are done,
  everything is on disk. `DiskCatchesUp` adds that the jobs end, which TLC checks.

`SeqFacts` holds what the others share: what taking the head, appending, joining and removing do
to the members and the order of a sequence, and sums over finite sets (a sum over a sequence is
`SumFunction`, a fold, of which the lemmas prove the step from one element more).

**Only model-checked.** All liveness (`EveryAcquireReturns`, `EveryCallReturns`, `EveryPutReturns`,
`EveryGetReturns`, `GlobalStepEnds`, `EveryTransferCompletes`, `EveryRankEnds`, `DiskCatchesUp`,
`EveryStepEnds`) and the fairness of the refinement `GrantsInOrder`, whose steps are proved:
TLAPS here has no rule for fairness and ENABLED. Every safety property of the passing
runs is proved, under the hypotheses named above.

## 7. Not modelled, and why

*Of the modelled parts.* Dynamic batches: the Megatron twin (`workers/megatron_worker.py`), merging of
results. Replay buffer: clear, `enable_cache` off, `load_checkpoint` into a buffer that has
been sampled (the cached window would stay, `buffer.py:571`; nothing in the repository does it), a program that ends in the
middle of save_checkpoint, and single fields of a slot read while it is rewritten.
Asynchronous PPO: training itself, metrics, the background synchronisation that nobody waits
for with its coalesced requests (`async_huggingface_worker.py:148`), the patch syncer.

*Parts without a module.* Local channel, key replicas, port daemon, worker and node
tables, network emulation, broadcast and tensor transfers, placement, routing, micro-batch
iterators: `PROJECT.json` says of each what it is. Tracer, cluster start-up, runners' logging and checkpoints: I/O with
no concurrency of their own. Engines, models, environments and algorithms:
numerical or third-party code, which is most of the repository's lines and why the modelled
share of all lines is small.

*Failures.* Except for the restarts of `ReplayBuffer`, no worker fails in any module. RLinf answers a failed call by
stopping the program (`worker_group.py`, `_wait_for_results`), so that most of
what a crash would leave behind is not used again; the device lock of a dead
worker is an exception and is listed as a hazard.
