----------------------------- MODULE ChannelWorker -----------------------------
(***************************************************************************)
(* The ChannelWorker actor, which owns the queues of a channel.  Every     *)
(* remote call is a coroutine on one asyncio event loop; `ready` holds the *)
(* coroutines that can run, in the order in which they were scheduled.     *)
(*                                                                         *)
(* An item is named by the call that puts it.  How the item travels to and *)
(* from the worker is the subject of ChannelPut and ChannelGet; here a put *)
(* call carries it and the answer of a get is what `taken` holds when the  *)
(* call has returned.                                                      *)
(***************************************************************************)
EXTENDS PeekQueue, SeqFacts

CONSTANTS
    Calls,          \* the remote calls made on the worker
    Keys,           \* the keys in use
    Op,             \* Op[c]: the method called
    Key,            \* Key[c]: its key argument
    Weight,         \* Weight[c]: for a put, the weight of its item
    Target          \* Target[c]: for a get_batch, target_weight

Ops == {"put", "put_nowait", "get", "get_nowait", "get_batch"}

ASSUME CallsAssumption ==
    /\ Op \in [Calls -> Ops]
    /\ Key \in [Calls -> Keys]
    /\ Weight \in [Calls -> Nat]
    /\ Target \in [Calls -> Nat]

VARIABLES
    queue,          \* queue[k]: _queue_map[k]
    ready,          \* coroutines the event loop has yet to run
    pc,             \* pc[c]: the progress of call c
    taken,          \* taken[c]: the items c has taken off its queue, in order
    weight          \* weight[c]: current_weight of a get_batch

vars == <<queue, ready, pc, taken, weight>>

(* Every key starts with no items; create_queue gives a new key the maxsize *)
(* of the default key, so all queues have the same bound.                   *)
Init ==
    /\ queue = [k \in Keys |-> NewQueue]
    /\ ready = <<>>
    /\ pc = [c \in Calls |-> "unsent"]
    /\ taken = [c \in Calls |-> <<>>]
    /\ weight = [c \in Calls |-> 0]

Q(c) == queue[Key[c]]

(* The remote call reaches the actor and its coroutine is scheduled. *)
Arrive(c) ==
    /\ pc[c] = "unsent"
    /\ pc' = [pc EXCEPT ![c] = "scheduled"]
    /\ ready' = Append(ready, c)
    /\ UNCHANGED <<queue, taken, weight>>

-----------------------------------------------------------------------------
(* One run of the coroutine at the head of ready, up to its next suspension *)
(* or its end.                                                              *)

Running(c, op) == ready # <<>> /\ Head(ready) = c /\ Op[c] = op

Progress(c, state) == pc' = [pc EXCEPT ![c] = state]

(* Mutant: a woken put does not look again whether there is room. *)
Put_NoRecheck(c) ==
    /\ Running(c, "put") \/ Running(c, "put_nowait")
    /\ ~Full(Q(c)) \/ pc[c] = "waiting"
    /\ queue' = [queue EXCEPT ![Key[c]] = Stored(@, c)]
    /\ ready' = Tail(ready) \o First(Q(c).getters)
    /\ Progress(c, "returned")
    /\ UNCHANGED <<taken, weight>>

(* Mutant: storing an item wakes nobody. *)
Put_NoWake(c) ==
    /\ Running(c, "put") \/ Running(c, "put_nowait")
    /\ ~Full(Q(c))
    /\ queue' = [queue EXCEPT ![Key[c]].items = Append(@, c)]
    /\ ready' = Tail(ready)
    /\ Progress(c, "returned")
    /\ UNCHANGED <<taken, weight>>

(* put and put_nowait store the item and wake the first getter. *)
Put(c) ==
    /\ Running(c, "put") \/ Running(c, "put_nowait")
    /\ ~Full(Q(c))
    /\ queue' = [queue EXCEPT ![Key[c]] = Stored(@, c)]
    /\ ready' = Tail(ready) \o First(Q(c).getters)
    /\ Progress(c, "returned")
    /\ UNCHANGED <<taken, weight>>

PutWait(c) ==
    /\ Running(c, "put")
    /\ Full(Q(c))
    /\ queue' = [queue EXCEPT ![Key[c]] = AwaitRoom(@, c)]
    /\ ready' = Tail(ready)
    /\ Progress(c, "waiting")
    /\ UNCHANGED <<taken, weight>>

(* QueueFull: the item received with the call is gone. *)
PutRaises(c) ==
    /\ Running(c, "put_nowait")
    /\ Full(Q(c))
    /\ ready' = Tail(ready)
    /\ Progress(c, "raised")
    /\ UNCHANGED <<queue, taken, weight>>

(* Mutant: an item that is answered is only peeked at. *)
Take_Peeks(c) ==
    /\ taken' = [taken EXCEPT ![c] = Append(@, Head(Q(c).items))]
    /\ UNCHANGED queue

(* Remove the first item for c, and the first putter, which is woken. *)
Take(c) ==
    /\ queue' = [queue EXCEPT ![Key[c]] = Removed(@)]
    /\ taken' = [taken EXCEPT ![c] = Append(@, Head(Q(c).items))]

(* Mutant: taking an item wakes nobody. *)
Get_NoWake(c) ==
    /\ Running(c, "get") \/ Running(c, "get_nowait")
    /\ ~Empty(Q(c))
    /\ taken' = [taken EXCEPT ![c] = Append(@, Head(Q(c).items))]
    /\ queue' = [queue EXCEPT ![Key[c]].items = Tail(@)]
    /\ ready' = Tail(ready)
    /\ Progress(c, "returned")
    /\ UNCHANGED weight

Get(c) ==
    /\ Running(c, "get") \/ Running(c, "get_nowait")
    /\ ~Empty(Q(c))
    /\ Take(c)
    /\ ready' = Tail(ready) \o First(Q(c).putters)
    /\ Progress(c, "returned")
    /\ UNCHANGED weight

(* get, and get_batch in peek, wait for an item. *)
GetWait(c) ==
    /\ Running(c, "get") \/ Running(c, "get_batch")
    /\ Empty(Q(c))
    /\ queue' = [queue EXCEPT ![Key[c]] = AwaitItem(@, c)]
    /\ ready' = Tail(ready)
    /\ Progress(c, "waiting")
    /\ UNCHANGED <<taken, weight>>

(* get answers QueueEmpty in place of an item. *)
GetEmpty(c) ==
    /\ Running(c, "get_nowait")
    /\ Empty(Q(c))
    /\ ready' = Tail(ready)
    /\ Progress(c, "returned")
    /\ UNCHANGED <<queue, taken, weight>>

(* The loop of get_batch: peek and get do not suspend while there are       *)
(* items, so the coroutine stays at the head of ready between rounds.       *)
NextWeight(c) == weight[c] + Weight[Head(Q(c).items)]

(* Mutant: the target is compared with the weight before the next item. *)
BatchTake_LateCheck(c) ==
    /\ Running(c, "get_batch")
    /\ ~Empty(Q(c))
    /\ weight[c] <= Target[c]
    /\ Take(c)
    /\ weight' = [weight EXCEPT ![c] = NextWeight(c)]
    /\ ready' = Tail(ready) \o First(Q(c).putters)
    /\ Progress(c, "returned")

BatchTake(c) ==
    /\ Running(c, "get_batch")
    /\ ~Empty(Q(c))
    /\ NextWeight(c) <= Target[c]
    /\ Take(c)
    /\ weight' = [weight EXCEPT ![c] = NextWeight(c)]
    /\ \/ /\ NextWeight(c) < Target[c]
          /\ ready' = ready \o First(Q(c).putters)
          /\ UNCHANGED pc
       \/ /\ NextWeight(c) >= Target[c]
          /\ ready' = Tail(ready) \o First(Q(c).putters)
          /\ Progress(c, "returned")

(* The next item does not fit: the batch is sent as it is, and the item     *)
(* stays in the queue.                                                      *)
BatchStop(c) ==
    /\ Running(c, "get_batch")
    /\ ~Empty(Q(c))
    /\ NextWeight(c) > Target[c]
    /\ ready' = Tail(ready)
    /\ Progress(c, "returned")
    /\ UNCHANGED <<queue, taken, weight>>

RunReady ==
    \E c \in Calls :
        \/ Put(c) \/ PutWait(c) \/ PutRaises(c)
        \/ Get(c) \/ GetWait(c) \/ GetEmpty(c)
        \/ BatchTake(c) \/ BatchStop(c)

Next == RunReady \/ \E c \in Calls : Arrive(c)

Spec == Init /\ [][Next]_vars

(* The event loop runs; every call is eventually made. *)
FairSpec == Spec /\ WF_vars(RunReady) /\ \A c \in Calls : WF_vars(Arrive(c))

-----------------------------------------------------------------------------
IsPut(c) == Op[c] \in {"put", "put_nowait"}
Puts == {c \in Calls : IsPut(c)}

(* Types of the worker's variables. *)
TypeOK ==
    /\ queue \in [Keys -> [items : Seq(Puts), getters : Seq(Calls), putters : Seq(Calls)]]
    /\ ready \in Seq(Calls)
    /\ pc \in [Calls -> {"unsent", "scheduled", "waiting", "returned", "raised"}]
    /\ taken \in [Calls -> Seq(Puts)]
    /\ weight \in [Calls -> Nat]

InQueue(p) == \E k \in Keys : Has(queue[k].items, p)
TakenBy(p, c) == Has(taken[c], p)

(* No item is lost, handed out twice or moved to another key: the item of a *)
(* put that returned is in its queue or in the answer of one call on the    *)
(* same key, once, and that of any other put is nowhere.                    *)
EachItemOnce ==
    /\ \A k \in Keys : Unique(queue[k].items)
    /\ \A c \in Calls : Unique(taken[c])
    /\ \A p \in Puts :
        /\ pc[p] = "returned" <=> InQueue(p) \/ \E c \in Calls : TakenBy(p, c)
        /\ InQueue(p) => \A c \in Calls : ~TakenBy(p, c)
        /\ \A b, c \in Calls : TakenBy(p, b) /\ TakenBy(p, c) => b = c
        /\ \A k \in Keys : Has(queue[k].items, p) => k = Key[p]
        /\ \A c \in Calls : TakenBy(p, c) => Key[c] = Key[p]

(* A queue never holds more than maxsize items, however many putters are    *)
(* woken and however many newcomers run before them.                        *)
WithinMaxSize == MaxSize > 0 => \A k \in Keys : Len(queue[k].items) <= MaxSize

(* "If the queue ... is full, the enqueue will block until space becomes    *)
(* available" (channel.rst): when the event loop is idle no put waits for   *)
(* room that is there.                                                      *)
PuttersServed ==
    ready = <<>> => \A k \in Keys : Full(queue[k]) \/ queue[k].putters = <<>>

(* The same of getters, as asyncio.Queue promises: when the event loop is   *)
(* idle no get waits while its queue holds an item.                         *)
GettersServed ==
    ready = <<>> => \A k \in Keys : Empty(queue[k]) \/ queue[k].getters = <<>>

SumOfWeights(s) == SumFunction([i \in DOMAIN s |-> Weight[s[i]]])

(* A batch never exceeds its target, although it is collected over several  *)
(* suspensions between which other calls take items off the same queue.     *)
BatchWithinTarget ==
    \A c \in Calls : Op[c] = "get_batch" => SumOfWeights(taken[c]) <= Target[c]

(* With as many gets as puts every call returns: no put and no get is left  *)
(* behind by a wake-up that went to a call which could not use it.          *)
EveryCallReturns == \A c \in Calls : <>(pc[c] = "returned")
=============================================================================
