------------------------------ MODULE ChannelPut ------------------------------
(***************************************************************************)
(* Putting items into a channel from inside workers: Channel.put and       *)
(* put_nowait, the AsyncChannelWork that chains the puts of one key, the   *)
(* point-to-point transfer of the item, and the put coroutine of the       *)
(* ChannelWorker.                                                          *)
(*                                                                         *)
(* The call and the item travel apart: the remote call carries neither the *)
(* item nor its key, and the coroutine takes whichever item of the same    *)
(* worker comes next.  Remote calls may start in any order; items arrive   *)
(* in the order of the sends.  The u-th put of producer p is <<p, u>>, and *)
(* so are its remote call and its item.                                    *)
(***************************************************************************)
EXTENDS PeekQueue, SeqFacts

CONSTANTS
    Producers,      \* the workers that put
    Keys,
    Program,        \* Program[p]: the puts p makes, in order: [key |-> , mode |-> ]
    NoPut           \* "no put yet", "no item"

Modes == {"async", "sync", "nowait"}

ASSUME ProgramAssumption == Program \in [Producers -> Seq([key : Keys, mode : Modes])]

Puts == UNION {{<<p, i>> : i \in DOMAIN Program[p]} : p \in Producers}
KeyOf(u) == Program[u[1]][u[2]].key
Mode(u) == Program[u[1]][u[2]].mode

ASSUME NoPutAssumption == NoPut \notin Puts

VARIABLES
    made,           \* made[p]: how many puts p has made
    awaits,         \* awaits[p]: the put whose work p waits for, or NoPut
    last,           \* last[p][k]: last_future_per_key of p's process
    work,           \* work[u]: the AsyncChannelWork of u
    wire,           \* wire[p]: items p has sent that the channel has not received
    carried,        \* carried[u]: the item the coroutine of call u has received
    ready,          \* calls whose coroutine the event loop has yet to run
    queue,          \* queue[k]: _queue_map[k]
    got             \* got[k]: the items consumers have taken under k, in order

clientVars == <<made, awaits, last>>
vars == <<clientVars, work, wire, carried, ready, queue, got>>

Init ==
    /\ made = [p \in Producers |-> 0]
    /\ awaits = [p \in Producers |-> NoPut]
    /\ last = [p \in Producers |-> [k \in Keys |-> NoPut]]
    /\ work = [u \in Puts |-> "none"]
    /\ wire = [p \in Producers |-> <<>>]
    /\ carried = [u \in Puts |-> NoPut]
    /\ ready = <<>>
    /\ queue = [k \in Keys |-> NewQueue]
    /\ got = [k \in Keys |-> <<>>]

-----------------------------------------------------------------------------
(* The client. *)

(* Mutant: the puts of one key are not chained. *)
Enqueued_AtOnce(p, k) == "called"

(* AsyncChannelWork calls the actor at once, or when the work before it on  *)
(* the same key of the channel is done.                                     *)
Enqueued(p, k) ==
    IF last[p][k] = NoPut \/ work[last[p][k]] = "done" THEN "called" ELSE "chained"

(* Channel.put and put_nowait: create the work, send the item, and wait     *)
(* unless the put is asynchronous.  Nothing of this producer runs between   *)
(* the two, so a call that starts before its item was sent blocks until it  *)
(* is: they are one step.                                                   *)
Put(p) ==
    /\ awaits[p] = NoPut
    /\ made[p] < Len(Program[p])
    /\ LET u == <<p, made[p] + 1>> IN
        /\ made' = [made EXCEPT ![p] = @ + 1]
        /\ work' = [work EXCEPT ![u] = Enqueued(p, KeyOf(u))]
        /\ last' = [last EXCEPT ![p][KeyOf(u)] = u]
        /\ wire' = [wire EXCEPT ![p] = Append(@, u)]
        /\ awaits' = [awaits EXCEPT ![p] = IF Mode(u) = "async" THEN NoPut ELSE u]
    /\ UNCHANGED <<carried, ready, queue, got>>

(* wait returns when the future of the work is set. *)
WaitReturns(p) ==
    /\ awaits[p] # NoPut
    /\ work[awaits[p]] = "done"
    /\ awaits' = [awaits EXCEPT ![p] = NoPut]
    /\ UNCHANGED <<made, last, work, wire, carried, ready, queue, got>>

(* The remote call of u returned: the callback sets the future of u, which  *)
(* makes the next call on the same key, if that is already enqueued.  When  *)
(* the call raised, f.result() raises inside the callback and the future is *)
(* never set, so no step follows "raised".                                  *)
Follows(v, u) ==
    /\ v[1] = u[1] /\ KeyOf(v) = KeyOf(u) /\ v[2] > u[2]
    /\ \A i \in (u[2] + 1)..(v[2] - 1) : KeyOf(<<u[1], i>>) # KeyOf(u)

(* Mutant: the future of a work does not start the next one. *)
Complete_Unchained(u) ==
    /\ work[u] = "returned"
    /\ work' = [work EXCEPT ![u] = "done"]
    /\ UNCHANGED <<clientVars, wire, carried, ready, queue, got>>

Complete(u) ==
    /\ work[u] = "returned"
    /\ work' = [v \in Puts |->
        IF v = u THEN "done"
        ELSE IF Follows(v, u) /\ work[v] = "chained" THEN "called"
        ELSE work[v]]
    /\ UNCHANGED <<clientVars, wire, carried, ready, queue, got>>

-----------------------------------------------------------------------------
(* The channel worker. *)

Arrive(u) ==
    /\ work[u] = "called"
    /\ work' = [work EXCEPT ![u] = "running"]
    /\ ready' = Append(ready, u)
    /\ UNCHANGED <<clientVars, wire, carried, queue, got>>

Running(u) == ready # <<>> /\ Head(ready) = u

(* recv: the next item of the producer, whatever call it was sent with. *)
Receive(u) ==
    /\ Running(u)
    /\ carried[u] = NoPut
    /\ wire[u[1]] # <<>>
    /\ wire' = [wire EXCEPT ![u[1]] = Tail(@)]
    /\ carried' = [carried EXCEPT ![u] = Head(wire[u[1]])]
    /\ UNCHANGED <<clientVars, work, ready, queue, got>>

(* From here on the coroutine of u works for the item it received, under    *)
(* the key that came with the item; `nowait` came with the call.            *)
ItemQueue(u) == queue[KeyOf(carried[u])]

Store(u) ==
    /\ Running(u)
    /\ carried[u] # NoPut
    /\ ~Full(ItemQueue(u))
    /\ queue' = [queue EXCEPT ![KeyOf(carried[u])] = Stored(@, carried[u])]
    /\ ready' = Tail(ready)
    /\ work' = [work EXCEPT ![u] = "returned"]
    /\ UNCHANGED <<clientVars, wire, carried, got>>

StoreWait(u) ==
    /\ Running(u)
    /\ carried[u] # NoPut
    /\ Full(ItemQueue(u))
    /\ Mode(u) # "nowait"
    /\ queue' = [queue EXCEPT ![KeyOf(carried[u])] = AwaitRoom(@, u)]
    /\ ready' = Tail(ready)
    /\ UNCHANGED <<clientVars, work, wire, carried, got>>

StoreRaises(u) ==
    /\ Running(u)
    /\ carried[u] # NoPut
    /\ Full(ItemQueue(u))
    /\ Mode(u) = "nowait"
    /\ ready' = Tail(ready)
    /\ work' = [work EXCEPT ![u] = "raised"]
    /\ UNCHANGED <<clientVars, wire, carried, queue, got>>

(* Some consumer's get takes the first item and wakes the first putter.  A  *)
(* get that found nothing and waited acts when it runs again, so it is      *)
(* enough to let gets run at any time.                                      *)
Get(k) ==
    /\ ~Empty(queue[k])
    /\ queue' = [queue EXCEPT ![k] = Removed(@)]
    /\ got' = [got EXCEPT ![k] = Append(@, Head(queue[k].items))]
    /\ ready' = ready \o First(queue[k].putters)
    /\ UNCHANGED <<clientVars, work, wire, carried>>

RunReady == \E u \in Puts : Receive(u) \/ Store(u) \/ StoreWait(u) \/ StoreRaises(u)

Next ==
    \/ \E p \in Producers : Put(p) \/ WaitReturns(p)
    \/ \E u \in Puts : Complete(u) \/ Arrive(u)
    \/ RunReady
    \/ \E k \in Keys : Get(k)

Spec == Init /\ [][Next]_vars

(* Producers go on when they can, calls are delivered and answered, the     *)
(* event loop runs, and consumers keep taking items under every key.        *)
FairSpec ==
    /\ Spec
    /\ \A p \in Producers : WF_vars(Put(p)) /\ WF_vars(WaitReturns(p))
    /\ \A u \in Puts : WF_vars(Complete(u)) /\ WF_vars(Arrive(u))
    /\ WF_vars(RunReady)
    /\ \A k \in Keys : WF_vars(Get(k))

-----------------------------------------------------------------------------
(* All items that ever entered the queue of key k, in order. *)
History(k) == got[k] \o queue[k].items

(* "A FIFO queue-like channel" (channel.py): the items one producer puts    *)
(* under one key come out in the order of the calls, although asynchronous  *)
(* puts overlap and a put that waits for room can be passed by a newcomer.  *)
InOrder ==
    \A k \in Keys : \A i, j \in DOMAIN History(k) :
        i < j /\ History(k)[i][1] = History(k)[j][1] =>
            History(k)[i][2] < History(k)[j][2]

(* A put that has returned to its caller has stored its item, as            *)
(* asyncio.Queue.put does; size queries and get_nowait may rely on it.      *)
ReturnedIsStored ==
    \A u \in Puts : work[u] = "done" => Has(History(KeyOf(u)), u)

(* An item that was sent is still on its way, or stored, unless its own     *)
(* put_nowait was refused.                                                  *)
Pending(u) ==
    \/ Has(wire[u[1]], u)
    \/ \E v \in Puts : carried[v] = u /\ work[v] = "running"

OnlyNowaitDrops ==
    \A u \in Puts :
        work[u] # "none" =>
            \/ Pending(u)
            \/ Has(History(KeyOf(u)), u)
            \/ Mode(u) = "nowait" /\ work[u] = "raised"

(* u has returned to its caller; an asynchronous put returns at once, and   *)
(* its work can be waited for.                                              *)
Returned(u) == work[u] = "done" /\ awaits[u[1]] # u

(* u raised in the channel worker, which its caller never learns.           *)
Refused(u) == work[u] = "raised"

(* Every put returns to its caller while consumers keep getting: the chain  *)
(* never breaks and no put waits for room for ever.  What is refused is     *)
(* excepted, with whatever its producer would put after it: f.result()      *)
(* raises in the done callback (async_work.py), so that put_nowait waits    *)
(* for ever instead of raising asyncio.QueueFull, as its docstring has it.  *)
EveryPutReturns ==
    \A u \in Puts : <>(Returned(u) \/ \E i \in 1..u[2] : Refused(<<u[1], i>>))
=============================================================================
