------------------------------- MODULE PeekQueue -------------------------------
(***************************************************************************)
(* The queue behind one key of a channel: PeekQueue, a subclass of         *)
(* asyncio.Queue.  A coroutine that finds the queue empty (or full) parks  *)
(* a future at the end of getters (or putters); storing an item wakes the  *)
(* first getter, removing one wakes the first putter.  A woken coroutine   *)
(* leaves its list at once but runs later, after whatever the event loop   *)
(* has already scheduled, and then looks at the queue again.               *)
(***************************************************************************)
EXTENDS Integers, Sequences

CONSTANT MaxSize        \* maxsize of the queue; 0 means unbounded

ASSUME MaxSizeAssumption == MaxSize \in Nat

NewQueue == [items |-> <<>>, getters |-> <<>>, putters |-> <<>>]

Empty(q) == q.items = <<>>

Full(q) == MaxSize > 0 /\ Len(q.items) >= MaxSize

(* Queue._wakeup_next pops at most one waiter. *)
First(waiters) == IF waiters = <<>> THEN <<>> ELSE <<Head(waiters)>>
Others(waiters) == IF waiters = <<>> THEN <<>> ELSE Tail(waiters)

(* put_nowait on a queue that is not full; it wakes First(q.getters). *)
Stored(q, x) == [q EXCEPT !.items = Append(@, x), !.getters = Others(@)]

(* get_nowait on a queue that is not empty; it wakes First(q.putters). *)
Removed(q) == [q EXCEPT !.items = Tail(@), !.putters = Others(@)]

(* What get, put and peek do when they must wait. *)
AwaitItem(q, c) == [q EXCEPT !.getters = Append(@, c)]
AwaitRoom(q, c) == [q EXCEPT !.putters = Append(@, c)]
=============================================================================
