------------------------------ MODULE ChannelGet ------------------------------
(***************************************************************************)
(* Taking items from a channel inside workers: Channel.get and get_nowait, *)
(* the get coroutine of the ChannelWorker, and AsyncChannelCommWork, which *)
(* sorts out answers that come in another order than the questions.        *)
(*                                                                         *)
(* A get makes a remote call and posts a receive from the channel worker.  *)
(* The n-th receive of a consumer takes the n-th message the channel sends *)
(* it, whichever get that message answers; the message carries the query   *)
(* id of the get it answers, which here is the get itself: the g-th get of *)
(* consumer c is <<c, g>>.  get_batch uses the same client code as get.    *)
(***************************************************************************)
EXTENDS PeekQueue, SeqFacts

CONSTANTS
    Consumers,      \* the workers that get
    Keys,
    Program,        \* Program[c]: the gets c makes, in order: [key |-> , mode |-> ]
    Items,          \* the items producers put
    KeyOfItem,      \* KeyOfItem[i]: the key item i is put under
    Nothing         \* no message, no item; also asyncio.QueueEmpty

Modes == {"async", "sync", "nowait"}

ASSUME ProgramAssumption ==
    /\ Program \in [Consumers -> Seq([key : Keys, mode : Modes])]
    /\ KeyOfItem \in [Items -> Keys]
    /\ MaxSize = 0

Gets == UNION {{<<c, i>> : i \in DOMAIN Program[c]} : c \in Consumers}
KeyOf(g) == Program[g[1]][g[2]].key
Mode(g) == Program[g[1]][g[2]].mode

(* For get_nowait on an empty queue a message names no query.               *)
Message == [query : Gets \cup {Nothing}, item : Items \cup {Nothing}]

ASSUME ItemsAssumption ==
    /\ Nothing \notin Items /\ Nothing \notin Gets /\ Nothing \notin Message
    /\ \A i \in Items : i \notin {"absent", "pending", "none", "raised"}

VARIABLES
    made,           \* made[c]: how many gets c has begun
    stage,          \* stage[c]: how far c is in the last of them
    receives,       \* receives[c]: gets whose receive waits for a message
    inbox,          \* inbox[g]: the message the receive of g took, or Nothing
    store,          \* store[g]: channel_data_store[g]: absent, or its future
    result,         \* result[g]: what g has returned
    call,           \* call[g]: the remote call of g
    wire,           \* wire[c]: messages to c that no receive has taken
    unput,          \* the items not put yet
    queue,          \* queue[k]: _queue_map[k]
    ready           \* calls whose coroutine the event loop has yet to run

clientVars == <<made, stage, receives, inbox, store, result>>
vars == <<clientVars, call, wire, unput, queue, ready>>

Init ==
    /\ made = [c \in Consumers |-> 0]
    /\ stage = [c \in Consumers |-> "idle"]
    /\ receives = [c \in Consumers |-> <<>>]
    /\ inbox = [g \in Gets |-> Nothing]
    /\ store = [g \in Gets |-> "absent"]
    /\ result = [g \in Gets |-> "none"]
    /\ call = [g \in Gets |-> "none"]
    /\ wire = [c \in Consumers |-> <<>>]
    /\ unput = Items
    /\ queue = [k \in Keys |-> NewQueue]
    /\ ready = <<>>

-----------------------------------------------------------------------------
(* The consumer: a get makes its remote call, posts its receive, and then   *)
(* returns its work or its item; c does nothing else meanwhile.             *)

Current(c) == <<c, made[c]>>

(* The part of an asynchronous get that is over: its work exists.           *)
Wrapped(g) ==
    /\ Mode(g) = "async"
    /\ g[2] < made[g[1]] \/ (g = Current(g[1]) /\ stage[g[1]] = "idle")

Call(c) ==
    /\ stage[c] = "idle"
    /\ made[c] < Len(Program[c])
    /\ made' = [made EXCEPT ![c] = @ + 1]
    /\ stage' = [stage EXCEPT ![c] = "called"]
    /\ call' = [call EXCEPT ![<<c, made[c] + 1>>] = "called"]
    /\ UNCHANGED <<receives, inbox, store, result, wire, unput, queue, ready>>

(* recv: the receive joins the work queue of the collective group.          *)
Post(c) ==
    /\ stage[c] = "called"
    /\ stage' = [stage EXCEPT ![c] = "posted"]
    /\ receives' = [receives EXCEPT ![c] = Append(@, Current(c))]
    /\ UNCHANGED <<made, inbox, store, result, call, wire, unput, queue, ready>>

(* Mutant: the work makes a new future whatever is stored. *)
Wrap_Anew(c) ==
    /\ stage[c] = "posted"
    /\ Mode(Current(c)) = "async"
    /\ store' = [store EXCEPT ![Current(c)] = "pending"]
    /\ stage' = [stage EXCEPT ![c] = "idle"]
    /\ UNCHANGED <<made, receives, inbox, result, call, wire, unput, queue, ready>>

(* An asynchronous get returns an AsyncChannelCommWork, which waits for the *)
(* future stored under the query.  An earlier receive may have taken the    *)
(* answer and stored it already.                                            *)
Wrap(c) ==
    /\ stage[c] = "posted"
    /\ Mode(Current(c)) = "async"
    /\ store' = [store EXCEPT ![Current(c)] = IF @ = "absent" THEN "pending" ELSE @]
    /\ stage' = [stage EXCEPT ![c] = "idle"]
    /\ UNCHANGED <<made, receives, inbox, result, call, wire, unput, queue, ready>>

(* The group runs the receives of a worker one after another.               *)
Receive(c) ==
    /\ receives[c] # <<>>
    /\ wire[c] # <<>>
    /\ inbox' = [inbox EXCEPT ![Head(receives[c])] = Head(wire[c])]
    /\ receives' = [receives EXCEPT ![c] = Tail(@)]
    /\ wire' = [wire EXCEPT ![c] = Tail(@)]
    /\ UNCHANGED <<made, stage, store, result, call, unput, queue, ready>>

(* Mutant: the message is filed under the get whose receive took it.        *)
StoreData_OwnReceive(g) ==
    /\ Wrapped(g)
    /\ inbox[g] # Nothing
    /\ inbox' = [inbox EXCEPT ![g] = Nothing]
    /\ store' = [store EXCEPT ![g] = inbox[g].item]
    /\ UNCHANGED <<made, stage, receives, result, call, wire, unput, queue, ready>>

(* _store_channel_data, the callback of a receive posted by an asynchronous *)
(* get: the message is filed under the query it answers, and one that       *)
(* answers none where nobody looks.                                         *)
StoreData(g) ==
    /\ Wrapped(g)
    /\ inbox[g] # Nothing
    /\ inbox' = [inbox EXCEPT ![g] = Nothing]
    /\ store' = [q \in Gets |-> IF q = inbox[g].query THEN inbox[g].item ELSE store[q]]
    /\ UNCHANGED <<made, stage, receives, result, call, wire, unput, queue, ready>>

(* wait on the work of an asynchronous get, at any later time.              *)
AsyncReturns(g) ==
    /\ Wrapped(g)
    /\ store[g] \in Items
    /\ result' = [result EXCEPT ![g] = store[g]]
    /\ store' = [store EXCEPT ![g] = "absent"]
    /\ UNCHANGED <<made, stage, receives, inbox, call, wire, unput, queue, ready>>

(* A synchronous get returns what its receive took and ignores the query;   *)
(* get_nowait looks whether the query is QueueEmpty.                        *)
SyncReturns(c) ==
    LET g == Current(c) IN
    /\ stage[c] = "posted"
    /\ Mode(g) # "async"
    /\ inbox[g] # Nothing
    /\ inbox' = [inbox EXCEPT ![g] = Nothing]
    /\ result' = [result EXCEPT ![g] =
            IF Mode(g) = "nowait" /\ inbox[g].query = Nothing
            THEN "raised" ELSE inbox[g].item]
    /\ stage' = [stage EXCEPT ![c] = "idle"]
    /\ UNCHANGED <<made, receives, store, call, wire, unput, queue, ready>>

-----------------------------------------------------------------------------
(* The channel worker.                                                      *)

Arrive(g) ==
    /\ call[g] = "called"
    /\ call' = [call EXCEPT ![g] = "running"]
    /\ ready' = Append(ready, g)
    /\ UNCHANGED <<clientVars, wire, unput, queue>>

(* A put of some producer stores its item and wakes the first getter.       *)
PutItem(i) ==
    /\ i \in unput
    /\ unput' = unput \ {i}
    /\ queue' = [queue EXCEPT ![KeyOfItem[i]] = Stored(@, i)]
    /\ ready' = ready \o First(queue[KeyOfItem[i]].getters)
    /\ UNCHANGED <<clientVars, call, wire>>

Running(g) == ready # <<>> /\ Head(ready) = g

(* The coroutine of g sends its answer and ends.                            *)
Answer(g, message) ==
    /\ wire' = [wire EXCEPT ![g[1]] = Append(@, message)]
    /\ call' = [call EXCEPT ![g] = "answered"]
    /\ ready' = Tail(ready)

(* Mutant: a woken getter is given the item without taking it off.          *)
Get_Peeks(g) ==
    /\ Running(g)
    /\ ~Empty(queue[KeyOf(g)])
    /\ Answer(g, [query |-> g, item |-> Head(queue[KeyOf(g)].items)])
    /\ UNCHANGED <<clientVars, unput, queue>>

Get(g) ==
    /\ Running(g)
    /\ ~Empty(queue[KeyOf(g)])
    /\ queue' = [queue EXCEPT ![KeyOf(g)] = Removed(@)]
    /\ Answer(g, [query |-> g, item |-> Head(queue[KeyOf(g)].items)])
    /\ UNCHANGED <<clientVars, unput>>

GetWait(g) ==
    /\ Running(g)
    /\ Empty(queue[KeyOf(g)])
    /\ Mode(g) # "nowait"
    /\ queue' = [queue EXCEPT ![KeyOf(g)] = AwaitItem(@, g)]
    /\ ready' = Tail(ready)
    /\ UNCHANGED <<clientVars, call, wire, unput>>

(* QueueEmpty is caught, and sent in the place of the query.                *)
GetEmpty(g) ==
    /\ Running(g)
    /\ Empty(queue[KeyOf(g)])
    /\ Mode(g) = "nowait"
    /\ Answer(g, [query |-> Nothing, item |-> Nothing])
    /\ UNCHANGED <<clientVars, unput, queue>>

RunReady == \E g \in Gets : Get(g) \/ GetWait(g) \/ GetEmpty(g)

Next ==
    \/ \E c \in Consumers :
        Call(c) \/ Post(c) \/ Wrap(c) \/ Receive(c) \/ SyncReturns(c)
    \/ \E g \in Gets : StoreData(g) \/ AsyncReturns(g) \/ Arrive(g)
    \/ \E i \in Items : PutItem(i)
    \/ RunReady

Spec == Init /\ [][Next]_vars

(* Consumers run and wait for what they asked, calls and messages are       *)
(* delivered, the event loop runs and every item is put.                    *)
FairSpec ==
    /\ Spec
    /\ \A c \in Consumers :
        /\ WF_vars(Call(c)) /\ WF_vars(Post(c)) /\ WF_vars(Wrap(c))
        /\ WF_vars(Receive(c)) /\ WF_vars(SyncReturns(c))
    /\ \A g \in Gets :
        WF_vars(StoreData(g)) /\ WF_vars(AsyncReturns(g)) /\ WF_vars(Arrive(g))
    /\ \A i \in Items : WF_vars(PutItem(i))
    /\ WF_vars(RunReady)

-----------------------------------------------------------------------------
(* "The target worker can then use this key to retrieve the specific data   *)
(* item" (channel.py): a get returns an item that was put under its key.    *)
OwnKey == \A g \in Gets : result[g] \in Items => KeyOfItem[result[g]] = KeyOf(g)

InMessage(m, i) == m # Nothing /\ m.item = i

(* Between the producer and the caller every item is in exactly one place,  *)
(* although answers overtake each other.                                    *)
EachItemOnce ==
    \A i \in Items :
        LET places ==
            {<<"unput", i>> : x \in unput \cap {i}}
            \cup {<<"queue", k>> : k \in {k \in Keys : Has(queue[k].items, i)}}
            \cup {<<"wire", c>> : c \in {c \in Consumers :
                    \E n \in DOMAIN wire[c] : InMessage(wire[c][n], i)}}
            \cup {<<"inbox", g>> : g \in {g \in Gets : InMessage(inbox[g], i)}}
            \cup {<<"store", g>> : g \in {g \in Gets : store[g] = i}}
            \cup {<<"result", g>> : g \in {g \in Gets : result[g] = i}}
        IN \E p \in places : places = {p}

(* Every get comes back when there are items enough under its key, whatever *)
(* order the answers come in and however consumers share a key.             *)
EveryGetReturns == \A g \in Gets : <>(result[g] # "none")
=============================================================================
