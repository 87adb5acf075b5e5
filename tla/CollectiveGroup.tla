---------------------------- MODULE CollectiveGroup ----------------------------
(***************************************************************************)
(* Point-to-point communication of workers: Worker.send and recv through   *)
(* the CollectiveGroup of two workers, which is set up when it is first    *)
(* used.  In each worker a caller makes the calls of its program one after *)
(* the other; for each group and direction a CollectiveWorkQueue thread    *)
(* runs the asynchronous ones.  A synchronous call waits until the queue   *)
(* of its direction is done and then runs in the caller itself.            *)
(*                                                                         *)
(* A transfer has two ends, the send and the recv, which are the works the *)
(* threads run.  Workers call in the order of Transfers, so that each send *)
(* has the recv it is meant for; whether a call is synchronous is chosen   *)
(* freely for each end.                                                    *)
(***************************************************************************)
EXTENDS Integers, Sequences, FiniteSets

CONSTANTS
    Workers,        \* workers of one node, numbered in the order of their names
    Transfers,      \* the transfers of a run, in the order of the programs
    Ports,          \* ports of the node
    Modes,          \* the choices of a mode for every end
    Parts,          \* the tensors of a transfer: type, size or metadata, data
    NoPort, NoWorker

ASSUME WorkersAssumption == Workers \subseteq Nat /\ NoWorker \notin Workers
ASSUME PartsAssumption == Parts \in Nat \ {0}
ASSUME PortsAssumption == NoPort \notin Ports
ASSUME TransfersAssumption ==
    /\ Transfers \in Seq([src : Workers, dst : Workers])
    /\ \A t \in DOMAIN Transfers : Transfers[t].src # Transfers[t].dst

Ends == (DOMAIN Transfers) \X {"send", "recv"}

ASSUME ModesAssumption == Modes \subseteq [Ends -> {"sync", "async", "awaited"}]

Owner(e) == IF e[2] = "send" THEN Transfers[e[1]].src ELSE Transfers[e[1]].dst
PeerOf(e) == IF e[2] = "send" THEN Transfers[e[1]].dst ELSE Transfers[e[1]].src

(* The work queue that serves an end: of a worker, to a peer, one direction. *)
Line(e) == <<Owner(e), PeerOf(e), e[2]>>
Lines == {Line(e) : e \in Ends}

Group(e) == {Owner(e), PeerOf(e)}
Groups == {Group(e) : e \in Ends}

(* The names are sorted, and the first worker of the group is its master.   *)
IsMaster(e) == Owner(e) < PeerOf(e)

VARIABLES
    mode,           \* mode[e]: how e is called
    place,          \* place[w]: the last transfer whose end w has called
    caller,         \* caller[w]: the end its caller is busy with, and how
    line,           \* line[l]: _work_queue, _work_done and the work its thread runs
    phase,          \* phase[e]: how far the work of e is
    registered,     \* workers the WorkerManager knows
    info,           \* groups registered with the CollectiveManager
    port,           \* port[g]: master_port of the CollectiveManager
    portLock,       \* portLock[p]: the owner of the port in the PortLockManager
    myPort,         \* myPort[w][g]: the port w uses to set up g
    initialized,    \* initialized[w]: groups whose _mc_group is set up in w
    sent,           \* sent[t]: parts of t that its send handed to the transport
    wire,           \* wire[l]: the part under way from the sending line l
    got             \* got[t]: the parts its recv was given, in order

callVars == <<place, caller, line>>
setupVars == <<registered, info, port, portLock, myPort, initialized>>
wireVars == <<sent, wire, got>>
vars == <<mode, callVars, phase, setupVars, wireVars>>

Idle == [doing |-> "ready"]

Init ==
    /\ mode \in Modes
    /\ place = [w \in Workers |-> 0]
    /\ caller = [w \in Workers |-> Idle]
    /\ line = [l \in Lines |-> [items |-> <<>>, done |-> TRUE, runs |-> <<>>]]
    /\ phase = [e \in Ends |-> "uncalled"]
    /\ registered = {}
    /\ info = {}
    /\ port = [g \in Groups |-> NoPort]
    /\ portLock = [p \in Ports |-> NoWorker]
    /\ myPort = [w \in Workers |-> [g \in Groups |-> NoPort]]
    /\ initialized = [w \in Workers |-> {}]
    /\ sent = [t \in DOMAIN Transfers |-> 0]
    /\ wire = [l \in {l \in Lines : l[3] = "send"} |-> <<>>]
    /\ got = [t \in DOMAIN Transfers |-> <<>>]

-----------------------------------------------------------------------------
(* The caller. *)

(* The next end in the program of w. *)
IsNext(w, e) ==
    /\ Owner(e) = w
    /\ e[1] > place[w]
    /\ \A t \in place[w] + 1 .. e[1] - 1 : w \notin {Transfers[t].src, Transfers[t].dst}

(* Mutant: a queue that is given work still says that it is done. *)
Enqueue_StillDone(e) == line' = [line EXCEPT ![Line(e)].items = Append(@, e)]

Enqueue(e) ==
    line' = [line EXCEPT ![Line(e)].items = Append(@, e), ![Line(e)].done = FALSE]

(* A worker makes itself known when it is created, before any call. *)
Registers(w) ==
    /\ w \notin registered
    /\ registered' = registered \cup {w}
    /\ UNCHANGED <<mode, callVars, phase, info, port, portLock, myPort, initialized, wireVars>>

(* send or recv: the work is enqueued, or the caller starts to wait for the *)
(* queue.                                                                   *)
Call(w, e) ==
    /\ w \in registered
    /\ caller[w] = Idle
    /\ IsNext(w, e)
    /\ place' = [place EXCEPT ![w] = e[1]]
    /\ phase' = [phase EXCEPT ![e] = "called"]
    /\ IF mode[e] = "sync"
       THEN /\ caller' = [caller EXCEPT ![w] = [doing |-> "drain", end |-> e]]
            /\ UNCHANGED line
       ELSE /\ Enqueue(e)
            /\ caller' = [caller EXCEPT ![w] =
                             IF mode[e] = "awaited" THEN [doing |-> "wait", end |-> e] ELSE Idle]
    /\ UNCHANGED <<mode, setupVars, wireVars>>

(* Mutant: a synchronous call overtakes the asynchronous ones. *)
Drained_Overtakes(w, e) ==
    /\ caller[w] = [doing |-> "drain", end |-> e]
    /\ phase' = [phase EXCEPT ![e] = "started"]
    /\ caller' = [caller EXCEPT ![w] = [doing |-> "wait", end |-> e]]
    /\ UNCHANGED <<mode, place, line, setupVars, wireVars>>

(* The queue is done: the caller runs the synchronous work itself. *)
Drained(w, e) ==
    /\ caller[w] = [doing |-> "drain", end |-> e]
    /\ line[Line(e)].done
    /\ phase' = [phase EXCEPT ![e] = "started"]
    /\ caller' = [caller EXCEPT ![w] = [doing |-> "wait", end |-> e]]
    /\ UNCHANGED <<mode, place, line, setupVars, wireVars>>

Return(w, e) ==
    /\ caller[w] = [doing |-> "wait", end |-> e]
    /\ phase[e] = "complete"
    /\ caller' = [caller EXCEPT ![w] = Idle]
    /\ UNCHANGED <<mode, place, line, phase, setupVars, wireVars>>

-----------------------------------------------------------------------------
(* The thread of a work queue. *)

(* Mutant: a thread without work does not say that the queue is done. *)
FindsNone_Silent(l) ==
    /\ line[l].runs = <<>>
    /\ line[l].items = <<>>
    /\ ~line[l].done
    /\ UNCHANGED vars

(* Without work the thread says so, and waits for work without the lock. *)
FindsNone(l) ==
    /\ line[l].runs = <<>>
    /\ line[l].items = <<>>
    /\ ~line[l].done
    /\ line' = [line EXCEPT ![l].done = TRUE]
    /\ UNCHANGED <<mode, place, caller, phase, setupVars, wireVars>>

Takes(l) ==
    /\ line[l].runs = <<>>
    /\ line[l].items # <<>>
    /\ line' = [line EXCEPT ![l].items = Tail(@), ![l].runs = <<Head(line[l].items)>>]
    /\ phase' = [phase EXCEPT ![Head(line[l].items)] = "started"]
    /\ UNCHANGED <<mode, place, caller, setupVars, wireVars>>

Finishes(l) ==
    /\ line[l].runs # <<>>
    /\ phase[line[l].runs[1]] = "complete"
    /\ line' = [line EXCEPT ![l].runs = <<>>]
    /\ UNCHANGED <<mode, place, caller, phase, setupVars, wireVars>>

-----------------------------------------------------------------------------
(* _init_process_group, run at the start of every work, under the lock of   *)
(* the group in its worker.                                                 *)

InSetup == {"setup", "known", "joins", "joined"}

Moves(e, p) == phase' = [phase EXCEPT ![e] = p]

Locks(e) ==
    /\ phase[e] = "started"
    /\ \A f \in Ends : Owner(f) = Owner(e) /\ Group(f) = Group(e) => phase[f] \notin InSetup
    /\ Moves(e, IF Group(e) \in initialized[Owner(e)] THEN "transfers" ELSE "setup")
    /\ UNCHANGED <<mode, callVars, setupVars, wireVars>>

(* The master waits until the other worker is known and registers the group. *)
RegistersGroup(e) ==
    /\ phase[e] = "setup" /\ IsMaster(e)
    /\ Group(e) \subseteq registered
    /\ info' = info \cup {Group(e)}
    /\ Moves(e, "known")
    /\ UNCHANGED <<mode, callVars, registered, port, portLock, myPort, initialized, wireVars>>

FindsGroup(e) ==
    /\ phase[e] = "setup" /\ ~IsMaster(e)
    /\ Group(e) \in info
    /\ Moves(e, "known")
    /\ UNCHANGED <<mode, callVars, setupVars, wireVars>>

(* Ports a process listens on, which the system does not hand out. *)
Bound == {p \in Ports : \E e \in Ends :
             /\ IsMaster(e)
             /\ myPort[Owner(e)][Group(e)] = p
             /\ Group(e) \in initialized[Owner(e)] \/ phase[e] = "joined"}

(* Mutant: the port need not be free of a lock. *)
PublishesPort_Unlocked(e) ==
    /\ phase[e] = "known" /\ IsMaster(e)
    /\ \E p \in Ports \ Bound :
        /\ portLock' = [portLock EXCEPT ![p] = Owner(e)]
        /\ myPort' = [myPort EXCEPT ![Owner(e)][Group(e)] = p]
        /\ port' = [port EXCEPT ![Group(e)] = p]
    /\ Moves(e, "joins")
    /\ UNCHANGED <<mode, callVars, registered, info, initialized, wireVars>>

(* The master takes the lock of a port that is free and publishes it. *)
PublishesPort(e) ==
    /\ phase[e] = "known" /\ IsMaster(e)
    /\ \E p \in Ports \ Bound :
        /\ portLock[p] = NoWorker
        /\ portLock' = [portLock EXCEPT ![p] = Owner(e)]
        /\ myPort' = [myPort EXCEPT ![Owner(e)][Group(e)] = p]
        /\ port' = [port EXCEPT ![Group(e)] = p]
    /\ Moves(e, "joins")
    /\ UNCHANGED <<mode, callVars, registered, info, initialized, wireVars>>

ReadsPort(e) ==
    /\ phase[e] = "known" /\ ~IsMaster(e)
    /\ port[Group(e)] # NoPort
    /\ myPort' = [myPort EXCEPT ![Owner(e)][Group(e)] = port[Group(e)]]
    /\ Moves(e, "joins")
    /\ UNCHANGED <<mode, callVars, registered, info, port, portLock, initialized, wireVars>>

(* _mc_group.init returns in neither process before both have met at the    *)
(* same port.                                                               *)
Meet(e, f) ==
    /\ phase[e] = "joins" /\ phase[f] = "joins"
    /\ IsMaster(e) /\ Group(f) = Group(e) /\ Owner(f) = PeerOf(e)
    /\ myPort[Owner(e)][Group(e)] = myPort[Owner(f)][Group(e)]
    /\ phase' = [phase EXCEPT ![e] = "joined", ![f] = "joined"]
    /\ UNCHANGED <<mode, callVars, setupVars, wireVars>>

(* The master withdraws the port; both leave the lock and transfer. *)
SetUp(e) ==
    /\ phase[e] = "joined"
    /\ initialized' = [initialized EXCEPT ![Owner(e)] = @ \cup {Group(e)}]
    /\ port' = IF IsMaster(e) THEN [port EXCEPT ![Group(e)] = NoPort] ELSE port
    /\ Moves(e, "transfers")
    /\ UNCHANGED <<mode, callVars, registered, info, portLock, myPort, wireVars>>

-----------------------------------------------------------------------------
(* The send process group of one worker and the recv process group of its   *)
(* peer meet in a broadcast for every part, whatever works run at the ends. *)

SendsPart(e) ==
    /\ e[2] = "send" /\ phase[e] = "transfers"
    /\ sent[e[1]] < Parts
    /\ wire[Line(e)] = <<>>
    /\ sent' = [sent EXCEPT ![e[1]] = @ + 1]
    /\ wire' = [wire EXCEPT ![Line(e)] = <<[of |-> e[1], part |-> sent[e[1]] + 1]>>]
    /\ UNCHANGED <<mode, callVars, phase, setupVars, got>>

(* The line at the other end of the line that e uses, for a recv. *)
Source(e) == <<PeerOf(e), Owner(e), "send">>

RecvsPart(e) ==
    /\ e[2] = "recv" /\ phase[e] = "transfers"
    /\ Source(e) \in DOMAIN wire /\ wire[Source(e)] # <<>>
    /\ got' = [got EXCEPT ![e[1]] = Append(@, wire[Source(e)][1])]
    /\ wire' = [wire EXCEPT ![Source(e)] = <<>>]
    /\ IF Len(got'[e[1]]) = Parts THEN Moves(e, "complete") ELSE UNCHANGED phase
    /\ UNCHANGED <<mode, callVars, setupVars, sent>>

(* The broadcast of the last part returns at the source: at the latest when *)
(* the part has arrived, but the transport may have taken it before that.   *)
SendReturns(e) ==
    /\ e[2] = "send" /\ phase[e] = "transfers"
    /\ sent[e[1]] = Parts
    /\ Moves(e, "complete")
    /\ UNCHANGED <<mode, callVars, setupVars, wireVars>>

-----------------------------------------------------------------------------
CallerStep ==
    \E w \in Workers :
        \/ Registers(w)
        \/ \E e \in Ends : Call(w, e) \/ Drained(w, e) \/ Return(w, e)
QueueStep == \E l \in Lines : FindsNone(l) \/ Takes(l) \/ Finishes(l)
SetupStep ==
    \E e \in Ends :
        \/ Locks(e) \/ RegistersGroup(e) \/ FindsGroup(e)
        \/ PublishesPort(e) \/ ReadsPort(e) \/ SetUp(e)
        \/ \E f \in Ends : Meet(e, f)
WireStep == \E e \in Ends : SendsPart(e) \/ RecvsPart(e) \/ SendReturns(e)

Next == CallerStep \/ QueueStep \/ SetupStep \/ WireStep

(* Steps that are bound to come. A send returns for certain only when its   *)
(* last part has arrived.                                                   *)
Due ==
    \/ CallerStep \/ QueueStep \/ SetupStep
    \/ \E e \in Ends : SendsPart(e) \/ RecvsPart(e)
    \/ \E e \in Ends : SendReturns(e) /\ wire[Line(e)] = <<>>

(* No step can be repeated without end, so it is enough that some thread    *)
(* that can move does.                                                      *)
Spec == Init /\ [][Next]_vars /\ WF_vars(Due)

-----------------------------------------------------------------------------
(* "communications of two calls of _atomic_send are guaranteed to be in the *)
(* same ordered as the send API is called": whatever mix of synchronous and *)
(* asynchronous calls, a recv is given the parts of its own send, in order. *)
StrictOrder ==
    \A t \in DOMAIN Transfers :
        got[t] = [k \in 1 .. Len(got[t]) |-> [of |-> t, part |-> k]]

(* One work at a time uses a line, although the caller and the thread of    *)
(* the queue both run works of it.                                          *)
OneAtATime ==
    \A e, f \in Ends :
        /\ Line(e) = Line(f)
        /\ {phase[e], phase[f]} \cap {"uncalled", "called", "complete"} = {}
        => e = f

(* A group is set up once, although the caller and the threads of a worker  *)
(* all find it missing, and although other groups are set up meanwhile: two *)
(* workers meet at one port if and only if they join the same group, and a  *)
(* worker locks one port for every group that it is the master of. Its      *)
(* locks last as long as the worker.                                        *)
OneSetUpPerGroup ==
    /\ \A e, f \in Ends :
           phase[e] \in {"joins", "joined"} /\ phase[f] \in {"joins", "joined"} =>
               (Group(e) = Group(f) <=>
                   myPort[Owner(e)][Group(e)] = myPort[Owner(f)][Group(f)])
    /\ \A w \in Workers :
           Cardinality({p \in Ports : portLock[p] = w}) =
           Cardinality({g \in Groups : myPort[w][g] # NoPort /\ \A v \in g : w <= v})

(* Workers that call in one order complete every transfer: no mix of        *)
(* synchronous and asynchronous calls, and no order of setting up groups,   *)
(* leaves two workers waiting for each other.                               *)
EveryTransferCompletes == <>(\A e \in Ends : phase[e] = "complete")
=============================================================================
