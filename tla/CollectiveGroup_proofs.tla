------------------------ MODULE CollectiveGroup_proofs ------------------------
(***************************************************************************)
(* The safety of point-to-point communication, for any workers, any        *)
(* programs of transfers, any mix of synchronous and asynchronous calls    *)
(* and any number of ports and of parts per transfer.                      *)
(*                                                                         *)
(* The invariant has three layers.  The works of a line take their turn in *)
(* the order of the calls (QueueInv); a worker sets up one group at a time *)
(* in one of its threads, at a port that its master holds (SetupInv); what *)
(* a transfer was sent is what it got and what is on the wire (WireInv).   *)
(***************************************************************************)
EXTENDS CollectiveGroup, SeqFacts, FiniteSetTheorems, FunctionTheorems

Phases == {"uncalled", "called", "started"} \cup InSetup \cup {"transfers", "complete"}
Messages == [of : DOMAIN Transfers, part : 1 .. Parts]
SendLines == {l \in Lines : l[3] = "send"}
SendLine(t) == Line(<<t, "send">>)

TypeOK ==
    /\ mode \in [Ends -> {"sync", "async", "awaited"}]
    /\ place \in [Workers -> Nat]
    /\ caller \in [Workers -> {Idle} \cup [doing : {"drain", "wait"}, end : Ends]]
    /\ line \in [Lines -> [items : Seq(Ends), done : BOOLEAN, runs : Seq(Ends)]]
    /\ phase \in [Ends -> Phases]
    /\ registered \in SUBSET Workers
    /\ info \in SUBSET Groups
    /\ port \in [Groups -> Ports \cup {NoPort}]
    /\ portLock \in [Ports -> Workers \cup {NoWorker}]
    /\ myPort \in [Workers -> [Groups -> Ports \cup {NoPort}]]
    /\ initialized \in [Workers -> SUBSET Groups]
    /\ sent \in [DOMAIN Transfers -> 0 .. Parts]
    /\ wire \in [SendLines -> Seq(Messages)]
    /\ got \in [DOMAIN Transfers -> Seq(Messages)]

-----------------------------------------------------------------------------
(* The queues. *)

Begun(e) == phase[e] \notin {"uncalled", "called"}
Running(e) == Begun(e) /\ phase[e] # "complete"

(* The ends that w has called are those of its program up to its place. *)
CalledInOrder == \A e \in Ends : phase[e] = "uncalled" <=> e[1] > place[Owner(e)]

(* A caller is busy with the last end it called. *)
CallerIsAtItsPlace ==
    \A w \in Workers : caller[w] # Idle =>
        /\ Owner(caller[w].end) = w
        /\ caller[w].end[1] = place[w]
        /\ caller[w].doing = "drain" =>
                mode[caller[w].end] = "sync" /\ phase[caller[w].end] = "called"

(* A synchronous work is under way only while its caller is busy with it. *)
SyncIsTheCallers ==
    \A e \in Ends : mode[e] = "sync" /\ phase[e] \notin {"uncalled", "complete"} =>
        /\ caller[Owner(e)] # Idle
        /\ caller[Owner(e)].end = e

(* The items of a queue are its asynchronous works that have not begun, in  *)
(* the order of their calls.                                                *)
ItemsAreCalled ==
    /\ \A e \in Ends : mode[e] # "sync" /\ phase[e] = "called" => Has(line[Line(e)].items, e)
    /\ \A l \in Lines : \A i \in DOMAIN line[l].items :
            LET e == line[l].items[i] IN
                Line(e) = l /\ mode[e] # "sync" /\ phase[e] = "called"

ItemsAreSorted ==
    \A l \in Lines : \A i, j \in DOMAIN line[l].items :
        i < j => line[l].items[i][1] < line[l].items[j][1]

(* An asynchronous work that has begun is the one its thread runs. *)
AsyncIsTheThreads ==
    \A e \in Ends : mode[e] # "sync" /\ Running(e) => line[Line(e)].runs = <<e>>

DoneMeansIdle ==
    \A l \in Lines : line[l].done => line[l].items = <<>> /\ line[l].runs = <<>>

(* A work begins only when the earlier ones of its line are complete. *)
BegunInOrder ==
    \A e, f \in Ends :
        Line(e) = Line(f) /\ e[1] < f[1] /\ Begun(f) => phase[e] = "complete"

QueueInv ==
    /\ CalledInOrder
    /\ CallerIsAtItsPlace
    /\ SyncIsTheCallers
    /\ ItemsAreCalled
    /\ ItemsAreSorted
    /\ AsyncIsTheThreads
    /\ DoneMeansIdle
    /\ BegunInOrder

-----------------------------------------------------------------------------
(* The groups. *)

Joining(e) == phase[e] \in {"joins", "joined"}

(* One thread of a worker is setting up a group, and only if it is missing. *)
SetUpAlone ==
    \A e, f \in Ends :
        phase[e] \in InSetup /\ phase[f] \in InSetup /\ Owner(e) = Owner(f)
            /\ Group(e) = Group(f) => e = f

SetUpIfMissing == \A e \in Ends : phase[e] \in InSetup => Group(e) \notin initialized[Owner(e)]

(* A master has a port for a group only if it is joining it or has set it up. *)
PortIsForAGroup ==
    \A e \in Ends : IsMaster(e) /\ myPort[Owner(e)][Group(e)] # NoPort =>
        \/ Group(e) \in initialized[Owner(e)]
        \/ \E f \in Ends : IsMaster(f) /\ Group(f) = Group(e) /\ Joining(f)

PublishedIsTheMasters ==
    \A e \in Ends : IsMaster(e) /\ port[Group(e)] # NoPort =>
        port[Group(e)] = myPort[Owner(e)][Group(e)]

(* Whoever joins a group does so at the port of its master. *)
JoinsAtTheMasters ==
    \A e, f \in Ends : IsMaster(e) /\ Group(f) = Group(e) /\ Joining(f) =>
        /\ myPort[Owner(e)][Group(e)] # NoPort
        /\ myPort[Owner(f)][Group(f)] = myPort[Owner(e)][Group(e)]

(* A port belongs to one group, and the master of that group has its lock. *)
PortIsTheGroups ==
    \A e \in Ends : IsMaster(e) /\ myPort[Owner(e)][Group(e)] # NoPort =>
        /\ portLock[myPort[Owner(e)][Group(e)]] = Owner(e)
        /\ \A f \in Ends : IsMaster(f)
                /\ myPort[Owner(f)][Group(f)] = myPort[Owner(e)][Group(e)] =>
                        Group(f) = Group(e)

PortsOfOwnGroups ==
    \A w \in Workers, g \in Groups : myPort[w][g] # NoPort => w \in g

LockedForAGroup ==
    \A p \in Ports : portLock[p] # NoWorker =>
        \E e \in Ends :
            IsMaster(e) /\ Owner(e) = portLock[p] /\ myPort[Owner(e)][Group(e)] = p

SetupInv ==
    /\ SetUpAlone
    /\ SetUpIfMissing
    /\ PortIsForAGroup
    /\ PublishedIsTheMasters
    /\ JoinsAtTheMasters
    /\ PortIsTheGroups
    /\ PortsOfOwnGroups
    /\ LockedForAGroup

-----------------------------------------------------------------------------
(* The wire. *)

OnWire(t) == wire[SendLine(t)] # <<>> /\ wire[SendLine(t)][1].of = t

(* What was sent of a transfer has arrived or is on the wire of its line. *)
SentIsGotOrOnWire ==
    \A t \in DOMAIN Transfers :
        sent[t] = Len(got[t]) + (IF OnWire(t) THEN 1 ELSE 0)

WireIsItsLines ==
    \A l \in SendLines : wire[l] # <<>> =>
        /\ Len(wire[l]) = 1
        /\ SendLine(wire[l][1].of) = l
        /\ wire[l][1].part = sent[wire[l][1].of]

RecvsComplete ==
    \A t \in DOMAIN Transfers :
        /\ Len(got[t]) <= Parts
        /\ phase[<<t, "recv">>] = "complete" <=> Len(got[t]) = Parts

SendsComplete ==
    \A t \in DOMAIN Transfers :
        /\ phase[<<t, "send">>] = "complete" => sent[t] = Parts
        /\ sent[t] > 0 => Begun(<<t, "send">>)

WireInv ==
    /\ SentIsGotOrOnWire
    /\ WireIsItsLines
    /\ RecvsComplete
    /\ SendsComplete
    /\ StrictOrder
-----------------------------------------------------------------------------
(* Ends, lines and groups. *)

LEMMA TransferType ==
    ASSUME NEW t \in DOMAIN Transfers
    PROVE  /\ t \in Nat
           /\ Transfers[t].src \in Workers /\ Transfers[t].dst \in Workers
           /\ Transfers[t].src # Transfers[t].dst
           /\ <<t, "send">> \in Ends /\ <<t, "recv">> \in Ends
<1>1. t \in 1 .. Len(Transfers) /\ Len(Transfers) \in Nat
  BY TransfersAssumption, LenProperties
<1>2. Transfers[t] \in [src : Workers, dst : Workers]
  BY <1>1, TransfersAssumption, ElementOfSeq
<1> QED BY <1>1, <1>2, TransfersAssumption DEF Ends

LEMMA EndFacts ==
    ASSUME NEW e \in Ends
    PROVE  /\ e[1] \in DOMAIN Transfers /\ e[1] \in Nat /\ e[2] \in {"send", "recv"}
           /\ e = <<e[1], e[2]>>
           /\ Owner(e) \in Workers /\ PeerOf(e) \in Workers /\ Owner(e) # PeerOf(e)
           /\ Line(e) \in Lines
           /\ Line(e)[1] = Owner(e) /\ Line(e)[2] = PeerOf(e) /\ Line(e)[3] = e[2]
           /\ Group(e) \in Groups /\ Owner(e) \in Group(e) /\ PeerOf(e) \in Group(e)
<1>1. e[1] \in DOMAIN Transfers /\ e[2] \in {"send", "recv"} /\ e = <<e[1], e[2]>>
  BY DEF Ends
<1>2. Owner(e) \in Workers /\ PeerOf(e) \in Workers /\ Owner(e) # PeerOf(e)
  BY <1>1, TransferType DEF Owner, PeerOf
<1>3. e[1] \in Nat
  BY <1>1, TransferType
<1> QED BY <1>1, <1>2, <1>3 DEF Line, Lines, Group, Groups

(* A worker has one end of a transfer, and a line has one end of it. *)
LEMMA OneEnd ==
    ASSUME NEW e \in Ends, NEW f \in Ends, e[1] = f[1]
    PROVE  /\ Owner(e) = Owner(f) => e = f
           /\ Line(e) = Line(f) => e = f
<1>1. e[2] \in {"send", "recv"} /\ f[2] \in {"send", "recv"} /\ e = <<e[1], e[2]>>
      /\ f = <<f[1], f[2]>> /\ Transfers[e[1]].src # Transfers[e[1]].dst
  BY EndFacts, TransferType
<1>2. Owner(e) = Owner(f) => e = f
  BY <1>1 DEF Owner
<1>3. Line(e) = Line(f) => Owner(e) = Owner(f)
  BY EndFacts
<1> QED BY <1>2, <1>3

LEMMA SameLine ==
    ASSUME NEW e \in Ends, NEW f \in Ends, Line(e) = Line(f)
    PROVE  /\ Owner(e) = Owner(f) /\ e[2] = f[2]
           /\ e[1] < f[1] \/ f[1] < e[1] \/ e = f
<1>1. Owner(e) = Owner(f) /\ e[2] = f[2]
  BY EndFacts
<1>2. e[1] = f[1] => e = f
  BY OneEnd
<1> QED BY <1>1, <1>2, EndFacts

(* A group has one master, which has an end of each of its transfers. *)
LEMMA GroupFacts ==
    ASSUME NEW e \in Ends, NEW f \in Ends, Group(e) = Group(f)
    PROVE  /\ IsMaster(e) /\ IsMaster(f) => Owner(e) = Owner(f)
           /\ IsMaster(e) /\ Owner(e) = Owner(f) => IsMaster(f)
           /\ IsMaster(e) /\ ~IsMaster(f) => Owner(f) = PeerOf(e)
<1>1. /\ Owner(e) \in Nat /\ PeerOf(e) \in Nat /\ Owner(f) \in Nat /\ PeerOf(f) \in Nat
      /\ Owner(e) # PeerOf(e) /\ Owner(f) # PeerOf(f)
  BY EndFacts, WorkersAssumption
<1>2. {Owner(e), PeerOf(e)} = {Owner(f), PeerOf(f)}
  BY DEF Group
<1>3. \/ Owner(e) = Owner(f) /\ PeerOf(e) = PeerOf(f)
      \/ Owner(e) = PeerOf(f) /\ PeerOf(e) = Owner(f)
  BY <1>1, <1>2
<1> QED BY <1>1, <1>3 DEF IsMaster

LEMMA GroupHasMaster ==
    ASSUME NEW e \in Ends
    PROVE  \E f \in Ends : Group(f) = Group(e) /\ IsMaster(f)
<1> DEFINE f == <<e[1], IF e[2] = "send" THEN "recv" ELSE "send">>
<1>1. f \in Ends
  BY EndFacts, TransferType
<1>2. Owner(f) = PeerOf(e) /\ PeerOf(f) = Owner(e)
  BY EndFacts DEF Owner, PeerOf
<1>3. Group(f) = Group(e)
  BY <1>2 DEF Group
<1>4. IsMaster(e) \/ IsMaster(f)
  BY <1>2, EndFacts, WorkersAssumption DEF IsMaster
<1> HIDE DEF f
<1> QED BY <1>1, <1>3, <1>4

LEMMA SendLineFacts ==
    ASSUME NEW t \in DOMAIN Transfers
    PROVE  /\ SendLine(t) \in SendLines
           /\ Source(<<t, "recv">>) = SendLine(t)
<1>1. <<t, "send">> \in Ends
  BY TransferType
<1> QED BY <1>1, EndFacts DEF SendLine, SendLines, Source, Line, Owner, PeerOf

LEMMA SourceFacts ==
    ASSUME NEW e \in Ends, e[2] = "recv"
    PROVE  e = <<e[1], "recv">> /\ Source(e) = SendLine(e[1])
  BY EndFacts, SendLineFacts

-----------------------------------------------------------------------------
(* Types. *)

LEMMA InitType == Init => TypeOK
<1> SUFFICES ASSUME Init PROVE TypeOK
  OBVIOUS
<1> USE DEF Init
<1>1. /\ mode \in [Ends -> {"sync", "async", "awaited"}]
      /\ place \in [Workers -> Nat]
      /\ caller \in [Workers -> {Idle} \cup [doing : {"drain", "wait"}, end : Ends]]
      /\ line \in [Lines -> [items : Seq(Ends), done : BOOLEAN, runs : Seq(Ends)]]
      /\ phase \in [Ends -> Phases]
  BY ModesAssumption, EmptySeq DEF Phases
<1>2. /\ registered \in SUBSET Workers
      /\ info \in SUBSET Groups
      /\ port \in [Groups -> Ports \cup {NoPort}]
      /\ portLock \in [Ports -> Workers \cup {NoWorker}]
      /\ myPort \in [Workers -> [Groups -> Ports \cup {NoPort}]]
      /\ initialized \in [Workers -> SUBSET Groups]
  OBVIOUS
<1>3. /\ sent \in [DOMAIN Transfers -> 0 .. Parts]
      /\ wire \in [SendLines -> Seq(Messages)]
      /\ got \in [DOMAIN Transfers -> Seq(Messages)]
  BY PartsAssumption, EmptySeq DEF SendLines
<1> QED BY <1>1, <1>2, <1>3 DEF TypeOK

LEMMA CallerType == TypeOK /\ CallerStep => TypeOK'
<1> SUFFICES ASSUME TypeOK, CallerStep PROVE TypeOK'
  OBVIOUS
<1> USE DEF TypeOK, callVars, setupVars, wireVars
<1>1. ASSUME NEW w \in Workers, Registers(w) PROVE TypeOK'
  BY <1>1 DEF Registers
<1>2. ASSUME NEW w \in Workers, NEW e \in Ends, Call(w, e) PROVE TypeOK'
  <2>1. /\ e[1] \in Nat
        /\ Line(e) \in Lines
        /\ Append(line[Line(e)].items, e) \in Seq(Ends)
        /\ "called" \in Phases
    BY EndFacts, AppendProperties DEF Phases
  <2>2. /\ [doing |-> "drain", end |-> e] \in [doing : {"drain", "wait"}, end : Ends]
        /\ [doing |-> "wait", end |-> e] \in [doing : {"drain", "wait"}, end : Ends]
    OBVIOUS
  <2>3. CASE mode[e] = "sync"
    BY <1>2, <2>1, <2>2, <2>3, ZenonT(60) DEF Call
  <2>4. CASE mode[e] # "sync"
    <3>1. Enqueue(e)
      BY <1>2, <2>4 DEF Call
    <3>2. line' \in [Lines -> [items : Seq(Ends), done : BOOLEAN, runs : Seq(Ends)]]
      BY <2>1, <3>1, ZenonT(60) DEF Enqueue
    <3>3. caller' \in [Workers -> {Idle} \cup [doing : {"drain", "wait"}, end : Ends]]
      <4>1. caller' = [caller EXCEPT ![w] =
                          IF mode[e] = "awaited" THEN [doing |-> "wait", end |-> e] ELSE Idle]
        BY <1>2, <2>4 DEF Call
      <4> QED BY <2>2, <4>1
    <3> QED BY <1>2, <2>1, <3>2, <3>3 DEF Call
  <2> QED BY <2>3, <2>4
<1>3. ASSUME NEW w \in Workers, NEW e \in Ends, Drained(w, e) PROVE TypeOK'
  BY <1>3 DEF Drained, Phases
<1>4. ASSUME NEW w \in Workers, NEW e \in Ends, Return(w, e) PROVE TypeOK'
  BY <1>4 DEF Return
<1> QED BY <1>1, <1>2, <1>3, <1>4 DEF CallerStep

LEMMA QueueType == TypeOK /\ QueueStep => TypeOK'
<1> SUFFICES ASSUME TypeOK, QueueStep PROVE TypeOK'
  OBVIOUS
<1> USE DEF TypeOK, callVars, setupVars, wireVars
<1>1. ASSUME NEW l \in Lines, FindsNone(l) PROVE TypeOK'
  BY <1>1 DEF FindsNone
<1>2. ASSUME NEW l \in Lines, Takes(l) PROVE TypeOK'
  <2>1. /\ Head(line[l].items) \in Ends
        /\ Tail(line[l].items) \in Seq(Ends)
        /\ <<Head(line[l].items)>> \in Seq(Ends)
        /\ "started" \in Phases
    BY <1>2, HeadTailProperties, EmptySeq DEF Takes, Phases
  <2> QED BY <1>2, <2>1, ZenonT(60) DEF Takes
<1>3. ASSUME NEW l \in Lines, Finishes(l) PROVE TypeOK'
  BY <1>3, EmptySeq, ZenonT(60) DEF Finishes
<1> QED BY <1>1, <1>2, <1>3 DEF QueueStep

LEMMA SetupType == TypeOK /\ SetupStep => TypeOK'
<1> SUFFICES ASSUME TypeOK, NEW e \in Ends,
                    \/ Locks(e) \/ RegistersGroup(e) \/ FindsGroup(e)
                    \/ PublishesPort(e) \/ ReadsPort(e) \/ SetUp(e)
                    \/ \E f \in Ends : Meet(e, f)
             PROVE  TypeOK'
  BY DEF SetupStep
<1> USE DEF TypeOK, callVars, setupVars, wireVars, Moves, Phases, InSetup
<1>1. Owner(e) \in Workers /\ Group(e) \in Groups
  BY EndFacts
<1>2. CASE Locks(e) \/ RegistersGroup(e) \/ FindsGroup(e)
  BY <1>1, <1>2, ZenonT(60) DEF Locks, RegistersGroup, FindsGroup
<1>3. CASE PublishesPort(e)
  BY <1>1, <1>3 DEF PublishesPort
<1>4. CASE ReadsPort(e)
  BY <1>1, <1>4 DEF ReadsPort
<1>5. CASE SetUp(e)
  BY <1>1, <1>5 DEF SetUp
<1>6. CASE \E f \in Ends : Meet(e, f)
  BY <1>1, <1>6, ZenonT(60) DEF Meet
<1> QED BY <1>2, <1>3, <1>4, <1>5, <1>6

LEMMA WireType == TypeOK /\ WireStep => TypeOK'
<1> SUFFICES ASSUME TypeOK, NEW e \in Ends,
                    SendsPart(e) \/ RecvsPart(e) \/ SendReturns(e)
             PROVE  TypeOK'
  BY DEF WireStep
<1> USE DEF TypeOK, callVars, setupVars, wireVars, Moves, Phases
<1>1. e[1] \in DOMAIN Transfers /\ Line(e) \in Lines /\ Parts \in Nat
  BY EndFacts, PartsAssumption
<1>2. CASE SendsPart(e)
  <2>1. Line(e) \in SendLines
    BY <1>2, EndFacts DEF SendsPart, SendLines
  <2>2. sent[e[1]] + 1 \in 1 .. Parts
    BY <1>1, <1>2 DEF SendsPart
  <2>3. [of |-> e[1], part |-> sent[e[1]] + 1] \in Messages
    BY <1>1, <2>2 DEF Messages
  <2>4. <<[of |-> e[1], part |-> sent[e[1]] + 1]>> \in Seq(Messages)
    BY <2>3
  <2>5. wire' \in [SendLines -> Seq(Messages)]
    BY <1>2, <2>1, <2>4 DEF SendsPart
  <2>6. sent' \in [DOMAIN Transfers -> 0 .. Parts]
    BY <1>1, <1>2, <2>2 DEF SendsPart
  <2> QED BY <1>2, <2>5, <2>6 DEF SendsPart
<1>3. CASE RecvsPart(e)
  <2>1. Source(e) \in SendLines /\ wire[Source(e)] \in Seq(Messages)
    BY <1>3 DEF RecvsPart
  <2>2. wire[Source(e)][1] \in Messages
    BY <1>3, <2>1, HeadTailProperties, EmptySeq DEF RecvsPart
  <2>3. Append(got[e[1]], wire[Source(e)][1]) \in Seq(Messages)
    BY <1>1, <2>2, AppendProperties
  <2>4. got' \in [DOMAIN Transfers -> Seq(Messages)]
    BY <1>1, <1>3, <2>3 DEF RecvsPart
  <2>5. wire' \in [SendLines -> Seq(Messages)]
    BY <1>3, <2>1, EmptySeq DEF RecvsPart
  <2>6. phase' \in [Ends -> Phases]
    BY <1>3, SMTT(30) DEF RecvsPart
  <2> QED BY <1>3, <2>4, <2>5, <2>6 DEF RecvsPart
<1>4. CASE SendReturns(e)
  BY <1>4 DEF SendReturns
<1> QED BY <1>2, <1>3, <1>4

(* Workers, queues, setups and the wire keep their fields in their types. *)
THEOREM TypeCorrect == Spec => []TypeOK
<1>1. TypeOK /\ [Next]_vars => TypeOK'
  <2>1. TypeOK /\ UNCHANGED vars => TypeOK'
    BY DEF TypeOK, vars, callVars, setupVars, wireVars, SendLines, Messages
  <2> QED BY <2>1, CallerType, QueueType, SetupType, WireType DEF Next
<1> QED BY <1>1, InitType, PTL DEF Spec

-----------------------------------------------------------------------------
(* The queues: the steps of a work that is under way leave them alone. *)

Works ==
    /\ UNCHANGED <<mode, callVars>>
    /\ \A e \in Ends : phase'[e] = phase[e] \/ (Running(e) /\ Begun(e)')

LEMMA SetupWorks == TypeOK /\ SetupStep => Works
<1> SUFFICES ASSUME TypeOK, NEW e \in Ends,
                    \/ Locks(e) \/ RegistersGroup(e) \/ FindsGroup(e)
                    \/ PublishesPort(e) \/ ReadsPort(e) \/ SetUp(e)
                    \/ \E f \in Ends : Meet(e, f)
             PROVE  Works
  BY DEF SetupStep
<1> USE DEF TypeOK, Works, Running, Begun, callVars
<1>1. CASE \E p \in Phases : phase[e] \in {"started"} \cup InSetup /\ Moves(e, p)
                /\ p \notin {"uncalled", "called"} /\ UNCHANGED <<mode, callVars>>
  BY <1>1 DEF Moves, InSetup
<1>2. CASE \E f \in Ends : Meet(e, f)
  BY <1>2 DEF Meet
<1>3. CASE \/ Locks(e) \/ RegistersGroup(e) \/ FindsGroup(e)
           \/ PublishesPort(e) \/ ReadsPort(e) \/ SetUp(e)
  <2>1. \E p \in Phases : phase[e] \in {"started"} \cup InSetup /\ Moves(e, p)
                /\ p \notin {"uncalled", "called"} /\ UNCHANGED <<mode, callVars>>
    <3> USE DEF InSetup, Phases
    <3>1. CASE Locks(e)
      BY <3>1 DEF Locks
    <3>2. CASE RegistersGroup(e) \/ FindsGroup(e)
      BY <3>2 DEF RegistersGroup, FindsGroup
    <3>3. CASE PublishesPort(e) \/ ReadsPort(e)
      BY <3>3 DEF PublishesPort, ReadsPort
    <3>4. CASE SetUp(e)
      BY <3>4 DEF SetUp
    <3> QED BY <1>3, <3>1, <3>2, <3>3, <3>4
  <2> QED BY <1>1, <2>1
<1> QED BY <1>2, <1>3

LEMMA WireWorks == TypeOK /\ WireStep => Works
<1> SUFFICES ASSUME TypeOK, NEW e \in Ends,
                    SendsPart(e) \/ RecvsPart(e) \/ SendReturns(e)
             PROVE  Works
  BY DEF WireStep
<1> USE DEF TypeOK, Works, Running, Begun, callVars, Moves
<1>1. CASE SendsPart(e)
  BY <1>1 DEF SendsPart
<1>2. CASE RecvsPart(e)
  BY <1>2 DEF RecvsPart
<1>3. CASE SendReturns(e)
  BY <1>3 DEF SendReturns
<1> QED BY <1>1, <1>2, <1>3

LEMMA WorksKeepQueues == TypeOK /\ QueueInv /\ Works => QueueInv'
<1> SUFFICES ASSUME TypeOK, QueueInv, Works PROVE QueueInv'
  OBVIOUS
<1> USE DEF QueueInv, Works, callVars, Running, Begun, TypeOK
<1>1. CalledInOrder'
  BY DEF CalledInOrder
<1>2. CallerIsAtItsPlace'
  BY DEF CallerIsAtItsPlace
<1>3. SyncIsTheCallers'
  BY DEF SyncIsTheCallers
<1>4. ItemsAreCalled'
  BY DEF ItemsAreCalled
<1>5. ItemsAreSorted' /\ DoneMeansIdle'
  BY DEF ItemsAreSorted, DoneMeansIdle
<1>6. AsyncIsTheThreads'
  BY DEF AsyncIsTheThreads
<1>7. BegunInOrder'
  BY DEF BegunInOrder
<1> QED BY <1>1, <1>2, <1>3, <1>4, <1>5, <1>6, <1>7

LEMMA InitQueue == Init => QueueInv
<1> SUFFICES ASSUME Init PROVE QueueInv
  OBVIOUS
<1> USE DEF Init, Running, Begun
<1>1. CalledInOrder
  <2> SUFFICES ASSUME NEW e \in Ends PROVE e[1] > place[Owner(e)]
    BY DEF CalledInOrder
  <2>1. e[1] \in 1 .. Len(Transfers)
    BY EndFacts, TransfersAssumption, LenProperties
  <2> QED BY <2>1, EndFacts
<1>2. CallerIsAtItsPlace /\ SyncIsTheCallers /\ AsyncIsTheThreads /\ BegunInOrder
  BY DEF CallerIsAtItsPlace, SyncIsTheCallers, AsyncIsTheThreads, BegunInOrder
<1>3. ItemsAreCalled /\ ItemsAreSorted /\ DoneMeansIdle
  BY DEF ItemsAreCalled, ItemsAreSorted, DoneMeansIdle
<1> QED BY <1>1, <1>2, <1>3 DEF QueueInv

(* The end that w calls next comes after all it called and before the rest. *)
LEMMA NextIsNext ==
    ASSUME TypeOK, CalledInOrder, NEW w \in Workers, NEW e \in Ends, IsNext(w, e)
    PROVE  /\ Owner(e) = w /\ phase[e] = "uncalled"
           /\ \A f \in Ends : Owner(f) = w =>
                /\ phase[f] # "uncalled" => f[1] < e[1]
                /\ f # e /\ phase[f] = "uncalled" => f[1] > e[1]
<1>1. Owner(e) = w /\ e[1] > place[w] /\ place[w] \in Nat /\ e[1] \in Nat
  BY EndFacts DEF IsNext, TypeOK
<1>2. phase[e] = "uncalled"
  BY <1>1 DEF CalledInOrder
<1>3. ASSUME NEW f \in Ends, Owner(f) = w, phase[f] # "uncalled" PROVE f[1] < e[1]
  <2>1. ~(f[1] > place[w]) /\ f[1] \in Nat
    BY <1>3, EndFacts DEF CalledInOrder
  <2> QED BY <1>1, <2>1
<1>4. ASSUME NEW f \in Ends, Owner(f) = w, f # e, phase[f] = "uncalled" PROVE f[1] > e[1]
  <2>1. f[1] > place[w] /\ f[1] \in Nat
    BY <1>4, EndFacts DEF CalledInOrder
  <2>2. f[1] # e[1]
    BY <1>1, <1>4, OneEnd
  <2>3. w \in {Transfers[f[1]].src, Transfers[f[1]].dst}
    BY <1>4, EndFacts DEF Owner
  <2>4. ~(f[1] \in place[w] + 1 .. e[1] - 1)
    BY <2>3 DEF IsNext
  <2> QED BY <1>1, <2>1, <2>2, <2>4
<1> QED BY <1>1, <1>2, <1>3, <1>4

LEMMA CallQueue ==
    ASSUME TypeOK, QueueInv, NEW w \in Workers, NEW e \in Ends, Call(w, e)
    PROVE  QueueInv'
<1> USE DEF QueueInv
<1>1. /\ caller[w] = Idle
      /\ place' = [place EXCEPT ![w] = e[1]]
      /\ phase' = [phase EXCEPT ![e] = "called"]
      /\ mode' = mode
  BY DEF Call
<1>2. /\ Owner(e) = w /\ phase[e] = "uncalled"
      /\ \A f \in Ends : Owner(f) = w =>
            /\ phase[f] # "uncalled" => f[1] < e[1]
            /\ f # e /\ phase[f] = "uncalled" => f[1] > e[1]
  BY NextIsNext DEF Call
<1>3. /\ \A f \in Ends : phase'[f] = IF f = e THEN "called" ELSE phase[f]
      /\ \A v \in Workers : place'[v] = IF v = w THEN e[1] ELSE place[v]
  BY <1>1 DEF TypeOK
<1>4. CalledInOrder'
  <2> SUFFICES ASSUME NEW f \in Ends
               PROVE  phase'[f] = "uncalled" <=> f[1] > place'[Owner(f)]
    BY DEF CalledInOrder
  <2>1. CASE Owner(f) # w
    BY <1>2, <1>3, <2>1, EndFacts DEF CalledInOrder
  <2>2. CASE Owner(f) = w
    <3>1. e[1] \in Nat /\ f[1] \in Nat
      BY EndFacts
    <3> QED BY <1>2, <1>3, <2>2, <3>1
  <2> QED BY <2>1, <2>2
<1>5. BegunInOrder'
  BY <1>2, <1>3 DEF BegunInOrder, Begun
<1>6. CASE mode[e] = "sync"
  <2>1. /\ caller' = [caller EXCEPT ![w] = [doing |-> "drain", end |-> e]]
        /\ line' = line
    BY <1>6 DEF Call
  <2>2. \A v \in Workers :
            caller'[v] = IF v = w THEN [doing |-> "drain", end |-> e] ELSE caller[v]
    BY <2>1 DEF TypeOK
  <2>3. CallerIsAtItsPlace'
    <3> SUFFICES ASSUME NEW v \in Workers, caller'[v] # Idle
                 PROVE  /\ Owner(caller'[v].end) = v
                        /\ caller'[v].end[1] = place'[v]
                        /\ caller'[v].doing = "drain" =>
                            mode'[caller'[v].end] = "sync" /\ phase'[caller'[v].end] = "called"
      BY DEF CallerIsAtItsPlace
    <3>1. CASE v = w
      BY <1>1, <1>2, <1>3, <1>6, <2>2, <3>1
    <3>2. CASE v # w
      <4>1. caller'[v] = caller[v] /\ caller[v].end \in Ends
        BY <2>2, <3>2 DEF TypeOK
      <4>2. Owner(caller[v].end) = v
        BY <4>1 DEF CallerIsAtItsPlace
      <4>3. phase'[caller[v].end] = phase[caller[v].end]
        BY <1>2, <1>3, <3>2, <4>1, <4>2
      <4> QED BY <1>1, <1>3, <3>2, <4>1, <4>3 DEF CallerIsAtItsPlace
    <3> QED BY <3>1, <3>2
  <2>4. SyncIsTheCallers'
    <3> SUFFICES ASSUME NEW f \in Ends, mode'[f] = "sync",
                        phase'[f] \notin {"uncalled", "complete"}
                 PROVE  caller'[Owner(f)] # Idle /\ caller'[Owner(f)].end = f
      BY DEF SyncIsTheCallers
    <3>1. Owner(f) \in Workers
      BY EndFacts
    <3>2. CASE f = e
      BY <1>2, <2>2, <3>1, <3>2 DEF Idle
    <3>3. CASE f # e
      <4>1. caller[Owner(f)] # Idle /\ caller[Owner(f)].end = f
        BY <1>1, <1>3, <3>3 DEF SyncIsTheCallers
      <4> QED BY <1>1, <2>2, <3>1, <4>1
    <3> QED BY <3>2, <3>3
  <2>5. ItemsAreCalled'
    BY <1>1, <1>2, <1>3, <1>6, <2>1, ElementOfSeq, LenProperties DEF ItemsAreCalled, TypeOK
  <2>6. ItemsAreSorted' /\ DoneMeansIdle'
    BY <2>1 DEF ItemsAreSorted, DoneMeansIdle
  <2>7. AsyncIsTheThreads'
    BY <1>1, <1>3, <1>6, <2>1 DEF AsyncIsTheThreads, Running, Begun
  <2> QED BY <1>4, <1>5, <2>3, <2>4, <2>5, <2>6, <2>7
<1>7. CASE mode[e] # "sync"
  <2> DEFINE L == Line(e)
             a == Append(line[L].items, e)
  <2>1. /\ L \in Lines
        /\ line[L].items \in Seq(Ends)
    BY EndFacts DEF TypeOK
  <2>2. /\ line' = [line EXCEPT ![L].items = a, ![L].done = FALSE]
        /\ caller' = [caller EXCEPT ![w] =
                IF mode[e] = "awaited" THEN [doing |-> "wait", end |-> e] ELSE Idle]
    BY <1>7 DEF Call, Enqueue
  <2>3. /\ a \in Seq(Ends)
        /\ \A f : Has(a, f) <=> Has(line[L].items, f) \/ f = e
    BY <2>1, AppendFacts
  <2>4. /\ DOMAIN line[L].items = 1 .. Len(line[L].items)
        /\ DOMAIN a = 1 .. (Len(line[L].items) + 1)
        /\ Len(line[L].items) \in Nat
        /\ a[Len(line[L].items) + 1] = e
        /\ \A i \in 1 .. Len(line[L].items) : a[i] = line[L].items[i]
    BY <2>1, AppendProperties, LenProperties
  <2> HIDE DEF a
  <2>5. \A l \in Lines :
            /\ line'[l].items = IF l = L THEN a ELSE line[l].items
            /\ line'[l].done = IF l = L THEN FALSE ELSE line[l].done
            /\ line'[l].runs = line[l].runs
    BY <2>1, <2>2, ZenonT(60) DEF TypeOK
  <2> HIDE DEF L
  <2>6. CallerIsAtItsPlace'
    <3> SUFFICES ASSUME NEW v \in Workers, caller'[v] # Idle
                 PROVE  /\ Owner(caller'[v].end) = v
                        /\ caller'[v].end[1] = place'[v]
                        /\ caller'[v].doing = "drain" =>
                            mode'[caller'[v].end] = "sync" /\ phase'[caller'[v].end] = "called"
      BY DEF CallerIsAtItsPlace
    <3>1. CASE v = w
      <4>1. caller'[v] = [doing |-> "wait", end |-> e]
        BY <2>2, <3>1 DEF TypeOK
      <4> QED BY <1>2, <1>3, <3>1, <4>1
    <3>2. CASE v # w
      <4>1. caller'[v] = caller[v] /\ caller[v].end \in Ends
        BY <2>2, <3>2 DEF TypeOK
      <4>2. Owner(caller[v].end) = v
        BY <4>1 DEF CallerIsAtItsPlace
      <4>3. phase'[caller[v].end] = phase[caller[v].end]
        BY <1>2, <1>3, <3>2, <4>1, <4>2
      <4> QED BY <1>1, <1>3, <3>2, <4>1, <4>3 DEF CallerIsAtItsPlace
    <3> QED BY <3>1, <3>2
  <2>7. SyncIsTheCallers'
    <3> SUFFICES ASSUME NEW f \in Ends, mode'[f] = "sync",
                        phase'[f] \notin {"uncalled", "complete"}
                 PROVE  caller'[Owner(f)] # Idle /\ caller'[Owner(f)].end = f
      BY DEF SyncIsTheCallers
    <3>1. caller[Owner(f)] # Idle /\ caller[Owner(f)].end = f
      BY <1>1, <1>3, <1>7 DEF SyncIsTheCallers
    <3> QED BY <1>1, <2>2, <3>1, EndFacts DEF TypeOK
  <2>8. ItemsAreCalled'
    <3>1. ASSUME NEW f \in Ends, mode'[f] # "sync", phase'[f] = "called"
          PROVE  Has(line'[Line(f)].items, f)
      <4>1. CASE f = e
        BY <2>1, <2>3, <2>5, <4>1 DEF L
      <4>2. CASE f # e
        <5>1. Line(f) \in Lines /\ Has(line[Line(f)].items, f)
          BY <1>1, <1>3, <3>1, <4>2, EndFacts DEF ItemsAreCalled
        <5> QED BY <2>3, <2>5, <5>1
      <4> QED BY <4>1, <4>2
    <3>2. ASSUME NEW l \in Lines, NEW i \in DOMAIN line'[l].items
          PROVE  LET f == line'[l].items[i] IN
                    Line(f) = l /\ mode'[f] # "sync" /\ phase'[f] = "called"
      <4>1. CASE i \in DOMAIN line[l].items /\ line'[l].items[i] = line[l].items[i]
        <5>1. line[l].items[i] \in Ends
          BY <4>1, ElementOfSeq, LenProperties DEF TypeOK
        <5> QED BY <1>1, <1>2, <1>3, <4>1, <5>1 DEF ItemsAreCalled
      <4>2. CASE l = L /\ line'[l].items[i] = e
        BY <1>1, <1>3, <1>7, <4>2 DEF L
      <4>3. CASE l # L
        BY <2>5, <4>1, <4>3
      <4>4. CASE l = L
        <5>1. line'[l].items = a
          BY <2>5, <4>4
        <5>2. i \in 1 .. (Len(line[L].items) + 1)
          BY <2>4, <5>1
        <5>3. i \in 1 .. Len(line[L].items) \/ i = Len(line[L].items) + 1
          BY <2>4, <5>2
        <5> QED BY <2>4, <4>1, <4>2, <4>4, <5>1, <5>3
      <4> QED BY <4>3, <4>4
    <3> QED BY <3>1, <3>2 DEF ItemsAreCalled
  <2>9. ItemsAreSorted'
    <3> SUFFICES ASSUME NEW l \in Lines,
                        NEW i \in DOMAIN line'[l].items, NEW j \in DOMAIN line'[l].items, i < j
                 PROVE  line'[l].items[i][1] < line'[l].items[j][1]
      BY DEF ItemsAreSorted
    <3>1. CASE l # L
      BY <2>5, <3>1 DEF ItemsAreSorted
    <3>2. CASE l = L
      <4>1. line'[l].items = a /\ i \in 1 .. Len(line[L].items) /\ a[i] = line[L].items[i]
        <5>1. line'[l].items = a
          BY <2>5, <3>2
        <5>2. i \in 1 .. (Len(line[L].items) + 1) /\ j \in 1 .. (Len(line[L].items) + 1)
          BY <2>4, <5>1
        <5>3. i \in 1 .. Len(line[L].items)
          BY <2>4, <5>2
        <5> QED BY <2>4, <5>1, <5>3
      <4>2. CASE j = Len(line[L].items) + 1
        <5>1. /\ line[L].items[i] \in Ends
              /\ Line(line[L].items[i]) = L /\ phase[line[L].items[i]] = "called"
          BY <2>1, <2>4, <4>1, ElementOfSeq DEF ItemsAreCalled
        <5>2. Owner(line[L].items[i]) = w
          BY <1>2, <5>1, SameLine DEF L
        <5> QED BY <1>2, <2>4, <4>1, <4>2, <5>1, <5>2
      <4>3. CASE j # Len(line[L].items) + 1
        BY <2>1, <2>4, <4>1, <4>3, SMTT(30) DEF ItemsAreSorted
      <4> QED BY <4>2, <4>3
    <3> QED BY <3>1, <3>2
  <2>10. AsyncIsTheThreads'
    BY <1>1, <1>3, <2>5, EndFacts, ZenonT(60) DEF AsyncIsTheThreads, Running, Begun
  <2>11. DoneMeansIdle'
    BY <2>5 DEF DoneMeansIdle
  <2> QED BY <1>4, <1>5, <2>6, <2>7, <2>8, <2>9, <2>10, <2>11
<1> QED BY <1>6, <1>7

(* An earlier end of a line is complete, or its caller is busy with it, or  *)
(* it is in the queue or with the thread.                                   *)
LEMMA EarlierEnds ==
    ASSUME TypeOK, QueueInv, NEW e \in Ends, NEW f \in Ends,
           Line(f) = Line(e), f[1] < e[1], phase[e] = "called", phase[f] # "complete",
           line[Line(e)].runs = <<>>
    PROVE  mode[f] # "sync" /\ Has(line[Line(e)].items, f)
<1> USE DEF QueueInv
<1>1. Owner(f) = Owner(e) /\ f[1] \in Nat /\ e[1] \in Nat /\ Owner(e) \in Workers
  BY SameLine, EndFacts
<1>2. e[1] <= place[Owner(e)] /\ place[Owner(e)] \in Nat
  BY <1>1 DEF CalledInOrder, TypeOK
<1>3. phase[f] # "uncalled" /\ f[1] # place[Owner(e)]
  BY <1>1, <1>2 DEF CalledInOrder
<1>4. mode[f] # "sync"
  BY <1>1, <1>3 DEF SyncIsTheCallers, CallerIsAtItsPlace
<1>5. ~Running(f)
  BY <1>4, SMTT(30) DEF AsyncIsTheThreads
<1>6. phase[f] = "called"
  BY <1>3, <1>5 DEF Running, Begun
<1> QED BY <1>4, <1>6 DEF ItemsAreCalled

LEMMA DrainedQueue ==
    ASSUME TypeOK, QueueInv, NEW w \in Workers, NEW e \in Ends, Drained(w, e)
    PROVE  QueueInv'
<1> USE DEF QueueInv
<1>1. /\ caller[w] = [doing |-> "drain", end |-> e]
      /\ line[Line(e)].done
      /\ phase' = [phase EXCEPT ![e] = "started"]
      /\ caller' = [caller EXCEPT ![w] = [doing |-> "wait", end |-> e]]
      /\ UNCHANGED <<mode, place, line>>
  BY DEF Drained
<1>2. /\ Owner(e) = w /\ e[1] = place[w]
      /\ mode[e] = "sync" /\ phase[e] = "called"
  BY <1>1 DEF CallerIsAtItsPlace, Idle
<1>3. line[Line(e)].items = <<>> /\ line[Line(e)].runs = <<>>
  BY <1>1, EndFacts DEF DoneMeansIdle
<1>4. /\ \A f \in Ends : phase'[f] = IF f = e THEN "started" ELSE phase[f]
      /\ \A v \in Workers :
            caller'[v] = IF v = w THEN [doing |-> "wait", end |-> e] ELSE caller[v]
  BY <1>1 DEF TypeOK
<1>5. \A f \in Ends : Line(f) = Line(e) /\ f[1] < e[1] => phase[f] = "complete"
  BY <1>2, <1>3, EarlierEnds DEF Has
<1>6. CalledInOrder'
  BY <1>1, <1>2, <1>4 DEF CalledInOrder
<1>7. CallerIsAtItsPlace'
  <2> SUFFICES ASSUME NEW v \in Workers, caller'[v] # Idle
               PROVE  /\ Owner(caller'[v].end) = v
                      /\ caller'[v].end[1] = place'[v]
                      /\ caller'[v].doing = "drain" =>
                            mode'[caller'[v].end] = "sync" /\ phase'[caller'[v].end] = "called"
    BY DEF CallerIsAtItsPlace
  <2>1. CASE v = w
    BY <1>1, <1>2, <1>4, <2>1
  <2>2. CASE v # w
    <3>1. caller'[v] = caller[v] /\ caller[v].end \in Ends
      BY <1>4, <2>2 DEF TypeOK
    <3>2. Owner(caller[v].end) = v
      BY <3>1 DEF CallerIsAtItsPlace
    <3>3. phase'[caller[v].end] = phase[caller[v].end]
      BY <1>2, <1>4, <2>2, <3>1, <3>2
    <3> QED BY <1>1, <3>1, <3>3 DEF CallerIsAtItsPlace
  <2> QED BY <2>1, <2>2
<1>8. SyncIsTheCallers'
  <2> SUFFICES ASSUME NEW f \in Ends, mode'[f] = "sync",
                      phase'[f] \notin {"uncalled", "complete"}
               PROVE  caller'[Owner(f)] # Idle /\ caller'[Owner(f)].end = f
    BY DEF SyncIsTheCallers
  <2>1. Owner(f) \in Workers
    BY EndFacts
  <2>2. CASE f = e
    BY <1>2, <1>4, <2>1, <2>2 DEF Idle
  <2>3. CASE f # e
    <3>1. caller[Owner(f)] # Idle /\ caller[Owner(f)].end = f
      BY <1>1, <1>4, <2>3 DEF SyncIsTheCallers
    <3> QED BY <1>1, <1>4, <2>1, <2>3, <3>1
  <2> QED BY <2>2, <2>3
<1>9. ItemsAreCalled'
  BY <1>1, <1>2, <1>4, ElementOfSeq, LenProperties DEF ItemsAreCalled, TypeOK
<1>10. ItemsAreSorted' /\ DoneMeansIdle'
  BY <1>1 DEF ItemsAreSorted, DoneMeansIdle
<1>11. AsyncIsTheThreads'
  BY <1>1, <1>2, <1>4 DEF AsyncIsTheThreads, Running, Begun
<1>12. BegunInOrder'
  BY <1>2, <1>4, <1>5 DEF BegunInOrder, Begun
<1> QED BY <1>6, <1>7, <1>8, <1>9, <1>10, <1>11, <1>12

LEMMA ReturnQueue ==
    ASSUME TypeOK, QueueInv, NEW w \in Workers, NEW e \in Ends, Return(w, e)
    PROVE  QueueInv'
<1> USE DEF QueueInv
<1>1. /\ caller[w] = [doing |-> "wait", end |-> e]
      /\ phase[e] = "complete"
      /\ caller' = [caller EXCEPT ![w] = Idle]
      /\ UNCHANGED <<mode, place, line, phase>>
  BY DEF Return
<1>2. \A v \in Workers : caller'[v] = IF v = w THEN Idle ELSE caller[v]
  BY <1>1 DEF TypeOK
<1>3. CallerIsAtItsPlace'
  BY <1>1, <1>2 DEF CallerIsAtItsPlace
<1>4. SyncIsTheCallers'
  <2> SUFFICES ASSUME NEW f \in Ends, mode[f] = "sync",
                      phase[f] \notin {"uncalled", "complete"}
               PROVE  caller'[Owner(f)] # Idle /\ caller'[Owner(f)].end = f
    BY <1>1 DEF SyncIsTheCallers
  <2>1. caller[Owner(f)].end = f /\ caller[Owner(f)] # Idle /\ Owner(f) \in Workers
    BY EndFacts DEF SyncIsTheCallers
  <2>2. Owner(f) # w
    BY <1>1, <2>1
  <2> QED BY <1>2, <2>1, <2>2
<1>5. CalledInOrder' /\ ItemsAreCalled' /\ ItemsAreSorted' /\ DoneMeansIdle'
  BY <1>1 DEF CalledInOrder, ItemsAreCalled, ItemsAreSorted, DoneMeansIdle
<1>6. AsyncIsTheThreads' /\ BegunInOrder'
  BY <1>1 DEF AsyncIsTheThreads, BegunInOrder, Running, Begun
<1> QED BY <1>3, <1>4, <1>5, <1>6

(* What the thread of a line does to its queue when it finds it empty or    *)
(* has finished a work.                                                     *)
LEMMA IdleQueue ==
    ASSUME TypeOK, QueueInv, NEW l \in Lines, FindsNone(l) \/ Finishes(l)
    PROVE  QueueInv'
<1> USE DEF QueueInv
<1>1. /\ UNCHANGED <<mode, place, caller, phase>>
      /\ \A k \in Lines : line'[k].items = line[k].items
      /\ \A k \in Lines : k # l => line'[k] = line[k]
      /\ line'[l].done => line'[l].items = <<>>
      /\ line'[l].runs = <<>>
  <2>1. CASE FindsNone(l)
    BY <2>1 DEF FindsNone, TypeOK
  <2>2. CASE Finishes(l)
    <3>1. line[l].done => line[l].runs = <<>>
      BY DEF DoneMeansIdle
    <3> QED BY <2>2, <3>1 DEF Finishes, TypeOK
  <2> QED BY <2>1, <2>2
<1>2. CalledInOrder' /\ CallerIsAtItsPlace' /\ SyncIsTheCallers' /\ BegunInOrder'
  BY <1>1 DEF CalledInOrder, CallerIsAtItsPlace, SyncIsTheCallers, BegunInOrder, Begun
<1>3. ItemsAreCalled'
  BY <1>1, EndFacts DEF ItemsAreCalled
<1>4. ItemsAreSorted' /\ DoneMeansIdle'
  BY <1>1 DEF ItemsAreSorted, DoneMeansIdle
<1>5. AsyncIsTheThreads'
  <2> SUFFICES ASSUME NEW f \in Ends, mode[f] # "sync", Running(f)
               PROVE  line'[Line(f)].runs = <<f>>
    BY <1>1 DEF AsyncIsTheThreads, Running, Begun
  <2>1. line[Line(f)].runs = <<f>> /\ Line(f) \in Lines
    BY EndFacts DEF AsyncIsTheThreads
  <2>2. Line(f) # l
    <3>1. CASE FindsNone(l)
      BY <2>1, <3>1 DEF FindsNone
    <3>2. CASE Finishes(l)
      BY <2>1, <3>2 DEF Finishes, Running
    <3> QED BY <3>1, <3>2
  <2> QED BY <1>1, <2>1, <2>2
<1> QED BY <1>2, <1>3, <1>4, <1>5

LEMMA TakesQueue ==
    ASSUME TypeOK, QueueInv, NEW l \in Lines, Takes(l)
    PROVE  QueueInv'
<1> USE DEF QueueInv
<1> DEFINE s == line[l].items
           e == Head(s)
           r == Tail(s)
<1>1. /\ s \in Seq(Ends) /\ s # <<>>
      /\ line[l].runs = <<>>
      /\ line' = [line EXCEPT ![l].items = r, ![l].runs = <<e>>]
      /\ phase' = [phase EXCEPT ![e] = "started"]
      /\ UNCHANGED <<mode, place, caller>>
  BY DEF Takes, TypeOK
<1>2. \A k \in Lines :
            /\ line'[k].items = IF k = l THEN r ELSE line[k].items
            /\ line'[k].runs = IF k = l THEN <<e>> ELSE line[k].runs
            /\ line'[k].done = line[k].done
  BY <1>1 DEF TypeOK
<1>3. /\ Len(s) \in Nat \ {0} /\ DOMAIN s = 1 .. Len(s)
      /\ e = s[1] /\ e \in Ends
      /\ r \in Seq(Ends) /\ DOMAIN r = 1 .. (Len(s) - 1)
      /\ \A i \in 1 .. (Len(s) - 1) : r[i] = s[i + 1]
  BY <1>1, HeadTailProperties, EmptySeq, LenProperties
<1> HIDE DEF e, r
<1>4. /\ Line(e) = l /\ mode[e] # "sync" /\ phase[e] = "called"
      /\ \A f \in Ends : phase'[f] = IF f = e THEN "started" ELSE phase[f]
  BY <1>1, <1>3 DEF ItemsAreCalled, TypeOK
<1>5. \A i \in 1 .. Len(s) : i > 1 => e[1] < s[i][1]
  BY <1>3 DEF ItemsAreSorted
<1>6. \A i \in 1 .. Len(s) : s[i] \in Ends /\ (s[i] = e => i = 1)
  <2>1. e[1] \in Nat
    BY <1>3, EndFacts
  <2> QED BY <1>1, <1>3, <1>5, <2>1, ElementOfSeq
<1>7. \A f \in Ends : Line(f) = l /\ f[1] < e[1] => phase[f] = "complete"
  <2> SUFFICES ASSUME NEW f \in Ends, Line(f) = l, f[1] < e[1], phase[f] # "complete"
               PROVE  FALSE
    OBVIOUS
  <2>1. Has(s, f)
    BY <1>1, <1>3, <1>4, EarlierEnds
  <2>2. PICK i \in 1 .. Len(s) : s[i] = f
    BY <1>3, <2>1 DEF Has
  <2>3. e[1] \in Nat /\ f[1] \in Nat
    BY <1>3, EndFacts
  <2> QED BY <1>3, <1>5, <2>2, <2>3, SMTT(30)
<1>8. CalledInOrder' /\ CallerIsAtItsPlace' /\ SyncIsTheCallers'
  <2>1. CalledInOrder'
    BY <1>1, <1>4 DEF CalledInOrder
  <2>2. CallerIsAtItsPlace'
    BY <1>1, <1>4 DEF CallerIsAtItsPlace, TypeOK
  <2>3. SyncIsTheCallers'
    BY <1>1, <1>4 DEF SyncIsTheCallers
  <2> QED BY <2>1, <2>2, <2>3
<1>9. ItemsAreCalled'
  <2>1. ASSUME NEW f \in Ends, mode'[f] # "sync", phase'[f] = "called"
        PROVE  Has(line'[Line(f)].items, f)
    <3>1. f # e /\ Line(f) \in Lines /\ Has(line[Line(f)].items, f)
      BY <1>1, <1>4, <2>1, EndFacts DEF ItemsAreCalled
    <3>2. CASE Line(f) # l
      BY <1>2, <3>1, <3>2
    <3>3. CASE Line(f) = l
      <4>1. PICK i \in 1 .. Len(s) : s[i] = f
        BY <1>3, <3>1, <3>3 DEF Has
      <4>2. i - 1 \in 1 .. (Len(s) - 1) /\ (i - 1) + 1 = i
        BY <1>3, <3>1, <4>1
      <4>3. r[i - 1] = f
        BY <1>3, <4>1, <4>2
      <4>4. Has(r, f)
        BY <1>3, <4>2, <4>3 DEF Has
      <4> QED BY <1>2, <3>1, <3>3, <4>4
    <3> QED BY <3>2, <3>3
  <2>2. ASSUME NEW k \in Lines, NEW i \in DOMAIN line'[k].items
        PROVE  LET f == line'[k].items[i] IN
                  Line(f) = k /\ mode'[f] # "sync" /\ phase'[f] = "called"
    <3>1. CASE k # l
      <4>1. line'[k].items = line[k].items /\ line[k].items[i] \in Ends
        BY <1>2, <2>2, <3>1, ElementOfSeq, LenProperties DEF TypeOK
      <4> QED BY <1>1, <1>4, <2>2, <3>1, <4>1 DEF ItemsAreCalled
    <3>2. CASE k = l
      <4>1. line'[k].items = r
        BY <1>2, <3>2
      <4>2. /\ i \in 1 .. (Len(s) - 1) /\ i + 1 \in 1 .. Len(s) /\ i + 1 # 1
            /\ r[i] = s[i + 1]
        BY <1>3, <2>2, <4>1
      <4>3. s[i + 1] \in Ends /\ s[i + 1] # e
        BY <1>6, <4>2
      <4>4. Line(s[i + 1]) = l /\ mode[s[i + 1]] # "sync" /\ phase[s[i + 1]] = "called"
        BY <1>3, <4>2 DEF ItemsAreCalled
      <4> QED BY <1>1, <1>4, <3>2, <4>1, <4>2, <4>3, <4>4
    <3> QED BY <3>1, <3>2
  <2> QED BY <2>1, <2>2 DEF ItemsAreCalled
<1>10. ItemsAreSorted'
  <2> SUFFICES ASSUME NEW k \in Lines,
                      NEW i \in DOMAIN line'[k].items, NEW j \in DOMAIN line'[k].items, i < j
               PROVE  line'[k].items[i][1] < line'[k].items[j][1]
    BY DEF ItemsAreSorted
  <2>1. CASE k # l
    BY <1>2, <2>1 DEF ItemsAreSorted
  <2>2. CASE k = l
    <3>1. line'[k].items = r
      BY <1>2, <2>2
    <3>2. /\ i + 1 \in 1 .. Len(s) /\ j + 1 \in 1 .. Len(s) /\ i + 1 < j + 1
          /\ r[i] = s[i + 1] /\ r[j] = s[j + 1]
      BY <1>3, <3>1, SMTT(30)
    <3>3. s[i + 1][1] < s[j + 1][1]
      BY <1>3, <3>2 DEF ItemsAreSorted
    <3> QED BY <3>1, <3>2, <3>3
  <2> QED BY <2>1, <2>2
<1>11. AsyncIsTheThreads'
  <2> SUFFICES ASSUME NEW f \in Ends, mode[f] # "sync", Running(f)'
               PROVE  line'[Line(f)].runs = <<f>>
    BY <1>1 DEF AsyncIsTheThreads
  <2>1. CASE f = e
    BY <1>2, <1>4, <2>1
  <2>2. CASE f # e
    <3>1. line[Line(f)].runs = <<f>> /\ Line(f) \in Lines
      BY <1>4, <2>2, EndFacts DEF AsyncIsTheThreads, Running, Begun
    <3>2. Line(f) # l
      BY <1>1, <3>1
    <3> QED BY <1>2, <3>1, <3>2
  <2> QED BY <2>1, <2>2
<1>12. DoneMeansIdle'
  BY <1>1, <1>2 DEF DoneMeansIdle
<1>13. BegunInOrder'
  BY <1>3, <1>4, <1>7 DEF BegunInOrder, Begun
<1> QED BY <1>8, <1>9, <1>10, <1>11, <1>12, <1>13

LEMMA QueueStepInv == TypeOK /\ QueueInv /\ [Next]_vars => QueueInv'
<1> SUFFICES ASSUME TypeOK, QueueInv, [Next]_vars PROVE QueueInv'
  OBVIOUS
<1>1. CASE UNCHANGED vars \/ \E w \in Workers : Registers(w)
  <2>1. Works
    BY <1>1 DEF vars, callVars, Registers, Works
  <2> QED BY <2>1, WorksKeepQueues
<1>2. ASSUME NEW w \in Workers, NEW e \in Ends, Call(w, e) \/ Drained(w, e) \/ Return(w, e)
      PROVE  QueueInv'
  BY <1>2, CallQueue, DrainedQueue, ReturnQueue
<1>3. CASE QueueStep
  BY <1>3, IdleQueue, TakesQueue DEF QueueStep
<1>4. CASE SetupStep \/ WireStep
  BY <1>4, SetupWorks, WireWorks, WorksKeepQueues
<1> QED BY <1>1, <1>2, <1>3, <1>4 DEF Next, CallerStep

(* The works of every line take their turn in the order of the calls,       *)
(* whichever thread runs them.                                              *)
THEOREM QueuesInOrder == Spec => [](TypeOK /\ QueueInv)
<1>1. TypeOK /\ QueueInv /\ [Next]_vars => QueueInv'
  BY QueueStepInv
<1> QED BY <1>1, InitQueue, TypeCorrect, PTL DEF Spec

(* At any time one work uses a line: the caller does not run a synchronous  *)
(* work beside the thread of the queue, and the thread takes the works one  *)
(* by one.                                                                  *)
THEOREM OneWorkPerLine == Spec => []OneAtATime
<1>1. TypeOK /\ QueueInv => OneAtATime
  <2> SUFFICES ASSUME TypeOK, QueueInv, NEW e \in Ends, NEW f \in Ends,
                      Line(e) = Line(f), Running(e), Running(f)
               PROVE  e = f
    BY DEF OneAtATime, Running, Begun
  <2> QED BY SameLine DEF QueueInv, BegunInOrder, Running
<1> QED BY <1>1, QueuesInOrder, PTL

-----------------------------------------------------------------------------
(* What the caller and the queues do to the works. *)

LEMMA CallerAndQueueMoves ==
    ASSUME TypeOK, QueueInv, CallerStep \/ QueueStep
    PROVE  /\ UNCHANGED <<info, port, portLock, myPort, initialized, wireVars>>
           /\ \A e \in Ends : \/ phase'[e] = phase[e]
                              \/ phase[e] = "uncalled" /\ phase'[e] = "called"
                              \/ phase[e] = "called" /\ phase'[e] = "started"
<1> USE DEF TypeOK, QueueInv, setupVars
<1>1. ASSUME NEW w \in Workers, Registers(w)
      PROVE  UNCHANGED <<info, port, portLock, myPort, initialized, wireVars, phase>>
  BY <1>1 DEF Registers
<1>2. ASSUME NEW w \in Workers, NEW e \in Ends, Call(w, e)
      PROVE  /\ UNCHANGED <<info, port, portLock, myPort, initialized, wireVars>>
             /\ phase[e] = "uncalled" /\ phase' = [phase EXCEPT ![e] = "called"]
  BY <1>2, NextIsNext DEF Call
<1>3. ASSUME NEW w \in Workers, NEW e \in Ends, Drained(w, e)
      PROVE  /\ UNCHANGED <<info, port, portLock, myPort, initialized, wireVars>>
             /\ phase[e] = "called" /\ phase' = [phase EXCEPT ![e] = "started"]
  <2>1. caller[w] # Idle /\ caller[w].end = e /\ caller[w].doing = "drain"
    BY <1>3 DEF Drained, Idle
  <2>2. phase[e] = "called"
    BY <2>1 DEF CallerIsAtItsPlace
  <2> QED BY <1>3, <2>2 DEF Drained
<1>4. ASSUME NEW w \in Workers, NEW e \in Ends, Return(w, e)
      PROVE  UNCHANGED <<info, port, portLock, myPort, initialized, wireVars, phase>>
  BY <1>4 DEF Return
<1>5. ASSUME NEW l \in Lines, FindsNone(l) \/ Finishes(l)
      PROVE  UNCHANGED <<info, port, portLock, myPort, initialized, wireVars, phase>>
  BY <1>5 DEF FindsNone, Finishes
<1>6. ASSUME NEW l \in Lines, Takes(l)
      PROVE  \E e \in Ends :
                /\ UNCHANGED <<info, port, portLock, myPort, initialized, wireVars>>
                /\ phase[e] = "called" /\ phase' = [phase EXCEPT ![e] = "started"]
  <2>1. line[l].items \in Seq(Ends) /\ line[l].items # <<>>
    BY <1>6 DEF Takes
  <2>2. /\ Head(line[l].items) \in Ends
        /\ phase[Head(line[l].items)] = "called"
    BY <2>1, HeadTailProperties, EmptySeq, LenProperties DEF ItemsAreCalled
  <2> QED BY <1>6, <2>2 DEF Takes
<1>7. CASE CallerStep
  BY <1>1, <1>2, <1>3, <1>4, <1>7 DEF CallerStep
<1>8. CASE QueueStep
  BY <1>5, <1>6, <1>8 DEF QueueStep
<1> QED BY <1>7, <1>8

LEMMA SetupMoves ==
    ASSUME TypeOK, SetupStep
    PROVE  /\ UNCHANGED wireVars
           /\ \A e \in Ends : \/ phase'[e] = phase[e]
                              \/ /\ phase[e] \in {"started"} \cup InSetup
                                 /\ phase'[e] \in InSetup \cup {"transfers"}
<1> SUFFICES ASSUME NEW e \in Ends,
                    \/ Locks(e) \/ RegistersGroup(e) \/ FindsGroup(e)
                    \/ PublishesPort(e) \/ ReadsPort(e) \/ SetUp(e)
                    \/ \E f \in Ends : Meet(e, f)
             PROVE  /\ UNCHANGED wireVars
                    /\ \A f \in Ends : \/ phase'[f] = phase[f]
                                       \/ /\ phase[f] \in {"started"} \cup InSetup
                                          /\ phase'[f] \in InSetup \cup {"transfers"}
  BY DEF SetupStep
<1> USE DEF TypeOK, InSetup, Moves
<1>1. CASE Locks(e) \/ RegistersGroup(e) \/ FindsGroup(e)
  BY <1>1 DEF Locks, RegistersGroup, FindsGroup
<1>2. CASE PublishesPort(e) \/ ReadsPort(e)
  BY <1>2 DEF PublishesPort, ReadsPort
<1>3. CASE SetUp(e)
  BY <1>3 DEF SetUp
<1>4. CASE \E f \in Ends : Meet(e, f)
  BY <1>4 DEF Meet
<1> QED BY <1>1, <1>2, <1>3, <1>4

-----------------------------------------------------------------------------
(* The wire. *)

LEMMA InitWire == Init => WireInv
<1> SUFFICES ASSUME Init PROVE WireInv
  OBVIOUS
<1>1. WireIsItsLines
  BY DEF Init, WireIsItsLines, SendLines
<1>2. ASSUME NEW t \in DOMAIN Transfers
      PROVE  /\ sent[t] = Len(got[t]) + (IF OnWire(t) THEN 1 ELSE 0)
             /\ Len(got[t]) <= Parts
             /\ phase[<<t, "recv">>] = "complete" <=> Len(got[t]) = Parts
             /\ phase[<<t, "send">>] = "complete" => sent[t] = Parts
             /\ sent[t] > 0 => Begun(<<t, "send">>)
             /\ got[t] = [k \in 1 .. Len(got[t]) |-> [of |-> t, part |-> k]]
  <2>1. /\ sent[t] = 0
        /\ got[t] = <<>> /\ Len(got[t]) = 0
        /\ wire[SendLine(t)] = <<>>
        /\ phase[<<t, "recv">>] = "uncalled" /\ phase[<<t, "send">>] = "uncalled"
    BY SendLineFacts, TransferType DEF Init, SendLines
  <2>2. Parts \in Nat /\ Parts # 0
    BY PartsAssumption
  <2>3. ~OnWire(t)
    BY <2>1 DEF OnWire
  <2>4. got[t] = [k \in 1 .. Len(got[t]) |-> [of |-> t, part |-> k]]
    BY <2>1
  <2> QED BY <2>1, <2>2, <2>3, <2>4
<1>3. SentIsGotOrOnWire
  BY <1>2 DEF SentIsGotOrOnWire
<1>4. RecvsComplete /\ SendsComplete
  BY <1>2 DEF RecvsComplete, SendsComplete
<1>5. StrictOrder
  BY <1>2 DEF StrictOrder
<1> QED BY <1>1, <1>3, <1>4, <1>5 DEF WireInv

LEMMA OthersKeepWire ==
    ASSUME TypeOK, WireInv, UNCHANGED wireVars,
           \A e \in Ends : /\ phase'[e] = "complete" <=> phase[e] = "complete"
                           /\ Begun(e) => Begun(e)'
    PROVE  WireInv'
<1> USE DEF WireInv, wireVars
<1>1. SentIsGotOrOnWire' /\ WireIsItsLines' /\ StrictOrder'
  BY DEF SentIsGotOrOnWire, OnWire, WireIsItsLines, StrictOrder
<1>2. RecvsComplete' /\ SendsComplete'
  BY TransferType DEF RecvsComplete, SendsComplete
<1> QED BY <1>1, <1>2

(* The ends of a transfer t that its line carries before transfer u. *)
LEMMA TransfersOfALine ==
    ASSUME NEW t \in DOMAIN Transfers, NEW u \in DOMAIN Transfers, SendLine(t) = SendLine(u)
    PROVE  /\ Line(<<t, "send">>) = Line(<<u, "send">>)
           /\ Line(<<t, "recv">>) = Line(<<u, "recv">>)
           /\ t < u \/ u < t \/ t = u
<1>1. /\ <<t, "send">> \in Ends /\ <<u, "send">> \in Ends
      /\ <<t, "recv">> \in Ends /\ <<u, "recv">> \in Ends
      /\ t \in Nat /\ u \in Nat
  BY TransferType
<1>2. \A v \in DOMAIN Transfers :
            /\ Line(<<v, "send">>)[1] = Transfers[v].src
            /\ Line(<<v, "send">>)[2] = Transfers[v].dst
            /\ Line(<<v, "recv">>) = <<Transfers[v].dst, Transfers[v].src, "recv">>
  BY DEF Line, Owner, PeerOf
<1>3. Transfers[t].src = Transfers[u].src /\ Transfers[t].dst = Transfers[u].dst
  BY <1>2 DEF SendLine
<1>4. Line(<<t, "recv">>) = Line(<<u, "recv">>)
  BY <1>2, <1>3
<1> QED BY <1>1, <1>4 DEF SendLine

LEMMA SendsPartWire ==
    ASSUME TypeOK, QueueInv, WireInv, NEW e \in Ends, SendsPart(e)
    PROVE  WireInv'
<1> USE DEF WireInv
<1> DEFINE t == e[1]
           L == SendLine(t)
           m == [of |-> t, part |-> sent[t] + 1]
<1>1. /\ t \in DOMAIN Transfers /\ e = <<t, "send">> /\ Line(e) = L /\ L \in SendLines
      /\ phase[e] = "transfers" /\ sent[t] < Parts /\ sent[t] \in Nat
      /\ wire[L] = <<>>
      /\ sent' = [sent EXCEPT ![t] = sent[t] + 1]
      /\ wire' = [wire EXCEPT ![L] = <<m>>]
      /\ UNCHANGED <<phase, got>>
  <2>1. t \in DOMAIN Transfers /\ e = <<t, "send">>
    BY EndFacts DEF SendsPart
  <2>2. Line(e) = L /\ L \in SendLines
    BY <2>1, SendLineFacts DEF SendLine
  <2> QED BY <2>1, <2>2, PartsAssumption DEF SendsPart, TypeOK
<1> HIDE DEF t, L, m
<1>2. /\ \A u \in DOMAIN Transfers : sent'[u] = IF u = t THEN sent[t] + 1 ELSE sent[u]
      /\ \A l \in SendLines : wire'[l] = IF l = L THEN <<m>> ELSE wire[l]
      /\ m.of = t /\ m.part = sent[t] + 1
      /\ SendLine(t) = L
  BY <1>1 DEF TypeOK, m, L
<1>3. SentIsGotOrOnWire'
  <2> SUFFICES ASSUME NEW u \in DOMAIN Transfers
               PROVE  sent'[u] = Len(got[u]) + (IF OnWire(u)' THEN 1 ELSE 0)
    BY <1>1 DEF SentIsGotOrOnWire
  <2>1. /\ SendLine(u) \in SendLines
        /\ sent[u] = Len(got[u]) + (IF OnWire(u) THEN 1 ELSE 0)
        /\ Len(got[u]) \in Nat
    BY SendLineFacts, LenProperties DEF SentIsGotOrOnWire, TypeOK
  <2>2. CASE SendLine(u) # L
    <3>1. OnWire(u)' <=> OnWire(u)
      BY <1>2, <2>1, <2>2 DEF OnWire
    <3> QED BY <1>2, <2>1, <2>2, <3>1
  <2>3. CASE SendLine(u) = L
    <3>1. ~OnWire(u)
      BY <1>1, <2>3 DEF OnWire
    <3>2. OnWire(u)' <=> u = t
      BY <1>2, <2>1, <2>3 DEF OnWire
    <3>3. sent[u] = Len(got[u])
      BY <2>1, <3>1
    <3>4. CASE u = t
      <4>1. sent'[u] = sent[u] + 1
        BY <1>2, <3>4
      <4> QED BY <3>2, <3>3, <3>4, <4>1
    <3>5. CASE u # t
      <4>1. sent'[u] = sent[u]
        BY <1>2, <3>5
      <4>2. ~OnWire(u)'
        BY <3>2, <3>5
      <4>3. sent'[u] = Len(got[u]) + 0
        BY <2>1, <3>3, <4>1
      <4> QED BY <4>2, <4>3
    <3> QED BY <3>4, <3>5
  <2> QED BY <2>2, <2>3
<1>4. WireIsItsLines'
  <2> SUFFICES ASSUME NEW l \in SendLines, wire'[l] # <<>>
               PROVE  /\ Len(wire'[l]) = 1
                      /\ SendLine(wire'[l][1].of) = l
                      /\ wire'[l][1].part = sent'[wire'[l][1].of]
    BY DEF WireIsItsLines
  <2>1. CASE l = L
    <3>1. wire'[l] = <<m>> /\ sent'[t] = sent[t] + 1
      BY <1>1, <1>2, <2>1
    <3> QED BY <1>2, <2>1, <3>1
  <2>2. CASE l # L
    <3>1. wire'[l] = wire[l] /\ wire[l] \in Seq(Messages)
      BY <1>2, <2>2 DEF TypeOK
    <3>2. wire[l][1] \in Messages
      BY <3>1, HeadTailProperties, EmptySeq
    <3>3. wire[l][1].of \in DOMAIN Transfers /\ wire[l][1].of # t
      BY <1>2, <2>2, <3>1, <3>2 DEF WireIsItsLines, Messages
    <3> QED BY <1>2, <3>1, <3>3 DEF WireIsItsLines
  <2> QED BY <2>1, <2>2
<1>5. RecvsComplete' /\ StrictOrder'
  BY <1>1 DEF RecvsComplete, StrictOrder
<1>6. SendsComplete'
  <2> SUFFICES ASSUME NEW u \in DOMAIN Transfers
               PROVE  /\ phase[<<u, "send">>] = "complete" => sent'[u] = Parts
                      /\ sent'[u] > 0 => Begun(<<u, "send">>)
    BY <1>1 DEF SendsComplete, Begun
  <2>1. CASE u = t
    BY <1>1, <2>1 DEF Begun
  <2>2. CASE u # t
    BY <1>2, <2>2 DEF SendsComplete
  <2> QED BY <2>1, <2>2
<1> QED BY <1>3, <1>4, <1>5, <1>6

(* The part on the wire belongs to the transfer whose recv is next on its   *)
(* line: the earlier recvs have got all their parts, and a later send has   *)
(* not begun before all parts of this one were sent.                        *)
LEMMA WireIsNext ==
    ASSUME TypeOK, QueueInv, WireInv,
           NEW t \in DOMAIN Transfers, phase[<<t, "recv">>] = "transfers",
           wire[SendLine(t)] # <<>>
    PROVE  wire[SendLine(t)][1] = [of |-> t, part |-> Len(got[t]) + 1]
<1> USE DEF QueueInv, WireInv
<1> DEFINE m == wire[SendLine(t)][1]
           u == m.of
<1>1. /\ m \in Messages
      /\ SendLine(u) = SendLine(t)
      /\ m.part = sent[u]
  BY HeadTailProperties, EmptySeq, SendLineFacts DEF WireIsItsLines, TypeOK
<1>2. u \in DOMAIN Transfers /\ OnWire(u)
  BY <1>1 DEF Messages, OnWire
<1> HIDE DEF u
<1>3. /\ sent[u] = Len(got[u]) + 1
      /\ sent[t] = Len(got[t]) + (IF t = u THEN 1 ELSE 0)
      /\ sent[u] \in 0 .. Parts /\ sent[t] \in 0 .. Parts
      /\ Len(got[u]) \in Nat /\ Len(got[t]) \in Nat /\ Parts \in Nat
  <2>1. OnWire(t) <=> t = u
    BY <1>1 DEF OnWire, u
  <2> QED BY <1>2, <2>1, LenProperties, PartsAssumption DEF SentIsGotOrOnWire, TypeOK
<1>4. /\ Line(<<t, "send">>) = Line(<<u, "send">>)
      /\ Line(<<t, "recv">>) = Line(<<u, "recv">>)
      /\ t < u \/ u < t \/ t = u
      /\ <<t, "send">> \in Ends /\ <<u, "send">> \in Ends
      /\ <<t, "recv">> \in Ends /\ <<u, "recv">> \in Ends
  BY <1>1, <1>2, TransfersOfALine, TransferType
<1>5. CASE u < t
  <2>1. phase[<<u, "recv">>] = "complete"
    BY <1>4, <1>5 DEF BegunInOrder, Begun
  <2>2. Len(got[u]) = Parts
    BY <1>2, <2>1 DEF RecvsComplete
  <2> QED BY <1>3, <2>2
<1>6. CASE t < u
  <2>1. Begun(<<u, "send">>)
    BY <1>2, <1>3 DEF SendsComplete
  <2>2. phase[<<t, "send">>] = "complete"
    BY <1>4, <1>6, <2>1 DEF BegunInOrder
  <2>3. sent[t] = Parts /\ Len(got[t]) # Parts
    BY <2>2 DEF SendsComplete, RecvsComplete
  <2>4. t # u
    BY <1>6, TransferType
  <2> QED BY <1>3, <2>3, <2>4
<1>7. CASE t = u
  BY <1>1, <1>3, <1>7 DEF Messages, u
<1> QED BY <1>4, <1>5, <1>6, <1>7

LEMMA RecvsPartWire ==
    ASSUME TypeOK, QueueInv, WireInv, NEW e \in Ends, RecvsPart(e)
    PROVE  WireInv'
<1> USE DEF WireInv
<1> DEFINE t == e[1]
           L == SendLine(t)
           m == [of |-> t, part |-> Len(got[t]) + 1]
           a == Append(got[t], m)
<1>1. /\ t \in DOMAIN Transfers /\ e = <<t, "recv">> /\ Source(e) = L /\ L \in SendLines
      /\ phase[e] = "transfers" /\ wire[L] # <<>>
  BY EndFacts, SourceFacts, SendLineFacts DEF RecvsPart
<1>2. wire[L][1] = m
  BY <1>1, WireIsNext
<1>3. /\ got' = [got EXCEPT ![t] = a]
      /\ wire' = [wire EXCEPT ![L] = <<>>]
      /\ phase' = IF Len(a) = Parts THEN [phase EXCEPT ![e] = "complete"] ELSE phase
      /\ sent' = sent
  <2>1. /\ got' = [got EXCEPT ![t] = a]
        /\ wire' = [wire EXCEPT ![L] = <<>>]
        /\ IF Len(got'[t]) = Parts THEN Moves(e, "complete") ELSE UNCHANGED phase
        /\ sent' = sent
    BY <1>1, <1>2 DEF RecvsPart
  <2>2. got'[t] = a
    BY <1>1, <2>1 DEF TypeOK
  <2> QED BY <2>1, <2>2 DEF Moves
<1>4. /\ got[t] \in Seq(Messages) /\ m \in Messages
      /\ Len(got[t]) \in Nat
      /\ a \in Seq(Messages) /\ Len(a) = Len(got[t]) + 1
      /\ a[Len(got[t]) + 1] = m
      /\ \A k \in 1 .. Len(got[t]) : a[k] = got[t][k]
  <2>1. got[t] \in Seq(Messages) /\ wire[L] \in Seq(Messages)
    BY <1>1 DEF TypeOK
  <2>2. m \in Messages
    BY <1>1, <1>2, <2>1, HeadTailProperties, EmptySeq
  <2> HIDE DEF m
  <2> QED BY <2>1, <2>2, AppendProperties, LenProperties
<1>5. \A u \in DOMAIN Transfers : SendLine(u) = L => (OnWire(u) <=> u = t)
  BY <1>1, <1>2 DEF OnWire
<1>6. SendLine(t) = L /\ m.of = t /\ m.part = Len(got[t]) + 1
  OBVIOUS
<1> HIDE DEF t, L, m, a
<1>7. /\ \A u \in DOMAIN Transfers : got'[u] = IF u = t THEN a ELSE got[u]
      /\ \A l \in SendLines : wire'[l] = IF l = L THEN <<>> ELSE wire[l]
      /\ \A f \in Ends : phase'[f] = IF f = e /\ Len(a) = Parts THEN "complete" ELSE phase[f]
  BY <1>1, <1>3 DEF TypeOK
<1>8. sent[t] = Len(a) /\ sent[t] \in 0 .. Parts
  <2>1. sent[t] = Len(got[t]) + (IF OnWire(t) THEN 1 ELSE 0) /\ OnWire(t)
    BY <1>1, <1>5, <1>6 DEF SentIsGotOrOnWire
  <2> QED BY <1>1, <1>4, <2>1 DEF TypeOK
<1>9. SentIsGotOrOnWire'
  <2> SUFFICES ASSUME NEW u \in DOMAIN Transfers
               PROVE  sent[u] = Len(got'[u]) + (IF OnWire(u)' THEN 1 ELSE 0)
    BY <1>3 DEF SentIsGotOrOnWire
  <2>1. /\ SendLine(u) \in SendLines
        /\ sent[u] = Len(got[u]) + (IF OnWire(u) THEN 1 ELSE 0)
        /\ Len(got[u]) \in Nat
    BY SendLineFacts, LenProperties DEF SentIsGotOrOnWire, TypeOK
  <2>2. CASE SendLine(u) # L
    <3>1. OnWire(u)' <=> OnWire(u)
      BY <1>7, <2>1, <2>2 DEF OnWire
    <3> QED BY <1>6, <1>7, <2>1, <2>2, <3>1
  <2>3. CASE SendLine(u) = L
    <3>1. ~OnWire(u)'
      BY <1>7, <2>1, <2>3 DEF OnWire
    <3>2. CASE u = t
      <4>1. sent[u] = Len(got'[u]) /\ sent[u] \in Nat
        BY <1>7, <1>8, <3>2
      <4> QED BY <3>1, <4>1
    <3>3. CASE u # t
      <4>1. ~OnWire(u) /\ got'[u] = got[u]
        BY <1>5, <1>7, <2>3, <3>3
      <4>2. sent[u] = Len(got'[u]) /\ Len(got'[u]) \in Nat
        BY <2>1, <4>1
      <4> QED BY <3>1, <4>2
    <3> QED BY <3>2, <3>3
  <2> QED BY <2>2, <2>3
<1>10. WireIsItsLines'
  BY <1>3, <1>7 DEF WireIsItsLines
<1>11. RecvsComplete'
  <2> SUFFICES ASSUME NEW u \in DOMAIN Transfers
               PROVE  /\ Len(got'[u]) <= Parts
                      /\ phase'[<<u, "recv">>] = "complete" <=> Len(got'[u]) = Parts
    BY DEF RecvsComplete
  <2>1. <<u, "recv">> \in Ends
    BY TransferType
  <2>2. CASE u = t
    BY <1>1, <1>7, <1>8, <2>1, <2>2
  <2>3. CASE u # t
    <3>1. <<u, "recv">> # e
      BY <1>1, <2>3
    <3> QED BY <1>7, <2>1, <2>3, <3>1 DEF RecvsComplete
  <2> QED BY <2>2, <2>3
<1>12. SendsComplete'
  <2> SUFFICES ASSUME NEW u \in DOMAIN Transfers
               PROVE  /\ phase'[<<u, "send">>] = "complete" => sent[u] = Parts
                      /\ sent[u] > 0 => Begun(<<u, "send">>)'
    BY <1>3 DEF SendsComplete
  <2>1. <<u, "send">> \in Ends /\ <<u, "send">> # e
    BY <1>1, TransferType
  <2>2. phase'[<<u, "send">>] = phase[<<u, "send">>]
    BY <1>7, <2>1
  <2> QED BY <2>2 DEF SendsComplete, Begun
<1>13. StrictOrder'
  <2> SUFFICES ASSUME NEW u \in DOMAIN Transfers
               PROVE  got'[u] = [k \in 1 .. Len(got'[u]) |-> [of |-> u, part |-> k]]
    BY DEF StrictOrder
  <2>1. CASE u # t
    BY <1>7, <2>1 DEF StrictOrder
  <2>2. CASE u = t
    <3>1. a = [k \in 1 .. Len(a) |-> a[k]]
      <4>1. a \in [1 .. Len(a) -> Messages]
        BY <1>4, LenProperties
      <4> QED BY <4>1
    <3>2. \A k \in 1 .. Len(got[t]) : got[t][k] = [of |-> t, part |-> k]
      <4>1. got[t] = [k \in 1 .. Len(got[t]) |-> [of |-> t, part |-> k]]
        BY <1>1 DEF StrictOrder
      <4> QED BY <4>1
    <3>3. \A k \in 1 .. Len(a) : a[k] = [of |-> t, part |-> k]
      <4> SUFFICES ASSUME NEW k \in 1 .. Len(a) PROVE a[k] = [of |-> t, part |-> k]
        OBVIOUS
      <4>1. CASE k \in 1 .. Len(got[t])
        BY <1>4, <3>2, <4>1
      <4>2. CASE k = Len(got[t]) + 1
        BY <1>4, <4>2 DEF m
      <4> QED BY <1>4, <4>1, <4>2
    <3>4. got'[u] = a
      BY <1>7, <2>2
    <3> QED BY <2>2, <3>1, <3>3, <3>4
  <2> QED BY <2>1, <2>2
<1> QED BY <1>9, <1>10, <1>11, <1>12, <1>13

LEMMA SendReturnsWire ==
    ASSUME TypeOK, WireInv, NEW e \in Ends, SendReturns(e)
    PROVE  WireInv'
<1> USE DEF WireInv
<1>1. /\ e[2] = "send" /\ e[1] \in DOMAIN Transfers /\ e = <<e[1], "send">>
      /\ phase[e] = "transfers" /\ sent[e[1]] = Parts
      /\ phase' = [phase EXCEPT ![e] = "complete"]
      /\ UNCHANGED <<sent, wire, got>>
  BY EndFacts DEF SendReturns, Moves, wireVars
<1>2. \A f \in Ends : phase'[f] = IF f = e THEN "complete" ELSE phase[f]
  BY <1>1 DEF TypeOK
<1>3. SentIsGotOrOnWire' /\ WireIsItsLines' /\ StrictOrder'
  BY <1>1 DEF SentIsGotOrOnWire, OnWire, WireIsItsLines, StrictOrder
<1>4. RecvsComplete'
  <2> SUFFICES ASSUME NEW t \in DOMAIN Transfers
               PROVE  phase'[<<t, "recv">>] = phase[<<t, "recv">>]
    BY <1>1 DEF RecvsComplete
  <2>1. <<t, "recv">> \in Ends /\ <<t, "recv">>[2] = "recv"
    BY TransferType
  <2> QED BY <1>1, <1>2, <2>1
<1>5. SendsComplete'
  <2> SUFFICES ASSUME NEW t \in DOMAIN Transfers
               PROVE  /\ phase'[<<t, "send">>] = "complete" => sent[t] = Parts
                      /\ sent[t] > 0 => Begun(<<t, "send">>)'
    BY <1>1 DEF SendsComplete
  <2>1. <<t, "send">> \in Ends
    BY TransferType
  <2>2. CASE <<t, "send">> = e
    BY <1>1, <1>2, <2>1, <2>2 DEF Begun
  <2>3. CASE <<t, "send">> # e
    BY <1>2, <2>1, <2>3 DEF SendsComplete, Begun
  <2> QED BY <2>2, <2>3
<1> QED BY <1>3, <1>4, <1>5

(* A recv is given the parts of its own send, in their order, whatever mix  *)
(* of synchronous and asynchronous calls the two workers make.              *)
THEOREM OrderIsStrict == Spec => []StrictOrder
<1>1. TypeOK /\ QueueInv /\ WireInv /\ [Next]_vars => WireInv'
  <2> SUFFICES ASSUME TypeOK, QueueInv, WireInv, [Next]_vars PROVE WireInv'
    OBVIOUS
  <2>1. CASE UNCHANGED vars
    BY <2>1, OthersKeepWire DEF vars, Begun
  <2>2. CASE CallerStep \/ QueueStep
    <3>1. /\ UNCHANGED wireVars
          /\ \A e \in Ends : /\ phase'[e] = "complete" <=> phase[e] = "complete"
                             /\ Begun(e) => Begun(e)'
      BY <2>2, CallerAndQueueMoves DEF Begun
    <3> QED BY <3>1, OthersKeepWire
  <2>3. CASE SetupStep
    <3>1. /\ UNCHANGED wireVars
          /\ \A e \in Ends : /\ phase'[e] = "complete" <=> phase[e] = "complete"
                             /\ Begun(e) => Begun(e)'
      BY <2>3, SetupMoves DEF Begun, InSetup
    <3> QED BY <3>1, OthersKeepWire
  <2>4. CASE WireStep
    BY <2>4, SendsPartWire, RecvsPartWire, SendReturnsWire DEF WireStep
  <2> QED BY <2>1, <2>2, <2>3, <2>4 DEF Next
<1>2. WireInv => StrictOrder
  BY DEF WireInv
<1> QED BY <1>1, <1>2, InitWire, QueuesInOrder, PTL DEF Spec

-----------------------------------------------------------------------------
(* The groups. *)

LEMMA InitSetup == Init => SetupInv
<1> SUFFICES ASSUME Init PROVE SetupInv
  OBVIOUS
<1>1. \A e \in Ends : phase[e] \notin InSetup /\ ~Joining(e)
  BY DEF Init, InSetup, Joining
<1>2. \A w \in Workers, g \in Groups : myPort[w][g] = NoPort
  BY DEF Init
<1>3. \A e \in Ends : myPort[Owner(e)][Group(e)] = NoPort /\ port[Group(e)] = NoPort
  BY <1>2, EndFacts DEF Init
<1>4. SetUpAlone /\ SetUpIfMissing
  BY <1>1 DEF SetUpAlone, SetUpIfMissing
<1>5. PortIsForAGroup /\ PublishedIsTheMasters /\ PortIsTheGroups
  BY <1>3 DEF PortIsForAGroup, PublishedIsTheMasters, PortIsTheGroups
<1>6. JoinsAtTheMasters
  BY <1>1 DEF JoinsAtTheMasters
<1>7. PortsOfOwnGroups
  BY <1>2 DEF PortsOfOwnGroups
<1>8. LockedForAGroup
  BY DEF Init, LockedForAGroup
<1> QED BY <1>4, <1>5, <1>6, <1>7, <1>8 DEF SetupInv

(* A step that moves works neither into the setup nor within it. *)
LEMMA OthersKeepSetup ==
    ASSUME TypeOK, SetupInv,
           UNCHANGED <<port, portLock, myPort, initialized>>,
           \A e \in Ends : phase'[e] = phase[e]
                           \/ (phase[e] \notin InSetup /\ phase'[e] \notin InSetup)
    PROVE  SetupInv'
<1> USE DEF SetupInv
<1>1. \A e \in Ends : Joining(e)' <=> Joining(e)
  BY DEF Joining, InSetup
<1>2. SetUpAlone' /\ SetUpIfMissing'
  BY DEF SetUpAlone, SetUpIfMissing
<1>3. PortIsForAGroup'
  BY <1>1 DEF PortIsForAGroup
<1>4. PublishedIsTheMasters' /\ PortIsTheGroups' /\ PortsOfOwnGroups' /\ LockedForAGroup'
  BY DEF PublishedIsTheMasters, PortIsTheGroups, PortsOfOwnGroups, LockedForAGroup
<1>5. JoinsAtTheMasters'
  BY <1>1 DEF JoinsAtTheMasters
<1> QED BY <1>2, <1>3, <1>4, <1>5

(* A work locks the setup of its group, or goes on before it joins. *)
LEMMA EntersSetup ==
    ASSUME TypeOK, SetupInv, NEW e \in Ends,
           Locks(e) \/ RegistersGroup(e) \/ FindsGroup(e)
    PROVE  SetupInv'
<1> USE DEF SetupInv
<1>1. /\ UNCHANGED <<port, portLock, myPort, initialized>>
      /\ ~Joining(e)
      /\ \E p \in {"setup", "known", "transfers"} :
            /\ phase' = [phase EXCEPT ![e] = p]
            /\ p # "transfers" => Group(e) \notin initialized[Owner(e)]
      /\ \/ phase[e] \in InSetup
         \/ \A f \in Ends : Owner(f) = Owner(e) /\ Group(f) = Group(e) =>
                phase[f] \notin InSetup
  BY DEF Locks, RegistersGroup, FindsGroup, Moves, setupVars, Joining, InSetup, SetUpIfMissing
<1>2. PICK p \in {"setup", "known", "transfers"} :
            /\ phase' = [phase EXCEPT ![e] = p]
            /\ p # "transfers" => Group(e) \notin initialized[Owner(e)]
  BY <1>1
<1>3. \A f \in Ends : phase'[f] = IF f = e THEN p ELSE phase[f]
  BY <1>2 DEF TypeOK
<1>4. \A f \in Ends : Joining(f)' <=> Joining(f)
  BY <1>1, <1>3 DEF Joining
<1>5. SetUpAlone'
  BY <1>1, <1>3 DEF SetUpAlone
<1>6. SetUpIfMissing'
  BY <1>1, <1>2, <1>3 DEF SetUpIfMissing, InSetup
<1>7. PortIsForAGroup' /\ JoinsAtTheMasters'
  BY <1>1, <1>4 DEF PortIsForAGroup, JoinsAtTheMasters
<1>8. PublishedIsTheMasters' /\ PortIsTheGroups' /\ PortsOfOwnGroups' /\ LockedForAGroup'
  BY <1>1 DEF PublishedIsTheMasters, PortIsTheGroups, PortsOfOwnGroups, LockedForAGroup
<1> QED BY <1>5, <1>6, <1>7, <1>8

LEMMA PublishesPortSetup ==
    ASSUME TypeOK, SetupInv, NEW e \in Ends, PublishesPort(e)
    PROVE  SetupInv'
<1> USE DEF SetupInv
<1> DEFINE w == Owner(e)
           g == Group(e)
<1>1. PICK p \in Ports :
        /\ portLock[p] = NoWorker
        /\ portLock' = [portLock EXCEPT ![p] = w]
        /\ myPort' = [myPort EXCEPT ![w][g] = p]
        /\ port' = [port EXCEPT ![g] = p]
  BY DEF PublishesPort
<1>2. /\ phase[e] = "known" /\ IsMaster(e)
      /\ phase' = [phase EXCEPT ![e] = "joins"]
      /\ initialized' = initialized
      /\ w \in Workers /\ g \in Groups /\ w \in g
      /\ p # NoPort
  BY EndFacts, PortsAssumption DEF PublishesPort, Moves
<1>3. /\ \A f \in Ends : phase'[f] = IF f = e THEN "joins" ELSE phase[f]
      /\ \A v \in Workers, h \in Groups :
            myPort'[v][h] = IF v = w /\ h = g THEN p ELSE myPort[v][h]
      /\ \A h \in Groups : port'[h] = IF h = g THEN p ELSE port[h]
      /\ \A q \in Ports : portLock'[q] = IF q = p THEN w ELSE portLock[q]
      /\ \A v \in Workers, h \in Groups : myPort[v][h] \in Ports \cup {NoPort}
  BY <1>1, <1>2 DEF TypeOK
<1> HIDE DEF w, g
<1>4. \A f \in Ends : Owner(f) \in Workers /\ Group(f) \in Groups
  BY EndFacts
(* The master had no port for the group, so nobody was joining it. *)
<1>5. myPort[w][g] = NoPort
  <2>1. g \notin initialized[w]
    BY <1>2 DEF SetUpIfMissing, InSetup, w, g
  <2>2. ASSUME NEW f \in Ends, IsMaster(f), Group(f) = g, Joining(f)
        PROVE  FALSE
    <3>1. Owner(f) = w
      BY <1>2, <2>2, GroupFacts DEF w, g
    <3>2. f = e
      BY <1>2, <2>2, <3>1 DEF SetUpAlone, InSetup, Joining, w, g
    <3> QED BY <1>2, <2>2, <3>2 DEF Joining
  <2> QED BY <1>2, <2>1, <2>2 DEF PortIsForAGroup, w, g
<1>6. \A f \in Ends : Group(f) = g => ~Joining(f)
  BY <1>2, <1>5 DEF JoinsAtTheMasters, w, g
<1>7. \A f \in Ends : IsMaster(f) /\ Group(f) = g => Owner(f) = w
  BY <1>2, GroupFacts DEF w, g
(* No other group uses the port, since its lock was free. *)
<1>8. \A f \in Ends : IsMaster(f) => myPort[Owner(f)][Group(f)] # p
  <2> SUFFICES ASSUME NEW f \in Ends, IsMaster(f), myPort[Owner(f)][Group(f)] = p
               PROVE  FALSE
    OBVIOUS
  <2>1. portLock[p] = Owner(f)
    BY <1>2 DEF PortIsTheGroups
  <2> QED BY <1>1, <1>4, <2>1, WorkersAssumption
<1>9. Joining(e)' /\ \A f \in Ends : f # e => (Joining(f)' <=> Joining(f))
  BY <1>3 DEF Joining
<1>10. SetUpAlone' /\ SetUpIfMissing'
  BY <1>2, <1>3 DEF SetUpAlone, SetUpIfMissing, InSetup
<1>11. PortIsForAGroup'
  <2> SUFFICES ASSUME NEW f \in Ends, IsMaster(f), myPort'[Owner(f)][Group(f)] # NoPort
               PROVE  \/ Group(f) \in initialized[Owner(f)]
                      \/ \E h \in Ends : IsMaster(h) /\ Group(h) = Group(f) /\ Joining(h)'
    BY <1>2 DEF PortIsForAGroup
  <2>1. CASE Owner(f) = w /\ Group(f) = g
    BY <1>2, <1>9, <2>1 DEF g
  <2>2. CASE ~(Owner(f) = w /\ Group(f) = g)
    BY <1>3, <1>4, <1>9, <2>2 DEF PortIsForAGroup
  <2> QED BY <2>1, <2>2
<1>12. PublishedIsTheMasters'
  BY <1>3, <1>4, <1>7 DEF PublishedIsTheMasters
<1>13. JoinsAtTheMasters'
  <2> SUFFICES ASSUME NEW f \in Ends, NEW h \in Ends,
                      IsMaster(f), Group(h) = Group(f), Joining(h)'
               PROVE  /\ myPort'[Owner(f)][Group(f)] # NoPort
                      /\ myPort'[Owner(h)][Group(h)] = myPort'[Owner(f)][Group(f)]
    BY DEF JoinsAtTheMasters
  <2>1. CASE Group(f) = g
    <3>1. h = e
      BY <1>6, <1>9, <2>1
    <3> QED BY <1>2, <1>3, <1>4, <1>7, <2>1, <3>1 DEF w, g
  <2>2. CASE Group(f) # g
    <3>1. Joining(h)
      BY <1>9, <2>2 DEF g
    <3> QED BY <1>3, <1>4, <2>2, <3>1 DEF JoinsAtTheMasters
  <2> QED BY <2>1, <2>2
<1>14. PortIsTheGroups'
  <2> SUFFICES ASSUME NEW f \in Ends, IsMaster(f), myPort'[Owner(f)][Group(f)] # NoPort
               PROVE  /\ portLock'[myPort'[Owner(f)][Group(f)]] = Owner(f)
                      /\ \A h \in Ends : IsMaster(h)
                            /\ myPort'[Owner(h)][Group(h)] = myPort'[Owner(f)][Group(f)] =>
                                    Group(h) = Group(f)
    BY DEF PortIsTheGroups
  <2>1. CASE Group(f) = g
    <3>1. Owner(f) = w /\ myPort'[Owner(f)][Group(f)] = p
      BY <1>3, <1>4, <1>7, <2>1
    <3>2. ASSUME NEW h \in Ends, IsMaster(h), myPort'[Owner(h)][Group(h)] = p
          PROVE  Group(h) = g
      BY <1>3, <1>4, <1>8, <3>2
    <3> QED BY <1>3, <2>1, <3>1, <3>2
  <2>2. CASE Group(f) # g
    <3>1. /\ myPort'[Owner(f)][Group(f)] = myPort[Owner(f)][Group(f)]
          /\ myPort[Owner(f)][Group(f)] # p
          /\ myPort[Owner(f)][Group(f)] \in Ports
      BY <1>3, <1>4, <1>8, <2>2
    <3>2. ASSUME NEW h \in Ends, IsMaster(h),
                 myPort'[Owner(h)][Group(h)] = myPort[Owner(f)][Group(f)]
          PROVE  Group(h) = Group(f)
      <4>1. myPort[Owner(h)][Group(h)] = myPort[Owner(f)][Group(f)]
        BY <1>3, <1>4, <3>1, <3>2
      <4> QED BY <2>2, <3>1, <3>2, <4>1 DEF PortIsTheGroups
    <3>3. portLock'[myPort[Owner(f)][Group(f)]] = Owner(f)
      BY <1>3, <3>1 DEF PortIsTheGroups
    <3> QED BY <3>1, <3>2, <3>3
  <2> QED BY <2>1, <2>2
<1>15. PortsOfOwnGroups'
  BY <1>2, <1>3 DEF PortsOfOwnGroups
<1>16. LockedForAGroup'
  <2> SUFFICES ASSUME NEW q \in Ports, portLock'[q] # NoWorker
               PROVE  \E f \in Ends : /\ IsMaster(f) /\ Owner(f) = portLock'[q]
                                      /\ myPort'[Owner(f)][Group(f)] = q
    BY DEF LockedForAGroup
  <2>1. CASE q = p
    BY <1>2, <1>3, <2>1 DEF w, g
  <2>2. CASE q # p
    <3>1. PICK f \in Ends : /\ IsMaster(f) /\ Owner(f) = portLock[q]
                            /\ myPort[Owner(f)][Group(f)] = q
      BY <1>3, <2>2 DEF LockedForAGroup
    <3>2. ~(Owner(f) = w /\ Group(f) = g)
      BY <1>5, <3>1, PortsAssumption
    <3> QED BY <1>3, <1>4, <2>2, <3>1, <3>2
  <2> QED BY <2>1, <2>2
<1> QED BY <1>10, <1>11, <1>12, <1>13, <1>14, <1>15, <1>16

LEMMA ReadsPortSetup ==
    ASSUME TypeOK, SetupInv, NEW e \in Ends, ReadsPort(e)
    PROVE  SetupInv'
<1> USE DEF SetupInv
<1> DEFINE w == Owner(e)
           g == Group(e)
<1>1. /\ phase[e] = "known" /\ ~IsMaster(e)
      /\ port[g] # NoPort
      /\ myPort' = [myPort EXCEPT ![w][g] = port[g]]
      /\ phase' = [phase EXCEPT ![e] = "joins"]
      /\ UNCHANGED <<port, portLock, initialized>>
      /\ w \in Workers /\ g \in Groups /\ w \in g
  BY EndFacts DEF ReadsPort, Moves
<1>2. /\ \A f \in Ends : phase'[f] = IF f = e THEN "joins" ELSE phase[f]
      /\ \A v \in Workers, h \in Groups :
            myPort'[v][h] = IF v = w /\ h = g THEN port[g] ELSE myPort[v][h]
  BY <1>1 DEF TypeOK
<1> HIDE DEF w, g
<1>3. \A f \in Ends : Owner(f) \in Workers /\ Group(f) \in Groups
  BY EndFacts
(* The ports of masters stay as they are. *)
<1>4. \A f \in Ends : IsMaster(f) =>
            myPort'[Owner(f)][Group(f)] = myPort[Owner(f)][Group(f)]
  <2> SUFFICES ASSUME NEW f \in Ends, IsMaster(f)
               PROVE  ~(Owner(f) = w /\ Group(f) = g)
    BY <1>2, <1>3
  <2> QED BY <1>1, GroupFacts DEF w, g
<1>5. Joining(e)' /\ \A f \in Ends : f # e => (Joining(f)' <=> Joining(f))
  BY <1>2 DEF Joining
<1>6. SetUpAlone' /\ SetUpIfMissing'
  BY <1>1, <1>2 DEF SetUpAlone, SetUpIfMissing, InSetup
<1>7. PortIsForAGroup'
  <2> SUFFICES ASSUME NEW f \in Ends, IsMaster(f), myPort[Owner(f)][Group(f)] # NoPort
               PROVE  \/ Group(f) \in initialized[Owner(f)]
                      \/ \E h \in Ends : IsMaster(h) /\ Group(h) = Group(f) /\ Joining(h)'
    BY <1>1, <1>4 DEF PortIsForAGroup
  <2> QED BY <1>5 DEF PortIsForAGroup
<1>8. PublishedIsTheMasters' /\ PortIsTheGroups'
  BY <1>1, <1>4 DEF PublishedIsTheMasters, PortIsTheGroups
<1>9. JoinsAtTheMasters'
  <2> SUFFICES ASSUME NEW f \in Ends, NEW h \in Ends,
                      IsMaster(f), Group(h) = Group(f), Joining(h)'
               PROVE  /\ myPort[Owner(f)][Group(f)] # NoPort
                      /\ myPort'[Owner(h)][Group(h)] = myPort[Owner(f)][Group(f)]
    BY <1>4 DEF JoinsAtTheMasters
  <2>1. CASE Group(f) = g
    <3>1. port[g] = myPort[Owner(f)][Group(f)]
      BY <1>1, <2>1 DEF PublishedIsTheMasters
    <3>2. CASE Owner(h) = w
      BY <1>1, <1>2, <2>1, <3>1, <3>2
    <3>3. CASE Owner(h) # w
      <4>1. Joining(h) /\ myPort'[Owner(h)][Group(h)] = myPort[Owner(h)][Group(h)]
        BY <1>2, <1>3, <1>5, <3>3 DEF w
      <4> QED BY <4>1 DEF JoinsAtTheMasters
    <3> QED BY <3>2, <3>3
  <2>2. CASE Group(f) # g
    <3>1. Joining(h) /\ myPort'[Owner(h)][Group(h)] = myPort[Owner(h)][Group(h)]
      BY <1>2, <1>3, <1>5, <2>2 DEF g
    <3> QED BY <3>1 DEF JoinsAtTheMasters
  <2> QED BY <2>1, <2>2
<1>10. PortsOfOwnGroups'
  BY <1>1, <1>2 DEF PortsOfOwnGroups
<1>11. LockedForAGroup'
  BY <1>1, <1>4 DEF LockedForAGroup
<1> QED BY <1>6, <1>7, <1>8, <1>9, <1>10, <1>11

LEMMA MeetSetup ==
    ASSUME TypeOK, SetupInv, NEW e \in Ends, NEW f \in Ends, Meet(e, f)
    PROVE  SetupInv'
<1> USE DEF SetupInv
<1>1. /\ phase[e] = "joins" /\ phase[f] = "joins"
      /\ phase' = [phase EXCEPT ![e] = "joined", ![f] = "joined"]
      /\ UNCHANGED <<port, portLock, myPort, initialized>>
  BY DEF Meet, setupVars
<1>2. \A h \in Ends : phase'[h] = IF h = e \/ h = f THEN "joined" ELSE phase[h]
  BY <1>1 DEF TypeOK
<1>3. \A h \in Ends : (Joining(h)' <=> Joining(h)) /\ (phase'[h] \in InSetup <=> phase[h] \in InSetup)
  BY <1>1, <1>2 DEF Joining, InSetup
<1>4. SetUpAlone' /\ SetUpIfMissing'
  BY <1>1, <1>3 DEF SetUpAlone, SetUpIfMissing
<1>5. PortIsForAGroup' /\ JoinsAtTheMasters'
  BY <1>1, <1>3 DEF PortIsForAGroup, JoinsAtTheMasters
<1>6. PublishedIsTheMasters' /\ PortIsTheGroups' /\ PortsOfOwnGroups' /\ LockedForAGroup'
  BY <1>1 DEF PublishedIsTheMasters, PortIsTheGroups, PortsOfOwnGroups, LockedForAGroup
<1> QED BY <1>4, <1>5, <1>6

LEMMA SetUpSetup ==
    ASSUME TypeOK, SetupInv, NEW e \in Ends, SetUp(e)
    PROVE  SetupInv'
<1> USE DEF SetupInv
<1>1. /\ phase[e] = "joined"
      /\ initialized' = [initialized EXCEPT ![Owner(e)] = @ \cup {Group(e)}]
      /\ phase' = [phase EXCEPT ![e] = "transfers"]
      /\ UNCHANGED <<portLock, myPort>>
  BY DEF SetUp, Moves
<1>2. \A g \in Groups : port'[g] = port[g] \/ port'[g] = NoPort
  BY DEF SetUp, TypeOK
<1>3. /\ \A f \in Ends : phase'[f] = IF f = e THEN "transfers" ELSE phase[f]
      /\ \A f \in Ends : initialized'[Owner(f)] =
            initialized[Owner(f)] \cup (IF Owner(f) = Owner(e) THEN {Group(e)} ELSE {})
  BY <1>1, EndFacts DEF TypeOK
<1>4. \A f \in Ends : Joining(f)' <=> Joining(f) /\ f # e
  BY <1>3 DEF Joining
<1>5. SetUpAlone'
  BY <1>3 DEF SetUpAlone, InSetup
<1>6. SetUpIfMissing'
  BY <1>1, <1>3 DEF SetUpIfMissing, SetUpAlone, InSetup
<1>7. PortIsForAGroup'
  <2> SUFFICES ASSUME NEW f \in Ends, IsMaster(f), myPort[Owner(f)][Group(f)] # NoPort
               PROVE  \/ Group(f) \in initialized'[Owner(f)]
                      \/ \E h \in Ends : IsMaster(h) /\ Group(h) = Group(f) /\ Joining(h)'
    BY <1>1 DEF PortIsForAGroup
  <2>1. CASE Group(f) \in initialized[Owner(f)]
    BY <1>3, <2>1
  <2>2. CASE \E h \in Ends : IsMaster(h) /\ Group(h) = Group(f) /\ Joining(h)
    <3>1. PICK h \in Ends : IsMaster(h) /\ Group(h) = Group(f) /\ Joining(h)
      BY <2>2
    <3>2. CASE h = e
      <4>1. Owner(f) = Owner(e)
        BY <3>1, <3>2, GroupFacts
      <4> QED BY <1>3, <3>1, <3>2, <4>1
    <3>3. CASE h # e
      BY <1>4, <3>1, <3>3
    <3> QED BY <3>2, <3>3
  <2> QED BY <2>1, <2>2 DEF PortIsForAGroup
<1>8. PublishedIsTheMasters'
  BY <1>1, <1>2, EndFacts DEF PublishedIsTheMasters
<1>9. JoinsAtTheMasters' /\ PortIsTheGroups' /\ PortsOfOwnGroups' /\ LockedForAGroup'
  BY <1>1, <1>4 DEF JoinsAtTheMasters, PortIsTheGroups, PortsOfOwnGroups, LockedForAGroup
<1> QED BY <1>5, <1>6, <1>7, <1>8, <1>9

LEMMA SetupStepInv == TypeOK /\ QueueInv /\ SetupInv /\ [Next]_vars => SetupInv'
<1> SUFFICES ASSUME TypeOK, QueueInv, SetupInv, [Next]_vars PROVE SetupInv'
  OBVIOUS
<1>1. CASE UNCHANGED vars
  BY <1>1, OthersKeepSetup DEF vars, setupVars
<1>2. CASE CallerStep \/ QueueStep
  <2>1. /\ UNCHANGED <<port, portLock, myPort, initialized>>
        /\ \A e \in Ends : phase'[e] = phase[e]
                           \/ (phase[e] \notin InSetup /\ phase'[e] \notin InSetup)
    BY <1>2, CallerAndQueueMoves DEF InSetup
  <2> QED BY <2>1, OthersKeepSetup
<1>3. CASE SetupStep
  BY <1>3, EntersSetup, PublishesPortSetup, ReadsPortSetup, MeetSetup, SetUpSetup
     DEF SetupStep
<1>4. CASE WireStep
  <2>1. PICK e \in Ends : SendsPart(e) \/ RecvsPart(e) \/ SendReturns(e)
    BY <1>4 DEF WireStep
  <2>2. /\ UNCHANGED <<port, portLock, myPort, initialized>>
        /\ phase[e] = "transfers"
        /\ phase' = phase \/ phase' = [phase EXCEPT ![e] = "complete"]
    BY <2>1 DEF SendsPart, RecvsPart, SendReturns, Moves, setupVars
  <2>3. \A f \in Ends : phase'[f] = phase[f]
                        \/ (phase[f] \notin InSetup /\ phase'[f] \notin InSetup)
    BY <2>2 DEF InSetup, TypeOK
  <2> QED BY <2>2, <2>3, OthersKeepSetup
<1> QED BY <1>1, <1>2, <1>3, <1>4 DEF Next

LEMMA GroupsAreFinite == IsFiniteSet(Groups)
<1> DEFINE n == Len(Transfers)
           f == [t \in 1 .. n |-> Group(<<t, "send">>)]
<1>1. n \in Nat /\ DOMAIN Transfers = 1 .. n
  BY TransfersAssumption, LenProperties
<1>2. \A e \in Ends : Group(e) = Group(<<e[1], "send">>)
  <2> SUFFICES ASSUME NEW e \in Ends PROVE Group(e) = Group(<<e[1], "send">>)
    OBVIOUS
  <2> QED BY EndFacts DEF Group, Owner, PeerOf
<1>3. \A t \in 1 .. n : Group(<<t, "send">>) \in Groups
  BY <1>1, TransferType, EndFacts
<1>4. f \in Surjection(1 .. n, Groups)
  <2>1. f \in [1 .. n -> Groups]
    BY <1>3
  <2>2. \A g \in Groups : \E t \in 1 .. n : f[t] = g
    BY <1>1, <1>2, EndFacts DEF Groups
  <2> QED BY <2>1, <2>2 DEF Surjection
<1> QED BY <1>1, <1>4, FS_NatSurjection DEF ExistsSurjection

(* The ports that w has locked are those of the groups it has a port for as *)
(* their master, one each.                                                  *)
LEMMA OnePortPerGroup ==
    ASSUME TypeOK, SetupInv, NEW w \in Workers
    PROVE  Cardinality({p \in Ports : portLock[p] = w}) =
           Cardinality({g \in Groups : myPort[w][g] # NoPort /\ \A v \in g : w <= v})
<1> USE DEF SetupInv
<1> DEFINE P == {p \in Ports : portLock[p] = w}
           G == {g \in Groups : myPort[w][g] # NoPort /\ \A v \in g : w <= v}
           f == [g \in G |-> myPort[w][g]]
<1>1. ASSUME NEW g \in G
      PROVE  \E e \in Ends : Group(e) = g /\ IsMaster(e) /\ Owner(e) = w
  <2>1. PICK d \in Ends : Group(d) = g
    BY DEF Groups
  <2>2. PICK e \in Ends : Group(e) = g /\ IsMaster(e)
    BY <2>1, GroupHasMaster
  <2>3. w \in {Owner(e), PeerOf(e)} /\ w <= Owner(e)
    BY <2>2 DEF Group, PortsOfOwnGroups
  <2>4. Owner(e) \in Nat /\ PeerOf(e) \in Nat /\ w \in Nat
    BY EndFacts, WorkersAssumption
  <2> QED BY <2>2, <2>3, <2>4 DEF IsMaster
<1>2. f \in Injection(G, P)
  <2>1. ASSUME NEW g \in G PROVE f[g] \in P
    <3>1. myPort[w][g] \in Ports
      BY DEF TypeOK
    <3> QED BY <1>1, <3>1 DEF PortIsTheGroups
  <2>2. ASSUME NEW g \in G, NEW h \in G, f[g] = f[h] PROVE g = h
    BY <1>1, <2>2 DEF PortIsTheGroups
  <2>3. f \in [G -> P]
    BY <2>1
  <2> HIDE DEF f, G, P
  <2> QED BY <2>2, <2>3 DEF Injection, IsInjective
<1>3. f \in Surjection(G, P)
  <2>1. ASSUME NEW p \in P PROVE \E g \in G : f[g] = p
    <3>1. portLock[p] = w /\ p \in Ports /\ w # NoWorker /\ p # NoPort
      BY WorkersAssumption, PortsAssumption
    <3>2. PICK e \in Ends : IsMaster(e) /\ Owner(e) = w /\ myPort[w][Group(e)] = p
      BY <3>1 DEF LockedForAGroup
    <3>3. Group(e) \in Groups /\ PeerOf(e) \in Nat /\ w \in Nat
      BY EndFacts, WorkersAssumption
    <3>4. \A v \in Group(e) : w <= v
      BY <3>2, <3>3 DEF Group, IsMaster
    <3> QED BY <3>1, <3>2, <3>3, <3>4
  <2>2. f \in [G -> P]
    BY <1>2 DEF Injection
  <2> HIDE DEF f, G, P
  <2> QED BY <2>1, <2>2 DEF Surjection
<1>4. IsFiniteSet(G)
  BY GroupsAreFinite, FS_Subset
<1> HIDE DEF f, G, P
<1>5. Cardinality(P) = Cardinality(G)
  BY <1>2, <1>3, <1>4, FS_Surjection
<1> QED BY <1>5 DEF G, P

(* A group is set up once: workers meet at one port exactly if they join    *)
(* one group, and a master holds one port lock for each of its groups.      *)
THEOREM GroupsAreSetUpOnce == Spec => []OneSetUpPerGroup
<1>1. TypeOK /\ SetupInv => OneSetUpPerGroup
  <2> SUFFICES ASSUME TypeOK, SetupInv PROVE OneSetUpPerGroup
    OBVIOUS
  <2> USE DEF SetupInv
  <2>1. ASSUME NEW e \in Ends, NEW f \in Ends, Joining(e), Joining(f)
        PROVE  Group(e) = Group(f) <=>
                    myPort[Owner(e)][Group(e)] = myPort[Owner(f)][Group(f)]
    <3>1. PICK a \in Ends : Group(a) = Group(e) /\ IsMaster(a)
      BY GroupHasMaster
    <3>2. PICK b \in Ends : Group(b) = Group(f) /\ IsMaster(b)
      BY GroupHasMaster
    <3>3. /\ myPort[Owner(e)][Group(e)] = myPort[Owner(a)][Group(a)]
          /\ myPort[Owner(f)][Group(f)] = myPort[Owner(b)][Group(b)]
          /\ myPort[Owner(a)][Group(a)] # NoPort
      BY <2>1, <3>1, <3>2 DEF JoinsAtTheMasters
    <3>4. ASSUME Group(e) = Group(f)
          PROVE  myPort[Owner(a)][Group(a)] = myPort[Owner(b)][Group(b)]
      BY <3>1, <3>2, <3>4, GroupFacts
    <3>5. ASSUME myPort[Owner(a)][Group(a)] = myPort[Owner(b)][Group(b)]
          PROVE  Group(e) = Group(f)
      BY <3>1, <3>2, <3>3, <3>5 DEF PortIsTheGroups
    <3> QED BY <3>3, <3>4, <3>5
  <2> QED BY <2>1, OnePortPerGroup DEF OneSetUpPerGroup, Joining
<1> QED BY <1>1, SetupStepInv, InitSetup, QueuesInOrder, PTL DEF Spec
=============================================================================
