--------------------------- MODULE ExclusiveDevices ---------------------------
(***************************************************************************)
(* What the device lock promises, without the manager, its event loop or   *)
(* its per-accelerator locks: a worker's accelerators are one resource     *)
(* that is granted at once, conflicting workers take turns, and they do so *)
(* in the order in which they asked.                                       *)
(***************************************************************************)
EXTENDS Sequences, Integers

CONSTANTS
    Workers,
    DevicesOf(_)    \* the accelerators of a worker

VARIABLES
    using,          \* the workers inside their `with device_lock` block
    queue           \* every worker that asked and has not left, in asking order

vars == <<using, queue>>

Init == using = {} /\ queue = <<>>

Queued == {queue[i] : i \in DOMAIN queue}

Conflict(v, w) == DevicesOf(v) \cap DevicesOf(w) # {}

Ask(w) ==
    /\ w \notin Queued
    /\ queue' = Append(queue, w)
    /\ UNCHANGED using

(* w gets its turn when no worker ahead of it shares an accelerator. *)
Grant(w) ==
    /\ \E i \in DOMAIN queue :
        /\ queue[i] = w
        /\ \A j \in 1..(i - 1) : ~Conflict(queue[j], w)
    /\ w \notin using
    /\ using' = using \cup {w}
    /\ UNCHANGED queue

Leave(w) ==
    /\ w \in using
    /\ using' = using \ {w}
    /\ \E i \in DOMAIN queue :
        /\ queue[i] = w
        /\ queue' = SubSeq(queue, 1, i - 1) \o SubSeq(queue, i + 1, Len(queue))

Next == \E w \in Workers : Ask(w) \/ Grant(w) \/ Leave(w)

Spec == Init /\ [][Next]_vars

FairSpec ==
    /\ Spec
    /\ \A w \in Workers : WF_vars(Grant(w)) /\ WF_vars(Leave(w))
=============================================================================
