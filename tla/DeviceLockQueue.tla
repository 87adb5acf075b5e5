---------------------------- MODULE DeviceLockQueue ----------------------------
(***************************************************************************)
(* DeviceLock with a history variable, the order in which workers asked,   *)
(* and the statement that it implements ExclusiveDevices.  The history is  *)
(* written by every step and read by none.                                 *)
(***************************************************************************)
EXTENDS DeviceLock

VARIABLE asked      \* the workers that called acquire and have not begun release

hvars == <<vars, asked>>

Without(s, w) == RemoveAtIndex(s, CHOOSE i \in DOMAIN s : s[i] = w)

HInit == Init /\ asked = <<>>

HNext ==
    \/ RunReady /\ UNCHANGED asked
    \/ \E w \in Workers :
        \/ Enter(w) /\ asked' = Append(asked, w)
        \/ Leave(w) /\ asked' = Without(asked, w)
        \/ (EnterReturns(w) \/ LeaveReturns(w)) /\ UNCHANGED asked

HSpec == HInit /\ [][HNext]_hvars
HFairSpec ==
    /\ HSpec
    /\ WF_hvars(RunReady /\ UNCHANGED asked)
    /\ \A w \in Workers :
        /\ WF_hvars(EnterReturns(w) /\ UNCHANGED asked)
        /\ WF_hvars(Leave(w) /\ asked' = Without(asked, w))
        /\ WF_hvars(LeaveReturns(w) /\ UNCHANGED asked)

Abstract == INSTANCE ExclusiveDevices WITH
    using <- {w \in Workers : InBlock(w)},
    queue <- asked

(* Seen from the workers, the manager grants all accelerators of a worker   *)
(* at once and serves conflicting workers in the order in which they asked: *)
(* nobody overtakes, nobody starves.  (Blocks are not nested.)              *)
GrantsInOrder == Abstract!FairSpec
=============================================================================
