----------------------------- MODULE MCChannelGet -----------------------------
(* ChannelGet on short programs for TLC. *)
EXTENDS ChannelGet, TLC

CONSTANTS c1, c2, kA, kB, i1, i2, i3, i4

Ask(k, m) == [key |-> k, mode |-> m]

KeysOfItems == (i1 :> kA) @@ (i2 :> kA) @@ (i3 :> kB) @@ (i4 :> kB)

(* One consumer's gets overlap, the other's return one after another; they  *)
(* share both keys.                                                         *)
AsyncAndSync ==
    (c1 :> <<Ask(kA, "async"), Ask(kB, "async")>>)
    @@ (c2 :> <<Ask(kB, "nowait"), Ask(kA, "sync")>>)
=============================================================================
