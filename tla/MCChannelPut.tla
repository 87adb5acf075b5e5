----------------------------- MODULE MCChannelPut -----------------------------
(* ChannelPut on short programs for TLC. *)
EXTENDS ChannelPut, TLC

CONSTANTS p1, p2, kA, kB

MCPut(k, m) == [key |-> k, mode |-> m]

(* Every producer keeps to one key; the two share kA.  p2 has an            *)
(* asynchronous put under way when it makes its put_nowait, which may be    *)
(* refused.                                                                 *)
OneKey ==
    (p1 :> <<MCPut(kA, "async"), MCPut(kA, "async"), MCPut(kA, "sync"), MCPut(kA, "async")>>)
    @@ (p2 :> <<MCPut(kA, "async"), MCPut(kA, "nowait"), MCPut(kA, "sync")>>)
=============================================================================
