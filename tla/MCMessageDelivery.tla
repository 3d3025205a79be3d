------------------------- MODULE MCMessageDelivery -------------------------
(***************************************************************************)
(* Two instances of three calls.  Crew: two calls of one process that      *)
(* share a command (and its body), and one of another process.  Pair: one  *)
(* call in each of two processes and a third with another peer.            *)
(***************************************************************************)
EXTENDS MessageDelivery, TLC

CONSTANTS c1, c2, c3, p1, p2

MCCallers == {c1, c2, c3}
MCProcesses == {p1, p2}
MCPeers == {"peer", "other"}

CrewProcessOf == (c1 :> p1) @@ (c2 :> p1) @@ (c3 :> p2)
CrewPeerOf == [c \in MCCallers |-> "peer"]
CrewHandleOf == (c1 :> "h1") @@ (c2 :> "h1") @@ (c3 :> "h3")

PairProcessOf == (c1 :> p1) @@ (c2 :> p2) @@ (c3 :> p2)
PairPeerOf == (c1 :> "peer") @@ (c2 :> "peer") @@ (c3 :> "other")
PairHandleOf == (c1 :> "h1") @@ (c2 :> "h2") @@ (c3 :> "h3")
=============================================================================
