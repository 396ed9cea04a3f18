--------------------------- MODULE MCInboundFence ---------------------------
(***************************************************************************)
(* InboundFence for TLC: one or two tags, two or three mutation ids, the   *)
(* constants that are functions, and the symmetry of the ids.              *)
(***************************************************************************)
EXTENDS InboundFenceProps, TLC

CONSTANTS m1, m2, b1, b2, b3

(* Each mutation carries a definition of its own.                           *)
DistinctPayload == (NoId :> b3) @@ (m1 :> b1) @@ (m2 :> b2)

(* Two mutations carry the same definition: the digest cannot tell them     *)
(* apart.                                                                   *)
SamePayload == (NoId :> b1) @@ (m1 :> b1) @@ (m2 :> b1)

=============================================================================
