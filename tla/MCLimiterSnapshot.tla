--------------------------- MODULE MCLimiterSnapshot ---------------------------
(* Two WireGuard inbounds, one address each may map, one failure.           *)
EXTENDS LimiterSnapshot, TLC

CONSTANTS wg0, wg1, a

MCTags == {wg0, wg1}
MCAddrs == {a}

Symmetry == Permutations(MCTags)

================================================================================
