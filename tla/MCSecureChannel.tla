---------------------------- MODULE MCSecureChannel ---------------------------
(***************************************************************************)
(* SecureChannel for TLC: callers, sessions and exchanges as model values, *)
(* each kind interchangeable.                                              *)
(***************************************************************************)
EXTENDS SecureChannel, TLC

Interchangeable ==
    Permutations(Callers) \cup Permutations(Sessions) \cup Permutations(Exchanges)

=============================================================================
