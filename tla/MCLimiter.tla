------------------------------ MODULE MCLimiter -------------------------------
(***************************************************************************)
(* Limiter for TLC: a customer, three policies or none for each email, and *)
(* interchangeable connections.                                            *)
(***************************************************************************)
EXTENDS Limiter, TLC

CONSTANT g

OneCustomer == [u \in Users |-> g]

Open == [connLimit |-> 0, rate |-> "unlimited", denied |-> FALSE]
Full == [connLimit |-> 1, rate |-> "static", denied |-> FALSE]
Refused == [connLimit |-> 0, rate |-> "unlimited", denied |-> TRUE]

MCPolicies == {Open, Full, Refused}

MCDeliveries == [Users -> MCPolicies \cup {Absent}]

Interchangeable == Permutations(Conns)

=============================================================================
