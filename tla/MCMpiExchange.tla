---------------------------- MODULE MCMpiExchange ----------------------------
(***************************************************************************)
(* An instance of MpiExchange for TLC: calls of the three patterns, one    *)
(* after the other.                                                        *)
(***************************************************************************)
EXTENDS MpiExchange

MCKind == <<"GlobalH", "LocalV", "GlobalH", "LocalH">>

\* Key k goes to node k % 2: the others reduce nothing.
Evens == [k \in Keys |-> k % 2]

\* Vectors of length zero, one and two, different on each node.
Uneven == [n \in Nodes |-> [k \in Keys |-> (n + k) % 3]]
=============================================================================
