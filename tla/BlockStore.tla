----------------------------- MODULE BlockStore -----------------------------
(***************************************************************************)
(* What the block pool of moodycamel::ConcurrentQueue promises to the      *)
(* producers: requisition_block gives a block that nobody uses, if it      *)
(* gives one at all; add_block_to_free_list takes back a block its caller  *)
(* uses.  It may give none although blocks are free, as two calls that     *)
(* meet in the free list may hide a block from each other.                 *)
(***************************************************************************)
CONSTANTS Blocks, Users

VARIABLE uses       \* uses[u] is the set of blocks user u has

Init == uses = [u \in Users |-> {}]

Requisition(u, b) ==
    /\ \A v \in Users : b \notin uses[v]
    /\ uses' = [uses EXCEPT ![u] = @ \union {b}]

Return(u, b) ==
    /\ b \in uses[u]
    /\ uses' = [uses EXCEPT ![u] = @ \ {b}]

Next == \E u \in Users, b \in Blocks : Requisition(u, b) \/ Return(u, b)

Spec == Init /\ [][Next]_uses
=============================================================================
