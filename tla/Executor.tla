------------------------------ MODULE Executor ------------------------------
(***************************************************************************)
(* interfaces/Executor.hpp: the holder of one or several copies of a       *)
(* pattern, and the round robin that picks the copy a job goes to.         *)
(*                                                                         *)
(* Count is the constructor's `count`, IsBlocking what the pattern's       *)
(* IsBlocking() answers (TRUE for AlgorithmWrapper only), CounterModulus   *)
(* the number of values of the atomic round_robin_counter (2^64 in the     *)
(* code; its fetch_add wraps).                                             *)
(***************************************************************************)
EXTENDS Integers

CONSTANTS Count, IsBlocking, CounterModulus

\* One copy serves every job, and the counter is never touched.
HoldsSingle == Count = 1 \/ IsBlocking

\* The indices of `patterns`.
Copies == IF HoldsSingle THEN {0} ELSE 0 .. Count - 1

\* The index of `patterns` a Compute goes to, from the value fetch_add returned.
ModIndex(counter) == IF HoldsSingle THEN 0 ELSE counter % Count

\* What one Compute leaves in round_robin_counter.
NextCounter(counter) ==
    IF HoldsSingle THEN counter ELSE (counter + 1) % CounterModulus

=============================================================================
