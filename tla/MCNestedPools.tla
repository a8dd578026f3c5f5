--------------------------- MODULE MCNestedPools ---------------------------
(***************************************************************************)
(* Instances of NestedPools: a caller with a chain of jobs and another one *)
(* whose jobs wait for nothing.  The variable program says which of the    *)
(* Chains a behaviour is of.                                               *)
(***************************************************************************)
EXTENDS Integers, FiniteSets

CONSTANTS
    Chains,        \* a function from names to Chains
    NestedModulus  \* the counter's values: 2^64 in the code

\* A chain of `chained` jobs of caller "a", and `others` of caller "b".
Chain(workers, threads, chained, others) ==
    [workers |-> workers, threads |-> threads, chained |-> chained, others |-> others]

VARIABLES
    program,
    n_submitted, n_outer, n_pc, n_job, n_counter, n_target, n_streams, n_held, n_answered

nestedVars ==
    <<n_submitted, n_outer, n_pc, n_job, n_counter, n_target, n_streams, n_held, n_answered>>

JobsOf(p) == 1 .. Chains[p].chained + Chains[p].others

Nested(p) == INSTANCE NestedPools WITH
    Callers <- {"a", "b"}, Workers <- Chains[p].workers, InnerThreads <- Chains[p].threads,
    CounterModulus <- NestedModulus,
    NoJob <- 0, Jobs <- JobsOf(p),
    CallerOf <- [j \in JobsOf(p) |-> IF j <= Chains[p].chained THEN "a" ELSE "b"],
    Dep <- [j \in JobsOf(p) |-> IF j \in 2 .. Chains[p].chained THEN j - 1 ELSE 0],
    submitted <- n_submitted, outer <- n_outer, pc <- n_pc, job <- n_job,
    counter <- n_counter, target <- n_target, streams <- n_streams, held <- n_held,
    answered <- n_answered

ASSUME NestedAssumption == \A p \in DOMAIN Chains : Nested(p)!NestedAssumption

NestedInit == \E p \in DOMAIN Chains : program = p /\ Nested(p)!Init

NestedNext ==
    /\ UNCHANGED program
    /\ \E p \in DOMAIN Chains : program = p /\ Nested(p)!Next

NestedSpec == NestedInit /\ [][NestedNext]_<<program, nestedVars>>

-----------------------------------------------------------------------------
\* TaskPool.hpp over copies of itself: a chain for which there are enough copies, or which is too short to block the
\* threads of one, does not make the copies wait for each other.
NoCircle == \A p \in DOMAIN Chains : program = p => Nested(p)!NoCircle

\* The invariant it follows from.
NestedInv == \A p \in DOMAIN Chains : program = p => Nested(p)!IInv
=============================================================================
