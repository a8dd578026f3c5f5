----------------------------- MODULE MCNesting -----------------------------
(***************************************************************************)
(* Instances for TLC of the modules in which patterns are nested: Demo,    *)
(* and NestedPools with three programs.  The variable program says which   *)
(* one a behaviour is of; the variables of the other module stay as they   *)
(* are at first.                                                           *)
(***************************************************************************)
EXTENDS Demo, MCNestedPools

CONSTANTS w1, w2, w3, t1, t2

\* Vectors that differ; main's are all alike: (((i + 100) * 13) + 53) % 83.
Element(i) == (((i + 100) * 13) + 53) % 83
MCInputs == <<<<Element(4), Element(5)>>, <<Element(0), Element(6)>>>>
MCWorkers == <<"worker1", "worker2">>

\* Three chains on few copies of few threads.
MCChains == [long  |-> Chain({w1, w2}, {t1}, 3, 1),
             short |-> Chain({w1, w2, w3}, {t1}, 3, 0),
             wide  |-> Chain({w1, w2}, {t1, t2}, 2, 1)]

MCInit ==
    /\ Init
    /\ \/ program = "main" /\ Nested("short")!Init
       \/ NestedInit

MCNext ==
    \/ program = "main" /\ Next /\ UNCHANGED <<program, nestedVars>>
    \/ NestedNext /\ UNCHANGED vars

\* Nested(p)!Fairness
NestedFairness ==
    /\ \A w \in {w1, w2, w3} : WF_nestedVars(
            \E p \in DOMAIN Chains : /\ program = p /\ w \in Chains[p].workers
                                     /\ Nested(p)!Pick(w) \/ Nested(p)!Push(w))
    /\ WF_nestedVars(\E p \in DOMAIN Chains : program = p /\ \E w \in Chains[p].workers : Nested(p)!Pop(w))
    /\ \A k \in 0 .. 2, t \in {t1, t2} : WF_nestedVars(
            \E p \in DOMAIN Chains : /\ program = p /\ k \in Nested(p)!E!Copies /\ t \in Chains[p].threads
                                     /\ Nested(p)!InnerPop(k, t) \/ Nested(p)!Execute(k, t))

\* Fairness of Demo.
MainFairness ==
    /\ WF_vars(program = "main" /\ Main) /\ WF_vars(program = "main" /\ PushPool)
    /\ WF_vars(program = "main" /\ (PushFirst \/ PushSecond))
    /\ \A t \in Threads : WF_vars(program = "main" /\ Thread(t)) /\ SF_vars(program = "main" /\ Pop(t))

MCSpec == MCInit /\ [][MCNext]_<<program, vars, nestedVars>> /\ MainFairness /\ NestedFairness

-----------------------------------------------------------------------------
\* Every job is answered, unless the copies wait for each other.
Answers ==
    \A j \in 1 .. 4 :
        j \in n_submitted ~> j \in n_answered \/ \E p \in DOMAIN Chains : program = p /\ Nested(p)!Blocked

\* main gets the right outputs, disposes when nothing is left, and returns.
MainReturns == program = "main" => Returns
=============================================================================
