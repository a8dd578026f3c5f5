----------------------------- MODULE MCTaskPool -----------------------------
(***************************************************************************)
(* Instances of TaskPool for TLC: one for each kind of inner pattern.  The *)
(* variable kind says which one a behaviour is of; InnerKind is only what  *)
(* the properties see, and "async" has the most copies.                    *)
(***************************************************************************)
EXTENDS TaskPool

CONSTANTS c1, c2, j1, j2, j3, j4

\* c1 chains j1 -> j2 -> j3, c2 submits j4.
MCCallerOf == [j \in Jobs |-> IF j = j4 THEN c2 ELSE c1]

MCDep == [j \in Jobs |-> CASE j = j2 -> j1
                           [] j = j3 -> j2
                           [] OTHER -> NoJob]

VARIABLE kind

Pool(k) == INSTANCE TaskPool WITH InnerKind <- k

MCInit == kind \in Kinds /\ Init

MCNext == kind' = kind /\ \E k \in Kinds : kind = k /\ Pool(k)!Next

\* FairSpec of the instance.
MCSpec ==
    /\ MCInit /\ [][MCNext]_<<kind, vars>>
    /\ \A w \in Workers :
        /\ WF_vars(\E k \in Kinds : kind = k /\ Pool(k)!Worker(w))
        /\ WF_vars(Spawn(w))
    /\ WF_vars(InitEnd) /\ WF_vars(DisposeEnd)
    /\ \A j \in Jobs : WF_vars(Supply(j)) /\ WF_vars(InnerAnswer(j))
    /\ SF_vars(\E w \in Workers : Pop(w))

\* Executor.hpp: loads within one of each other, over the copies of the kind.
RoundRobin == \A k \in Kinds : kind = k => Pool(k)!Balanced

\* While the pool is up it answers every job whose input is there, and its Dispose returns.
Ends == AnswersAll /\ DisposeEnds
=============================================================================
