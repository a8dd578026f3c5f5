----------------------------- MODULE MCPipeline -----------------------------
(***************************************************************************)
(* Instances of Pipeline for TLC.  The variable program says which one a   *)
(* behaviour is of: who calls, what depends on what, what the stages hold  *)
(* and whether the program drains.                                         *)
(***************************************************************************)
EXTENDS Pipeline

CONSTANTS c1, c2, j1, j2, j3

OneCaller  == [j \in Jobs |-> c1]
TwoCallers == [OneCaller EXCEPT ![j3] = c2]
NoChain    == [j \in Jobs |-> NoJob]
Chain      == [NoChain EXCEPT ![j2] = j1]
Leaves     == <<"leaf", "leaf">>
Nested     == <<"async", "leaf">>   \* the demo's outer pipeline

Program(callerOf, dep, kind, drains) ==
    [callerOf |-> callerOf, dep |-> dep, kind |-> kind, drains |-> drains]

Programs ==
    {Program(TwoCallers, Chain, Leaves, FALSE), Program(OneCaller, Chain, Leaves, FALSE),
     Program(OneCaller, Chain, Leaves, TRUE), Program(TwoCallers, NoChain, Nested, TRUE)}

VARIABLE program

P(p) == INSTANCE Pipeline WITH
            CallerOf <- p.callerOf, Dep <- p.dep, Kind <- p.kind, Drains <- p.drains

MCInit == program \in Programs /\ Init

MCNext == program' = program /\ \E p \in Programs : program = p /\ P(p)!Next

\* FairSpec of the instance.
MCSpec ==
    /\ MCInit /\ [][MCNext]_<<program, vars>>
    /\ \A s \in Stages :
        /\ WF_vars(\E p \in Programs : program = p /\ P(p)!Stage(s))
        /\ WF_vars(Spawn(s)) /\ SF_vars(Pop(s))
        /\ WF_vars(\E p \in Programs : program = p /\ \E j \in Jobs : P(p)!InnerAnswer(s, j))
    /\ \A c \in Callers : WF_vars(PushSecond(c))
    /\ WF_vars(InitEnd) /\ WF_vars(DisposeEnd)
    /\ \A j \in Jobs : WF_vars(\E p \in Programs : program = p /\ P(p)!Supply(j))

-----------------------------------------------------------------------------
\* The stages block each other only with the jobs of different callers.
NoCycleOfOneCaller == \A p \in Programs : program = p => P(p)!NoSelfCycle

\* Pipeline's mapping to Pattern, with the program's chains.
Contract == INSTANCE Pattern WITH
    accepted <- submitted,
    ready <- {j \in Jobs : IF program.dep[j] = NoJob THEN j \in supplied ELSE program.dep[j] \in done[2]},
    answered <- done[2], broken <- Broken(2), gone <- owner = "gone"

\* Every pipeline keeps the contract of a pattern.
Implements == Contract!SafeSpec

\* A program that drains gets every answer, and Dispose returns.  Two callers whose chains
\* are served in two orders may block each other for ever; with one caller that does not
\* drain, Dispose may hang, for the one reason known.
Ends ==
    /\ program.drains => Contract!Responsive
    /\ \A p \in Programs :
        /\ program = p /\ p.drains => P(p)!DisposeEnds
        /\ program = p /\ p.callerOf = OneCaller => P(p)!DisposeEndsOrStrands
=============================================================================
