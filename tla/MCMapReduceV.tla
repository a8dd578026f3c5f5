---------------------------- MODULE MCMapReduceV ----------------------------
(***************************************************************************)
(* Instances of MapReduceV for TLC: a program that disposes at any time,   *)
(* with a tree of three inputs and two threads, and one that drains, with  *)
(* a tree of four inputs and a single thread.  The variable program says   *)
(* which one a behaviour is of.                                            *)
(***************************************************************************)
EXTENDS MapReduceV

CONSTANTS c1, c2, i1, i2, i3, i4, i5, w1, w2

\* c1 has the tree, c2 a single input.
CallInputs(seq) == [c \in Calls |-> IF c = c1 THEN seq ELSE <<i5>>]

ThreeInputs == CallInputs(<<i1, i2, i3>>)
FourInputs  == CallInputs(<<i1, i2, i3, i4>>)

Program(inputsOf, workers, drains) ==
    [inputsOf |-> inputsOf, workers |-> workers, drains |-> drains]

Programs == {Program(ThreeInputs, {w1, w2}, FALSE), Program(FourInputs, {w1}, TRUE)}

VARIABLE program

P(p) == INSTANCE MapReduceV WITH
            InputsOf <- p.inputsOf, Workers <- p.workers, Drains <- p.drains

MCInit == \E p \in Programs : program = p /\ P(p)!Init

MCNext == program' = program /\ \E p \in Programs : program = p /\ P(p)!Next

\* FairSpec of the instance.
MCSpec ==
    /\ MCInit /\ [][MCNext]_<<program, vars>>
    /\ \A w \in Workers :
        /\ WF_vars(w \in program.workers /\ Worker(w))
        /\ WF_vars(w \in program.workers /\ Spawn(w))
    /\ SF_vars(\E w \in program.workers : PopMap(w))
    /\ SF_vars(\E w \in program.workers : PopReduce(w))
    /\ \A c \in Calls : WF_vars(\E p \in Programs : program = p /\ P(p)!InCall(c))
    /\ \A x \in Calls \union Inputs : WF_vars(Supply(x))
    /\ WF_vars(\E p \in Programs : program = p /\ P(p)!InitEnd)
    /\ WF_vars(\E p \in Programs : program = p /\ P(p)!DisposeEnd)

-----------------------------------------------------------------------------
\* Every future that the tree of a call reads has its value or one task that will set it,
\* and the result has each input of the call once.
TreeHolds == \A p \in Programs : program = p => P(p)!OutputsComing /\ P(p)!Complete

\* MapReduceV's mapping to Pattern, with the program's inputs.
Contract == INSTANCE Pattern WITH
    Jobs <- Calls,
    accepted <- {c \in Calls : at[c] # "idle"},
    ready <- {c \in Calls : {c} \union InRange(program.inputsOf[c]) \subseteq supplied},
    answered <- {c \in Calls : at[c] = "done"},
    broken <- {}, gone <- owner = "gone"

\* The pattern keeps its contract, if the program drains, and while it stays up it answers
\* every call whose inputs are there.
Implements ==
    /\ Contract!Init
    /\ [][program.drains => Contract!Next]_Contract!vars
    /\ Contract!Responsive
=============================================================================
