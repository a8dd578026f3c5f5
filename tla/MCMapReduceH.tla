---------------------------- MODULE MCMapReduceH ----------------------------
(* Instances of MapReduceH for TLC. *)
EXTENDS MapReduceH, TLC

CONSTANTS a, b, i1, i2, i3

\* Call a has the inputs i1 and i2 (if the instance has it), call b has i3.
MCInputsOf ==
    [c \in Calls |-> IF c = b THEN <<i3>> ELSE IF i2 \in Inputs THEN <<i1, i2>> ELSE <<i1>>]

MCCallOf == [i \in Inputs |-> IF i = i3 THEN b ELSE a]

\* i1 and i3 emit both keys, i2 one.
MCEmits == [i \in Inputs |-> IF i = i2 THEN {0} ELSE {0, 1}]

MCSymmetry == Permutations(Workers)

=============================================================================
