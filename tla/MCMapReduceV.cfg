\* The constants of the program that does not drain; the other is in MCMapReduceV.
CONSTANTS
    c1 = c1
    c2 = c2
    i1 = i1
    i2 = i2
    i3 = i3
    i4 = i4
    i5 = i5
    w1 = w1
    w2 = w2
    NoTask = NoTask
    Calls = {c1, c2}
    Inputs = {i1, i2, i3, i4, i5}
    Workers = {w1, w2}
    InputsOf <- ThreeInputs
    Drains = FALSE
SPECIFICATION MCSpec
INVARIANTS TreeHolds
PROPERTIES Implements DisposeEnds
