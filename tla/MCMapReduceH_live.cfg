\* More threads than inputs: no deadlock, liveness, and the contract of a pattern.
CONSTANTS
    a = a
    b = b
    i1 = i1
    i2 = i2
    i3 = i3
    NoTask = NoTask
    Calls = {a}
    Inputs = {i1, i2}
    Workers = {w1, w2, w3}
    InputsOf <- MCInputsOf
    CallOf <- MCCallOf
    Emits <- MCEmits
    KeyCount = 2
    Drains = TRUE
SPECIFICATION FairSpec
PROPERTIES
    ImplementsPattern
    DisposeEnds
