\* Two calls, two threads, Dispose at any time: the threads may really block.
CONSTANTS
    a = a
    b = b
    i1 = i1
    i2 = i2
    i3 = i3
    NoTask = NoTask
    Calls = {a, b}
    Inputs = {i1, i2, i3}
    Workers = {w1, w2}
    InputsOf <- MCInputsOf
    CallOf <- MCCallOf
    Emits <- MCEmits
    KeyCount = 2
    Drains = FALSE
SPECIFICATION Spec
SYMMETRY MCSymmetry
INVARIANTS
    CollectionAlive
    Complete
    MapIsThere
CHECK_DEADLOCK FALSE
