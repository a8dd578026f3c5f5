\* As many threads as inputs: one thread and one input.
CONSTANTS
    a = a
    b = b
    i1 = i1
    i2 = i2
    i3 = i3
    NoTask = NoTask
    Calls = {a}
    Inputs = {i1}
    Workers = {w1}
    InputsOf <- MCInputsOf
    CallOf <- MCCallOf
    Emits <- MCEmits
    KeyCount = 2
    Drains = TRUE
SPECIFICATION Spec
INVARIANT
    NoStuck
