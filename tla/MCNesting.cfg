CONSTANTS
    inputs <- MCInputs
    Workers <- MCWorkers
    Chains <- MCChains
    NestedModulus = 8
    w1 = w1
    w2 = w2
    w3 = w3
    t1 = t1
    t2 = t2
SPECIFICATION MCSpec
INVARIANTS NoCircle
PROPERTIES MainReturns ImplementsAll Answers
\* The long chain in nested pools may block for ever.
CHECK_DEADLOCK FALSE
