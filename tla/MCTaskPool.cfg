\* A pool of two threads, a chain of three jobs and another caller, over each kind of pattern.
CONSTANTS
    c1 = c1
    c2 = c2
    j1 = j1
    j2 = j2
    j3 = j3
    j4 = j4
    NoJob = NoJob
    Callers = {c1, c2}
    Workers = {w1, w2}
    Jobs = {j1, j2, j3, j4}
    CallerOf <- MCCallerOf
    Dep <- MCDep
    InnerKind = "async"
    CounterModulus = 2
SPECIFICATION MCSpec
INVARIANTS TypeOK OnePlace NoWaitOnQueued QuietWhenDown RoundRobin
PROPERTIES ImplementsPattern Ends
