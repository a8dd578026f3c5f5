\* The constants of the first program; three others are in MCPipeline.
CONSTANTS
    c1 = c1
    c2 = c2
    j1 = j1
    j2 = j2
    j3 = j3
    NoJob = NoJob
    Callers = {c1, c2}
    Jobs = {j1, j2, j3}
    CallerOf <- TwoCallers
    Dep <- Chain
    Kind <- Leaves
    Drains = FALSE
SPECIFICATION MCSpec
INVARIANTS OnePlace NoCycleOfOneCaller
PROPERTIES Implements Ends
\* Without draining, or with two callers that chain, the stages may block for ever.
CHECK_DEADLOCK FALSE
