SPECIFICATION Spec
CONSTANTS
    ThreadCounts = {1, 2}
    MaxCreates = 4
INVARIANTS Lifetimes Copies
