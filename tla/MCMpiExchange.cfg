CONSTANTS
    mpi_nodes = 4
    Kind <- MCKind
    pre_size = 3
    Distributer <- Evens
    Emits <- Uneven
    SizeOf = 4
    INT_MAX = 31
SPECIFICATION Spec
INVARIANTS Matched Complete NoCircle
