CONSTANTS
    Consumers = {c1, c2}
    BLOCK_SIZE = 2
    IMPLICIT_INITIAL_INDEX_SIZE = 2
    Blocks = {b1, b2, b3}
    MaxElements = 7
    EXPLICIT_INITIAL_INDEX_SIZE = 2
    MaxInRing = 9
    MaxCount = 6
    Null = Null
SPECIFICATION MCSpec
SYMMETRY Symmetry
INVARIANTS CountsRight Finds FindsInRing
PROPERTIES ImplementsStream
