CONSTANTS
    Threads = {t1, t2, t3}
    initialBlockPoolSize = 1
    MaxBlocks = 2
    Should = 8
    MaxCalls = 3
    Null = Null
    HashOf <- MCHashOf
    INITIAL_IMPLICIT_PRODUCER_HASH_SIZE = 2
    Consumers = {c1, c2}
    MaxScored = 2
    MaxProducers = 3
    MaxPushes <- MCMaxPushes
    MaxOvercommits = 2
    Keys = {0, 1}
    MaxAdds = 3
    MaxRenewals = 2
SPECIFICATION MCSpec
SYMMETRY Symmetry
INVARIANTS OneProducer MissesOnlyBusy Kept
PROPERTIES KeepsBlocks
