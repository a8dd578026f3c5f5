CONSTANTS
    Elements <- SmallElements
    MaxLength = 4
    Files <- SomeFiles
    Shades = 2
    REPEATS_REDUCE = 1
    def_val = 0
    Names = {"a", "b"}
    Sizes = {1, 2}
    Timings = {3, 4, 5}
    Vectors <- SmallVectors
    MaxCalls = 4
SPECIFICATION AlgorithmsSpec
INVARIANTS Partitions Histograms Aligned
PROPERTIES Sorts
