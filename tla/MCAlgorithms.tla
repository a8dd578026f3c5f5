---------------------------- MODULE MCAlgorithms ----------------------------
(***************************************************************************)
(* Instances for TLC of the sequential code: Quicksort, Bitmap and         *)
(* ExtrapWriter.  A behaviour is of the one that the variable scenario     *)
(* names; the two others stay in an initial state.                         *)
(***************************************************************************)
EXTENDS Integers, Sequences

CONSTANTS
    Elements, MaxLength,                        \* of Quicksort
    Files, Shades, REPEATS_REDUCE, def_val,     \* of Bitmap
    Names, Sizes, Timings, Vectors, MaxCalls    \* of ExtrapWriter

VARIABLES
    scenario,
    ptr, length, todo, step, low, high, pivot, left, right,
    variant, dir, path, phase, pixels, pieces, partials,
    data_points, thread_sizes, array_sizes, names, log

sortingVars == <<ptr, length, todo, step, low, high, pivot, left, right>>
reducingVars == <<variant, dir, path, phase, pixels, pieces, partials>>
writingVars == <<data_points, thread_sizes, array_sizes, names, log>>

Sorting == INSTANCE Quicksort WITH pc <- step, i <- left, j <- right

Reducing == INSTANCE Bitmap WITH data <- pixels

Writing == INSTANCE ExtrapWriter

ASSUME InstancesAssumption ==
    Sorting!ElementsAssumption /\ Reducing!FilesAssumption /\ Writing!WriterAssumption

\* Three keys, two values beside each.
SmallElements == [key : 0 .. 2, value : 0 .. 1]

File(bytes) ==
    [good |-> TRUE, position |-> 54 + Len(bytes), magic |-> "BM", bpp |-> 24, comp |-> 0, pixels |-> bytes]

\* Two bitmaps, of three pixels and of one, and a file for every reason to refuse one.
SomeFiles ==
    LET a == File(<<0, 1, 1, 1, 1, 0, 0, 1, 1>>)
        b == File(<<1, 1, 0>>)
    IN  {a, b, [a EXCEPT !.good = FALSE], [b EXCEPT !.position = -1], [a EXCEPT !.magic = "PK"],
         [b EXCEPT !.bpp = 8], [a EXCEPT !.comp = 1]}

\* Two names, two sizes, which are thread counts and array sizes alike.
SmallVectors == {<<>>, <<3>>, <<4, 5>>}

AlgorithmsInit ==
    /\ scenario \in {"sort", "reduce", "write"}
    /\ scenario # "sort" => length = 0
    /\ Sorting!Init
    /\ scenario # "reduce" => variant = "map" /\ path = {}
    /\ Reducing!Init
    /\ Writing!Init

AlgorithmsNext ==
    /\ UNCHANGED scenario
    /\ \/ scenario = "sort" /\ Sorting!Next /\ UNCHANGED <<reducingVars, writingVars>>
       \/ scenario = "reduce" /\ Reducing!Next /\ UNCHANGED <<sortingVars, writingVars>>
       \/ scenario = "write" /\ Writing!Next /\ UNCHANGED <<sortingVars, reducingVars>>

AlgorithmsSpec == AlgorithmsInit /\ [][AlgorithmsNext]_<<scenario, sortingVars, reducingVars, writingVars>>

-----------------------------------------------------------------------------
\* The scans stay in their range, and a partition splits it into two smaller ones.
Partitions == Sorting!Partitions

\* In the end the array is sorted, and no step loses an element.
Sorts == Sorting!Sorts

\* However the pixels are cut and the results reduced, every byte is counted once.
Histograms == Reducing!Histograms

\* The lines of a file are those of the sizes they are paired with.
Aligned == Writing!Aligned
=============================================================================
