------------------------------- MODULE Bitmap -------------------------------
(***************************************************************************)
(* The histogram algorithms: loadFile and getFileData, the decomposers of  *)
(* a bitmap and the reducers, in the combinations their types admit:       *)
(*   "map"     BitmapDecomposerRaw, ReduceHistogramMap                     *)
(*   "keyed"   the same counts as a list of pairs, ReduceHistogramKeyed    *)
(*   "vector"  BitmapDecomposerRawVector, ReduceAddVector                  *)
(*   "colour"  BitmapDecomposer, which reads files itself, ReduceHistogram *)
(*                                                                         *)
(* A MapReduce decomposes the pieces in any order and reduces the results  *)
(* in pairs, in any order (in a tree); the vectors of "vector" are         *)
(* collected, key by key, and reduced at the end.  The program around the  *)
(* pattern cuts the loaded pixels into slices of whole pixels.             *)
(***************************************************************************)
EXTENDS Integers, Sequences, FiniteSets, SequencesExt

CONSTANTS
    Files,          \* what a directory may hold: records of File
    Shades,         \* values of a byte; 256 in the code
    REPEATS_REDUCE,
    def_val         \* of ReduceAddVector

Bytes == 0 .. Shades - 1
Index == 0 .. (3 * Shades) - 1      \* blue, then green, then red

FilesAssumption ==
    /\ Shades \in Nat \ {0} /\ REPEATS_REDUCE \in Nat /\ def_val \in Nat
    /\ IsFiniteSet(Files)
    /\ \A f \in Files :
         /\ DOMAIN f = {"good", "position", "magic", "bpp", "comp", "pixels"}
         /\ f.good \in BOOLEAN /\ f.position \in Int
         /\ f.pixels \in Seq(Bytes) /\ Len(f.pixels) % 3 = 0    \* what follows the offset

VARIABLES
    variant,
    dir,            \* the directory's entries that were not looked at yet
    path,           \* all entries of the directory
    phase,          \* "load", "cut", "work" or "nothing"
    data,           \* the pixels that loadFile returned, a sequence of bytes
    pieces,         \* slices <<start, size>> of data, or files, to be decomposed
    partials        \* results to be reduced

vars == <<variant, dir, path, phase, data, pieces, partials>>

-----------------------------------------------------------------------------
(* Reading files.                                                          *)

\* The pixels, or none: a null pointer.
getFileData(f) ==
    IF f.good /\ f.position >= 0 /\ f.magic = "BM" /\ f.bpp = 24 /\ f.comp = 0 THEN {f.pixels} ELSE {}

-----------------------------------------------------------------------------
(* Decomposers.  Hits are the turns of the loop that increment cell k.     *)

\* Not the code: ends with the last byte, not the last pixel.
Hits_LastLost(bytes, start, size, k) ==
    {h \in {i \in 0 .. size - 4 : i % 3 = 0} \X (0 .. 2) :
        bytes[start + h[1] + h[2] + 1] + (Shades * h[2]) = k}

Hits(bytes, start, size, k) ==
    {h \in {i \in 0 .. size - 1 : i % 3 = 0} \X (0 .. 2) :
        bytes[start + h[1] + h[2] + 1] + (Shades * h[2]) = k}

Count(bytes, s, k) == Cardinality(Hits(bytes, s[1], s[2], k))

BitmapDecomposerRaw(s) == [k \in Index |-> Count(data, s, k)]

BitmapDecomposerRawVector(s) == [k \in Index |-> [n \in 1 .. Count(data, s, k) |-> 1]]

\* One histogram per colour; nothing for a file that is not accepted.
BitmapDecomposer(f) ==
    IF ~f.good \/ f.position < 0 \/ f.magic # "BM" \/ f.bpp # 24 \/ f.comp # 0 THEN <<>>
    ELSE [c \in 1 .. 3 |-> [b \in Bytes |->
            Count(f.pixels, <<0, Len(f.pixels)>>, b + (Shades * (c - 1)))]]

\* The map as a list of <<value, key>> in the order of the keys.
Listed(map) ==
    LET key(i) == CHOOSE k \in DOMAIN map : Cardinality({j \in DOMAIN map : j <= k}) = i
    IN  [i \in 1 .. Cardinality(DOMAIN map) |-> <<map[key(i)], key(i)>>]

-----------------------------------------------------------------------------
(* Reducers.                                                               *)

ReduceHistogram(a, b) == [i \in DOMAIN a |-> a[i] + b[i]]

ReduceHistogramKeyed(a, b) ==
    [i \in DOMAIN a |-> <<a[i][1] + (REPEATS_REDUCE * b[i][1]), a[i][2]>>]

ReduceHistogramMap(a, b) ==
    [k \in DOMAIN a \union DOMAIN b |->
        (IF k \in DOMAIN a THEN a[k] ELSE 0) + (IF k \in DOMAIN b THEN b[k] ELSE 0)]

Sum(seq) ==
    LET sum[n \in 0 .. Len(seq)] == IF n = 0 THEN 0 ELSE sum[n - 1] + seq[n]
    IN  sum[Len(seq)]

ReduceAddVector(vals) ==
    IF vals = <<>> THEN def_val ELSE vals[1] + (REPEATS_REDUCE * Sum(Tail(vals)))

Reduction(a, b) ==
    CASE variant = "map"    -> ReduceHistogramMap(a, b)
      [] variant = "keyed"  -> ReduceHistogramKeyed(a, b)
      [] variant = "vector" -> [k \in Index |-> a[k] \o b[k]]      \* ThreadSafeKeyedCollection
      [] variant = "colour" -> [c \in 1 .. 3 |-> ReduceHistogram(a[c], b[c])]

-----------------------------------------------------------------------------
Init ==
    /\ variant \in {"map", "keyed", "vector", "colour"}
    /\ path \in SUBSET Files
    /\ dir = (IF variant = "colour" THEN {} ELSE path)
    /\ phase = (IF variant = "colour" THEN "work" ELSE "load")
    /\ data = <<>>
    /\ pieces = (IF variant = "colour" THEN path ELSE {})
    /\ partials = <<>>

\* loadFile: the first entry that is accepted, in the order of the iterator.
LoadNext(f) ==
    /\ phase = "load" /\ f \in dir
    /\ dir' = dir \ {f}
    /\ IF getFileData(f) = {} THEN UNCHANGED <<phase, data>>
       ELSE phase' = "cut" /\ data' \in getFileData(f)
    /\ UNCHANGED <<variant, path, pieces, partials>>

\* The directory is empty, does not exist, or has no acceptable file.
LoadNothing ==
    /\ phase = "load" /\ dir = {}
    /\ phase' = "nothing"
    /\ UNCHANGED <<variant, dir, path, data, pieces, partials>>

\* The program cuts the pixels at a set of pixel boundaries.
Cut(bounds) ==
    LET ends == bounds \union {Len(data)}
        next(s) == CHOOSE e \in ends : e > s /\ \A d \in ends : d > s => e <= d
    IN  /\ phase = "cut"
        /\ pieces' = {<<s, next(s) - s>> : s \in (bounds \union {0}) \ {Len(data)}}
        /\ phase' = "work"
        /\ UNCHANGED <<variant, dir, path, data, partials>>

Result(piece) ==
    CASE variant = "map"    -> BitmapDecomposerRaw(piece)
      [] variant = "keyed"  -> Listed(BitmapDecomposerRaw(piece))
      [] variant = "vector" -> BitmapDecomposerRawVector(piece)
      [] variant = "colour" -> BitmapDecomposer(piece)

Decompose(piece) ==
    /\ phase = "work" /\ piece \in pieces
    /\ pieces' = pieces \ {piece}
    /\ partials' = IF Result(piece) = <<>> THEN partials ELSE Append(partials, Result(piece))
    /\ UNCHANGED <<variant, dir, path, phase, data>>

Reduce(i, j) ==
    /\ phase = "work" /\ i # j
    /\ partials' = Append(RemoveAt(RemoveAt(partials, IF i > j THEN i ELSE j), IF i > j THEN j ELSE i),
                          Reduction(partials[i], partials[j]))
    /\ UNCHANGED <<variant, dir, path, phase, data, pieces>>

Done == phase = "nothing" \/ (phase = "work" /\ pieces = {} /\ Len(partials) <= 1)

Next ==
    \/ \E f \in dir : LoadNext(f)
    \/ LoadNothing
    \/ phase = "cut" /\ \E bounds \in SUBSET {b \in 1 .. Len(data) - 1 : b % 3 = 0} : Cut(bounds)
    \/ \E piece \in pieces : Decompose(piece)
    \/ \E i, j \in DOMAIN partials : Reduce(i, j)
    \/ Done /\ UNCHANGED vars

Spec == Init /\ [][Next]_vars

-----------------------------------------------------------------------------
\* The value a result has for index k, after the last reduction.
Value(p, k) ==
    CASE variant = "map"    -> IF k \in DOMAIN p THEN p[k] ELSE 0
      [] variant = "keyed"  -> Sum([i \in DOMAIN p |-> IF p[i][2] = k THEN p[i][1] ELSE 0])
      [] variant = "vector" -> ReduceAddVector(p[k])
      [] variant = "colour" -> p[(k \div Shades) + 1][k % Shades]

\* The bytes that have to be counted, each by its address.
Addresses(bytes, k) == {a \in DOMAIN bytes : bytes[a] + (Shades * ((a - 1) % 3)) = k}

Acceptable(f) == BitmapDecomposer(f) # <<>>

\* The bytes that index k has to count in a piece.
Covers(piece, k) ==
    CASE variant # "colour"                      -> Addresses(data, k) \cap (piece[1] + 1 .. piece[1] + piece[2])
      [] variant = "colour" /\ Acceptable(piece) -> Addresses(piece.pixels, k)
      [] OTHER                                   -> {}

Left(set, k) == UNION {{piece} \X Covers(piece, k) : piece \in set}

\* Nothing is counted twice or forgotten, however the pixels are cut and in whichever
\* order the results are reduced: what the partial results and the pieces still to be
\* decomposed add up to is the number of bytes of each colour and shade.  All four
\* combinations agree in that.
Conserved ==
    phase = "work" => \A k \in Index :
        Sum([n \in DOMAIN partials |-> Value(partials[n], k)]) + Cardinality(Left(pieces, k)) =
            Cardinality(IF variant = "colour" THEN Left(path, k) ELSE Addresses(data, k))

\* The assertions of ReduceHistogramKeyed, and what ReduceHistogram relies on: any two
\* results that may be reduced have the same keys in the same order.
SameShape ==
    \A i, j \in DOMAIN partials :
        CASE variant = "keyed" -> /\ Len(partials[i]) = Len(partials[j])
                                  /\ \A n \in DOMAIN partials[i] : partials[i][n][2] = partials[j][n][2]
          [] variant = "colour" -> \A c \in 1 .. 3 : DOMAIN partials[i][c] = DOMAIN partials[j][c]
          [] OTHER -> TRUE

\* loadFile and BitmapDecomposer, which test files on their own, accept the same ones:
\* the pixels loaded are those of a file that the other decomposes, and nothing is
\* loaded only if it decomposes none.
SameFiles ==
    /\ phase = "nothing" => \A f \in path : ~Acceptable(f)
    /\ phase = "cut" => \E f \in path : Acceptable(f) /\ data = f.pixels

\* Every byte of the files accepted is counted once, in results that can be reduced.
Histograms == Conserved /\ SameShape /\ SameFiles
=============================================================================
