---------------------------- MODULE ExtrapWriter ----------------------------
(***************************************************************************)
(* helper/extrap_writer.h: timings are added in any order, and flush       *)
(* writes a file per name for the modelling tool: the sizes measured, and  *)
(* for each number of threads a region with a line of timings per size.    *)
(* A file is a record of what its lines say; the file system is not        *)
(* modelled.                                                               *)
(***************************************************************************)
EXTENDS Integers, Sequences, FiniteSets, SequencesExt

CONSTANTS
    Names,
    Sizes,          \* thread counts and array sizes
    Timings,
    Vectors,        \* sequences of timings added by a call
    MaxCalls        \* bound on the calls between two calls of clear

WriterAssumption == Sizes \subseteq Nat /\ Vectors \subseteq Seq(Timings) /\ MaxCalls \in Nat

VARIABLES
    data_points,    \* name -> thread count -> array size -> vector
    thread_sizes, array_sizes, names,
    log             \* what was added since the last clear, in order: <<name, threads, size, points>>

vars == <<data_points, thread_sizes, array_sizes, names, log>>

Empty == [x \in {} |-> <<>>]

Init ==
    /\ data_points = Empty
    /\ thread_sizes = {} /\ array_sizes = {} /\ names = {}
    /\ log = <<>>

\* map[key], and map[key] = value, which makes an entry that is not there.
At(map, key, new) == IF key \in DOMAIN map THEN map[key] ELSE new
Put(map, key, value) == [k \in DOMAIN map \union {key} |-> IF k = key THEN value ELSE map[k]]

\* Not the code: a new vector for every call.
Emplaced_Replaces(str, t, a, points) ==
    LET regions == At(data_points, str, Empty)
        region == At(regions, t, Empty)
    IN  Put(data_points, str, Put(regions, t, Put(region, a, points)))

Emplaced(str, t, a, points) ==
    LET regions == At(data_points, str, Empty)
        region == At(regions, t, Empty)
    IN  Put(data_points, str, Put(regions, t, Put(region, a, At(region, a, <<>>) \o points)))

\* add_data_points; add_data_point is the call with one point.
add_data_points(str, t, a, points) ==
    /\ Len(log) < MaxCalls
    /\ thread_sizes' = thread_sizes \union {t}
    /\ array_sizes' = array_sizes \union {a}
    /\ names' = names \union {str}
    /\ data_points' = IF points = <<>> THEN data_points ELSE Emplaced(str, t, a, points)
    /\ log' = Append(log, <<str, t, a, points>>)

clear ==
    /\ data_points' = Empty
    /\ thread_sizes' = {} /\ array_sizes' = {} /\ names' = {}
    /\ log' = <<>>

\* A set of sizes in the order in which a std::set or std::map goes through it.
Ascending(S) ==
    CHOOSE s \in [1 .. Cardinality(S) -> S] :
        \A i, j \in 1 .. Cardinality(S) : i < j => s[i] < s[j]

\* The file that flush writes for a name.
Written(str) ==
    LET regions == At(data_points, str, Empty)
        ts == Ascending(DOMAIN regions)
        lines(t) == LET as == Ascending(DOMAIN regions[t]) IN [j \in DOMAIN as |-> regions[t][as[j]]]
    IN  [points |-> Ascending(array_sizes),
         regions |-> [i \in DOMAIN ts |-> [name |-> ts[i], lines |-> lines(ts[i])]]]

\* Besides the files, only the entries that operator[] makes.
flush ==
    /\ data_points' = [n \in DOMAIN data_points \union names |-> At(data_points, n, Empty)]
    /\ UNCHANGED <<thread_sizes, array_sizes, names, log>>

Next ==
    \/ \E str \in Names, t, a \in Sizes, points \in Vectors : add_data_points(str, t, a, points)
    \/ clear
    \/ flush

Spec == Init /\ [][Next]_vars

-----------------------------------------------------------------------------
\* What was measured for a name, thread count and size, in the order of the calls.
Measured(str, t, a) ==
    FlattenSeq([i \in DOMAIN log |-> IF log[i][1] = str /\ log[i][2] = t /\ log[i][3] = a
                                     THEN log[i][4] ELSE <<>>])

\* The sets and the maps tell of the calls since the last clear, and of no others.
TypeOK ==
    /\ thread_sizes = {log[i][2] : i \in DOMAIN log}
    /\ array_sizes = {log[i][3] : i \in DOMAIN log}
    /\ names = {log[i][1] : i \in DOMAIN log}
    /\ DOMAIN data_points \subseteq names

\* The modelling tool pairs the i-th line of a region with the i-th point of the file,
\* and the sizes in the file are those of all names.  If a name was measured with every
\* size for each of its thread counts, each line holds all timings of its size and no
\* others, in the order of the calls, however the calls were mixed.
Aligned ==
    /\ TypeOK
    /\ \A str \in names :
           LET file == Written(str)
               ts == {t \in Sizes : \E a \in Sizes : Measured(str, t, a) # <<>>}
           IN  (\A t \in ts, a \in array_sizes : Measured(str, t, a) # <<>>) =>
               /\ {file.regions[i].name : i \in DOMAIN file.regions} = ts
               /\ \A i \in DOMAIN file.regions :
                    file.regions[i].lines =
                        [j \in DOMAIN file.points |-> Measured(str, file.regions[i].name, file.points[j])]
=============================================================================
