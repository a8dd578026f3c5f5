------------------------------ MODULE Quicksort ------------------------------
(***************************************************************************)
(* helper/quicksort.hpp: Hoare's partition and the recursion over it, as   *)
(* QuickSorter and QuickSorterKeyed call them.  An element has a key, by   *)
(* which it is compared, and in the keyed variant a value beside it.       *)
(*                                                                         *)
(* The recursion is the stack todo of the ranges still to be sorted.  One  *)
(* action is one turn of a loop; the scans read ptr[i] and ptr[j] without  *)
(* testing the index.                                                      *)
(***************************************************************************)
EXTENDS Integers, Sequences

CONSTANTS Elements, MaxLength

ElementsAssumption == MaxLength \in Nat /\ \A e \in Elements : e.key \in Int

VARIABLES
    ptr,            \* the array, indexed from 0
    length,
    todo,           \* pending calls of quicksort, the next one first: <<low, high>>
    pc, low, high, pivot, i, j

range == <<low, high, pivot>>
vars == <<ptr, length, todo, pc, range, i, j>>

Key(k) == ptr[k].key

Init ==
    /\ length \in 0 .. MaxLength
    /\ ptr \in [0 .. length - 1 -> Elements]
    /\ todo = <<<<0, length - 1>>>>     \* size() - 1 of an empty vector becomes -1
    /\ pc = "call"
    /\ low = 0 /\ high = 0 /\ pivot = 0 /\ i = 0 /\ j = 0

Call ==
    /\ pc = "call" /\ todo # <<>>
    /\ todo' = Tail(todo)
    /\ LET l == todo[1][1]
           h == todo[1][2]
       IN  IF l >= h THEN UNCHANGED <<pc, range, i, j>>
           ELSE /\ low' = l /\ high' = h
                /\ pivot' = Key(l + ((h - l) \div 2))
                /\ i' = l - 1 /\ j' = h + 1
                /\ pc' = "up"
    /\ UNCHANGED <<ptr, length>>

\* Not the code: does not stop at a key that equals the pivot.
ScanUp_Equal ==
    /\ pc = "up"
    /\ i' = i + 1
    /\ pc' = IF Key(i') <= pivot THEN "up" ELSE "down"
    /\ UNCHANGED <<ptr, length, todo, range, j>>

ScanUp ==
    /\ pc = "up"
    /\ i' = i + 1
    /\ pc' = IF Key(i') < pivot THEN "up" ELSE "down"
    /\ UNCHANGED <<ptr, length, todo, range, j>>

ScanDown ==
    /\ pc = "down"
    /\ j' = j - 1
    /\ pc' = IF Key(j') > pivot THEN "down" ELSE "meet"
    /\ UNCHANGED <<ptr, length, todo, range, i>>

\* Not the code: loses an element.
Swap_Lost ==
    /\ pc = "meet" /\ i < j
    /\ ptr' = [ptr EXCEPT ![i] = ptr[j]]
    /\ pc' = "up"
    /\ UNCHANGED <<length, todo, range, i, j>>

Swap ==
    /\ pc = "meet" /\ i < j
    /\ ptr' = [ptr EXCEPT ![i] = ptr[j], ![j] = ptr[i]]
    /\ pc' = "up"
    /\ UNCHANGED <<length, todo, range, i, j>>

\* partition returns j; the two halves are sorted next.
Split ==
    /\ pc = "meet" /\ i >= j
    /\ todo' = <<<<low, j>>, <<j + 1, high>>>> \o todo
    /\ pc' = "call"
    /\ UNCHANGED <<ptr, length, range, i, j>>

Done == pc = "call" /\ todo = <<>>

Next == Call \/ ScanUp \/ ScanDown \/ Swap \/ Split \/ (Done /\ UNCHANGED vars)

Spec == Init /\ [][Next]_vars

-----------------------------------------------------------------------------
\* No scan leaves the array, although neither tests its index: an element that
\* stops it lies ahead, at first the pivot itself, then one that was swapped.
InBounds ==
    /\ pc = "up" => i + 1 \in 0 .. length - 1
    /\ pc = "down" => j - 1 \in 0 .. length - 1

\* Both halves of a split are shorter than the range: the recursion ends, also when
\* all keys are equal.
Splits == pc = "meet" /\ i >= j => low <= j /\ j < high

\* No key of the left half is above a key of the right half.
Parted ==
    pc = "meet" /\ i >= j =>
        \A x \in low .. j, y \in j + 1 .. high : Key(x) <= Key(y)

\* The array is sorted when quicksort returns.
Sorted == Done => \A x, y \in 0 .. length - 1 : x < y => Key(x) <= Key(y)

\* partition keeps to its range, and splits it into two that are smaller and in order.
Partitions == InBounds /\ Splits /\ Parted

\* Swapping neither loses nor repeats an element (the elements' values differ).
Permutes ==
    [][\A e \in Elements : (\E x \in 0 .. length - 1 : ptr[x] = e)
                              => \E x \in 0 .. length - 1 : ptr'[x] = e]_vars

\* quicksort sorts: in the end its elements are in order, and are those it was given.
Sorts == []Sorted /\ Permutes
=============================================================================
