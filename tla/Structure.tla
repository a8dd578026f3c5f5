------------------------------ MODULE Structure ------------------------------
(***************************************************************************)
(* How patterns are built of each other, copied, brought up, taken down    *)
(* and destroyed: create and create_copy of every pattern, the constructor *)
(* of Executor, Init, Dispose, ThreadCount, ComputePure and destructors,   *)
(* as one owner calls them.  What the threads do meanwhile is in the       *)
(* modules of the patterns.                                                *)
(*                                                                         *)
(* The heap is the sequence of the objects made so far, and an object is   *)
(* named by its position in it.  MapReduceGlobalH, LocalH and LocalV are   *)
(* built alike: they are one kind.                                         *)
(***************************************************************************)
EXTENDS Integers, Sequences, FiniteSets, SequencesExt, FiniteSetsExt

CONSTANTS
    ThreadCounts,   \* thread counts a program asks for
    MaxCreates      \* bound on the patterns the program creates

ASSUME StructureAssumption == ThreadCounts \subseteq Nat \ {0} /\ MaxCreates \in Nat

VARIABLES
    heap,       \* objects: [kind, executors, threads, initialized, running]
    freed,      \* objects that were destroyed
    program,    \* objects the program has a pointer to
    made        \* made[o]: the patterns that the program passed to create for o

vars == <<heap, freed, program, made>>

\* The number of executors of a pattern, each with the copies of one inner pattern.
Arity == [AlgorithmWrapper |-> 0, TaskPool |-> 1, Pipeline |-> 2, Composition |-> 2, MapReduce |-> 2]

\* The threads that Init starts; count is the number the program asked for.
Threads(kind, count) ==
    CASE kind \in {"TaskPool", "MapReduce"} -> count
      [] kind = "Pipeline" -> 2
      [] OTHER -> 0

Object(kind, executors, count) ==
    [kind |-> kind, executors |-> executors, threads |-> Threads(kind, count),
     initialized |-> FALSE, running |-> 0]

IsBlocking(h, o) == h[o].kind = "AlgorithmWrapper"

\* Executor::GetTask
GetTask(h, o, e) == h[o].executors[e][1]

-----------------------------------------------------------------------------
(* Each of these returns the heap after the call, and the objects made.    *)

RECURSIVE create_copy(_, _), create(_, _, _, _)

\* One copy of a blocking pattern is enough for all threads.
Executor(h, o, count) ==
    FoldLeft(LAMBDA acc, n : LET copy == create_copy(acc.heap, o)
                               IN  [heap |-> copy.heap, patterns |-> Append(acc.patterns, copy.object)],
             [heap |-> h, patterns |-> <<>>],
             [n \in 1 .. (IF IsBlocking(h, o) THEN 1 ELSE count) |-> n])

\* Only a pool gives its executor the number of its threads.
create(h, kind, tasks, count) ==
    LET all == FoldLeft(LAMBDA acc, task :
                            LET ex == Executor(acc.heap, task, IF kind = "TaskPool" THEN count ELSE 1)
                            IN  [heap |-> ex.heap, executors |-> Append(acc.executors, ex.patterns)],
                        [heap |-> h, executors |-> <<>>], tasks)
    IN  [heap |-> Append(all.heap, Object(kind, all.executors, count)), object |-> Len(all.heap) + 1]

\* Not the code: the copy of a pool has one thread.
create_copy_Single(h, o) ==
    create(h, h[o].kind, [e \in DOMAIN h[o].executors |-> GetTask(h, o, e)], 1)

create_copy(h, o) ==
    create(h, h[o].kind, [e \in DOMAIN h[o].executors |-> GetTask(h, o, e)], h[o].threads)

Children(h, o) == UNION {ToSet(h[o].executors[e]) : e \in DOMAIN h[o].executors}

RECURSIVE Below(_, _), InitAll(_, _), DisposeAll(_, _)
Below(h, o) == {o} \union UNION {Below(h, c) : c \in Children(h, o)}

\* A wrapper's Init and Dispose do nothing.
InitAll(h, o) ==
    IF h[o].kind = "AlgorithmWrapper" \/ h[o].initialized THEN h
    ELSE [FoldSet(LAMBDA c, g : InitAll(g, c), h, Children(h, o))
            EXCEPT ![o].initialized = TRUE, ![o].running = @ + h[o].threads]

\* Not the code: leaves the inner patterns up.
DisposeAll_Outer(h, o) ==
    IF h[o].initialized THEN [h EXCEPT ![o].initialized = FALSE, ![o].running = 0] ELSE h

DisposeAll(h, o) ==
    IF ~h[o].initialized THEN h
    ELSE [FoldSet(LAMBDA c, g : DisposeAll(g, c), h, Children(h, o))
            EXCEPT ![o].initialized = FALSE, ![o].running = 0]

-----------------------------------------------------------------------------
Init == heap = <<>> /\ freed = {} /\ program = {} /\ made = [o \in {} |-> <<>>]

\* The assertion in create_copy: a pattern that is up cannot be copied.
Create(kind, tasks, count) ==
    LET new == create(heap, kind, tasks, count)
    IN  /\ Cardinality(DOMAIN made) < MaxCreates
        /\ \A e \in DOMAIN tasks : ~heap[tasks[e]].initialized
        /\ heap' = new.heap
        /\ program' = program \union {new.object}
        /\ made' = [o \in DOMAIN made \union {new.object} |-> IF o = new.object THEN tasks ELSE made[o]]
        /\ UNCHANGED freed

InitPattern(o) ==
    /\ heap' = InitAll(heap, o)
    /\ UNCHANGED <<freed, program, made>>

DisposePattern(o) ==
    /\ heap' = DisposeAll(heap, o)
    /\ UNCHANGED <<freed, program, made>>

\* The last pointer is gone: Dispose, then the executors and their copies.
Destroy(o) ==
    /\ heap' = DisposeAll(heap, o)
    /\ freed' = freed \union Below(heap, o)
    /\ program' = program \ {o}
    /\ UNCHANGED made

Next ==
    \/ \E kind \in DOMAIN Arity, count \in ThreadCounts :
         \E tasks \in [1 .. Arity[kind] -> program] :
            /\ kind \notin {"TaskPool", "MapReduce"} => count = CHOOSE n \in ThreadCounts : TRUE
            /\ Create(kind, tasks, count)
    \/ \E o \in program : InitPattern(o) \/ DisposePattern(o) \/ Destroy(o)
    \/ program = {} /\ Cardinality(DOMAIN made) = MaxCreates /\ UNCHANGED vars

Spec == Init /\ [][Next]_vars

-----------------------------------------------------------------------------
\* No pattern is shared: an inner pattern is in one executor of one pattern, and the
\* program has no pointer to it.  So nobody else brings it up or takes it down.
OneOwner ==
    /\ \A o \in DOMAIN heap \ DOMAIN made :
         Cardinality({p \in DOMAIN heap : o \in Children(heap, p)}) = 1
    /\ \A o \in DOMAIN made : \A p \in DOMAIN heap : o \notin Children(heap, p)

\* Init and Dispose reach every pattern below, and none twice: after a call all patterns
\* of a tree are up with the threads they were built with, or all are down with none.
InStep ==
    \A o \in program : \A p \in Below(heap, o) :
        heap[p].kind # "AlgorithmWrapper" =>
            /\ heap[p].initialized = heap[o].initialized
            /\ heap[p].running = IF heap[o].initialized THEN heap[p].threads ELSE 0

\* Destroying a pattern destroys its copies and no others, after their threads were
\* joined: the destructor of a running std::thread would terminate the program.
NoneRunning ==
    /\ \A o \in freed : heap[o].running = 0 /\ Children(heap, o) \subseteq freed
    /\ \A o \in program : Below(heap, o) \cap freed = {}

RECURSIVE Shape(_)
Shape(o) ==
    [kind |-> heap[o].kind, threads |-> heap[o].threads,
     inner |-> [e \in DOMAIN heap[o].executors |->
                    [n \in DOMAIN heap[o].executors[e] |-> Shape(heap[o].executors[e][n])]]]

\* However deep the patterns are nested, a copy is built like the pattern it was made
\* of, thread counts included, also a copy of a copy.
CopiesAlike ==
    \A o \in DOMAIN made : \A e \in DOMAIN made[o] :
        \A n \in DOMAIN heap[o].executors[e] : Shape(heap[o].executors[e][n]) = Shape(made[o][e])

RECURSIVE ThreadCount(_)
ThreadCount(o) ==
    LET inner(e) == ThreadCount(GetTask(heap, o, e))
    IN  CASE heap[o].kind = "AlgorithmWrapper" -> 0
          [] heap[o].kind = "TaskPool"         -> heap[o].threads * inner(1)
          [] OTHER                             -> heap[o].threads + inner(1) + inner(2)

Running(o) == FoldSet(LAMBDA p, n : n + heap[p].running, 0, Below(heap, o))

\* ThreadCount is the number of threads that run in a tree without pools.  A pool counts
\* only the threads of its copies: none of its own.
CountsThreads ==
    \A o \in program : heap[o].initialized =>
        LET pools == {p \in Below(heap, o) : heap[p].kind = "TaskPool"}
            own == FoldSet(LAMBDA p, n : n + heap[p].running, 0, pools)
        IN  ThreadCount(o) + own = Running(o)

RECURSIVE Answers(_)
\* ComputePure of an object returns: a wrapper and a composition compute in the calling
\* thread, the others need their threads, and all of them an answer from inside.
Answers(o) ==
    /\ heap[o].kind \in {"AlgorithmWrapper", "Composition"} \/ heap[o].running > 0
    /\ \A c \in Children(heap, o) : Answers(c)

\* A pattern that is up can answer a call down to its last inner pattern, so ComputePure,
\* which MapReduce calls on its reducer, does not wait for ever.
AnswersWhenUp == \A o \in program : heap[o].initialized => Answers(o)

\* Whatever a program creates, initialises, disposes of and destroys, in any order:
\* the patterns below another live, run and answer with it.
Lifetimes == OneOwner /\ InStep /\ NoneRunning /\ AnswersWhenUp

\* Whatever is nested in what, a copy has the shape and the threads of its original.
Copies == CopiesAlike /\ CountsThreads
=============================================================================
