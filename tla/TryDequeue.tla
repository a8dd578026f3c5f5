------------------------------ MODULE TryDequeue ------------------------------
(***************************************************************************)
(* moodycamel::ConcurrentQueue (vendored): try_dequeue(item), to which     *)
(* try_pop of TSQueue comes down.  A consumer walks the list of producers, *)
(* newest first, scores the first few that are not empty, and tries the    *)
(* largest; if that gives nothing, it tries every other one.               *)
(*                                                                         *)
(* A dequeue from one producer goes by the four counters of its sub-queue; *)
(* the blocks and the elements are those of module ImplicitProducer.  The  *)
(* indices do not come near the half of their range here, so that          *)
(* circular_less_than is <.                                                *)
(***************************************************************************)
EXTENDS Integers, FiniteSets

CONSTANTS
    Consumers,
    MaxScored,      \* producers scored at most: 3 in the code
    MaxProducers,   \* bound on the producers; the list is 1 .. linked, newest last
    MaxPushes,      \* bound: MaxPushes[p] are the pushes of producer p
    MaxOvercommits  \* bound: beyond it, calls no longer overlap

DequeueAssumption ==
    /\ IsFiniteSet(Consumers) /\ MaxScored \in Nat \ {0}
    /\ MaxProducers \in Nat /\ MaxOvercommits \in Nat
    /\ MaxPushes \in [1 .. MaxProducers -> Nat]

VARIABLES
    linked, tailIndex, headIndex, dequeueOptimisticCount, dequeueOvercommit,
    pc, local,      \* local variables of try_dequeue and of dequeue
    excused         \* history: excused[c] are the producers that were empty or busy
                    \* at some time in the call of c

producers == <<linked, tailIndex, headIndex, dequeueOptimisticCount, dequeueOvercommit>>
vars == <<producers, pc, local, excused>>

Producers == 1 .. MaxProducers
Fresh == [ptr |-> 0, tail |-> 0, nonEmptyCount |-> 0, best |-> 0, bestSize |-> 0,
          producer |-> 0, overcommit |-> 0, myDequeueCount |-> 0]

Init ==
    /\ linked = 0
    /\ tailIndex = [p \in Producers |-> 0] /\ headIndex = [p \in Producers |-> 0]
    /\ dequeueOptimisticCount = [p \in Producers |-> 0]
    /\ dequeueOvercommit = [p \in Producers |-> 0]
    /\ pc = [c \in Consumers |-> "idle"]
    /\ local = [c \in Consumers |-> Fresh]
    /\ excused = [c \in Consumers |-> {}]

\* A new thread pushes for the first time.
AddProducer ==
    /\ linked < MaxProducers
    /\ linked' = linked + 1
    /\ UNCHANGED <<tailIndex, headIndex, dequeueOptimisticCount, dequeueOvercommit, pc, local>>

Push(p) ==
    /\ p <= linked /\ tailIndex[p] < MaxPushes[p]
    /\ tailIndex' = [tailIndex EXCEPT ![p] = @ + 1]
    /\ UNCHANGED <<linked, headIndex, dequeueOptimisticCount, dequeueOvercommit, pc, local>>

Goto(c, label) == pc' = [pc EXCEPT ![c] = label]
Set(c, rec) == local' = [local EXCEPT ![c] = rec]

\* Between two calls of dequeue, only the best producer and the place in the list matter.
At(c, n) == [Fresh EXCEPT !.ptr = n, !.best = local[c].best]

-----------------------------------------------------------------------------
\* try_dequeue: the scores.

Begin(c) ==
    /\ pc[c] = "idle"
    /\ \/ \A p \in Producers : dequeueOvercommit[p] < MaxOvercommits
       \/ \A d \in Consumers : pc[d] = "idle"
    /\ Set(c, [Fresh EXCEPT !.ptr = linked]) /\ Goto(c, "score")
    /\ UNCHANGED producers

\* The loop ends: with the best of the producers seen, or with none.
EndScore(c) ==
    /\ pc[c] = "score" /\ (local[c].nonEmptyCount = MaxScored \/ local[c].ptr = 0)
    /\ Goto(c, IF local[c].nonEmptyCount > 0 THEN "best" ELSE "failed")
    /\ Set(c, At(c, 0))
    /\ UNCHANGED producers

\* size_approx loads the tail ...
ReadTail(c) ==
    /\ pc[c] = "score" /\ local[c].nonEmptyCount < MaxScored /\ local[c].ptr # 0
    /\ Set(c, [local[c] EXCEPT !.tail = tailIndex[local[c].ptr]]) /\ Goto(c, "size")
    /\ UNCHANGED producers

\* ... and then the head, which by then may have passed that tail.
ReadHead(c) ==
    LET l == local[c]
        size == IF headIndex[l.ptr] < l.tail THEN l.tail - headIndex[l.ptr] ELSE 0
        better == size > l.bestSize
    IN  /\ pc[c] = "size"
        /\ Set(c, [l EXCEPT !.ptr = @ - 1, !.tail = 0,
                            !.nonEmptyCount = IF size > 0 THEN @ + 1 ELSE @,
                            !.best = IF better THEN l.ptr ELSE @,
                            !.bestSize = IF better THEN size ELSE @])
        /\ Goto(c, "score")
        /\ UNCHANGED producers

-----------------------------------------------------------------------------
\* dequeue: one producer's sub-queue.

\* The first loads of dequeue: the tail ...
Enter(c, p) ==
    /\ Set(c, [local[c] EXCEPT !.producer = p, !.tail = tailIndex[p]])
    /\ Goto(c, "overcommit")
    /\ UNCHANGED producers

\* ... and the overcommit.
LoadOvercommit(c) ==
    /\ pc[c] = "overcommit"
    /\ Set(c, [local[c] EXCEPT !.overcommit = dequeueOvercommit[local[c].producer]])
    /\ Goto(c, "test")
    /\ UNCHANGED producers

\* Not the code: gives up after the best producer.
Failed_BestOnly(c) ==
    IF local[c].producer = local[c].best
    THEN Goto(c, "failed") /\ Set(c, At(c, 0))
    ELSE Goto(c, "others") /\ Set(c, At(c, local[c].ptr - 1))

\* dequeue returns false: go to the other producers, or to the next of them.
Failed(c) ==
    IF local[c].producer = local[c].best
    THEN Goto(c, "retry") /\ Set(c, At(c, 0))
    ELSE Goto(c, "others") /\ Set(c, At(c, local[c].ptr - 1))

Test(c) ==
    LET l == local[c]
    IN  /\ pc[c] = "test"
        /\ IF dequeueOptimisticCount[l.producer] - l.overcommit < l.tail
           THEN Goto(c, "count") /\ UNCHANGED local
           ELSE Failed(c)
        /\ UNCHANGED producers

Count(c) ==
    LET p == local[c].producer
    IN  /\ pc[c] = "count"
        /\ Set(c, [local[c] EXCEPT !.myDequeueCount = dequeueOptimisticCount[p]])
        /\ dequeueOptimisticCount' = [dequeueOptimisticCount EXCEPT ![p] = @ + 1]
        /\ Goto(c, "recheck")
        /\ UNCHANGED <<linked, tailIndex, headIndex, dequeueOvercommit>>

Recheck(c) ==
    LET l == local[c]
    IN  /\ pc[c] = "recheck"
        /\ Goto(c, IF l.myDequeueCount - l.overcommit < tailIndex[l.producer] THEN "claim" ELSE "over")
        /\ UNCHANGED <<producers, local>>

\* An element is claimed, and try_dequeue returns true.
Claim(c) ==
    /\ pc[c] = "claim"
    /\ headIndex' = [headIndex EXCEPT ![local[c].producer] = @ + 1]
    /\ Goto(c, "idle") /\ Set(c, Fresh)
    /\ UNCHANGED <<linked, tailIndex, dequeueOptimisticCount, dequeueOvercommit>>

Overcommit(c) ==
    /\ pc[c] = "over"
    /\ dequeueOvercommit' = [dequeueOvercommit EXCEPT ![local[c].producer] = @ + 1]
    /\ Failed(c)
    /\ UNCHANGED <<linked, tailIndex, headIndex, dequeueOptimisticCount>>

-----------------------------------------------------------------------------
\* try_dequeue: the producers it tries.

DequeueBest(c) == pc[c] = "best" /\ Enter(c, local[c].best)

BeginOthers(c) ==
    /\ pc[c] = "retry"
    /\ Set(c, At(c, linked)) /\ Goto(c, "others")
    /\ UNCHANGED producers

DequeueOther(c) ==
    /\ pc[c] = "others" /\ local[c].ptr \notin {0, local[c].best}
    /\ Enter(c, local[c].ptr)

SkipBest(c) ==
    /\ pc[c] = "others" /\ local[c].ptr # 0 /\ local[c].ptr = local[c].best
    /\ Set(c, At(c, local[c].ptr - 1))
    /\ UNCHANGED <<producers, pc>>

EndOthers(c) ==
    /\ pc[c] = "others" /\ local[c].ptr = 0
    /\ Goto(c, "failed")
    /\ UNCHANGED <<producers, local>>

\* try_dequeue returns false.
Fail(c) ==
    /\ pc[c] = "failed"
    /\ Goto(c, "idle") /\ Set(c, Fresh)
    /\ UNCHANGED producers

-----------------------------------------------------------------------------
Consume(c) ==
    \/ Begin(c) \/ ReadTail(c) \/ ReadHead(c) \/ EndScore(c)
    \/ DequeueBest(c) \/ BeginOthers(c) \/ DequeueOther(c) \/ SkipBest(c) \/ EndOthers(c)
    \/ LoadOvercommit(c) \/ Test(c) \/ Count(c) \/ Recheck(c) \/ Claim(c) \/ Overcommit(c)
    \/ Fail(c)

Step ==
    \/ AddProducer \/ \E p \in Producers : Push(p)
    \/ \E c \in Consumers : Consume(c)

\* Consumer d has counted itself in at p, and not yet taken an element or the count back.
CountedAt(d, p) == pc[d] \in {"recheck", "claim", "over"} /\ local[d].producer = p

\* Producer p has nothing for c, or another consumer is counted in there.
EmptyOrBusy(c, p) ==
    \/ p > linked
    \/ headIndex[p] >= tailIndex[p]
    \/ \E d \in Consumers \ {c} : CountedAt(d, p)

\* History only: no action of the code reads it.
Observe ==
    excused' = [c \in Consumers |->
                  IF pc'[c] = "idle" THEN {}
                  ELSE excused[c] \union {p \in Producers : EmptyOrBusy(c, p)'}]

Next == Step /\ Observe

Spec == Init /\ [][Next]_vars

-----------------------------------------------------------------------------
\* The comment on try_dequeue says of a failure that all producers appeared empty, and that
\* the queue is likely but not guaranteed to be empty.  What is guaranteed: a call fails
\* only if every producer, at some time in the call, was empty or had another consumer
\* between its count and its claim or its overcommit.  An element that was there all the
\* time is so missed only on account of another consumer at its producer, although not all
\* producers are scored, the scores are stale, and earlier calls have overcommitted.
MissesOnlyBusy == \A c \in Consumers : pc[c] = "failed" => excused[c] = Producers
=============================================================================
