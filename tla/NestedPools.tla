----------------------------- MODULE NestedPools -----------------------------
(***************************************************************************)
(* pattern/TaskPool.hpp nested in itself: a pool whose executor holds      *)
(* copies of another pool, one for each of its threads.  Module TaskPool   *)
(* assumes of a pool's callers that each pushes its own chain of jobs      *)
(* (ChainAssumption).  Here the callers of a copy are the threads of the   *)
(* outer pool, which have taken one caller's chain apart: the assumption   *)
(* does not hold, and this module says what is left of AnswersAll.         *)
(*                                                                         *)
(* Both pools are up: Init and Dispose are in TaskPool.  A failing pop     *)
(* leaves everything as it is and is no step of its own.                   *)
(***************************************************************************)
EXTENDS Integers, Sequences, FiniteSets

CONSTANTS
    Callers,        \* of the outer pool
    Workers,        \* the outer pool's threads; it has as many copies
    InnerThreads,   \* the threads of each copy
    CounterModulus,
    Jobs, NoJob,
    CallerOf, Dep   \* as in TaskPool

NestedAssumption ==
    /\ IsFiniteSet(Workers) /\ Workers # {}
    /\ IsFiniteSet(InnerThreads) /\ InnerThreads # {}
    /\ IsFiniteSet(Jobs) /\ NoJob \notin Jobs
    /\ CallerOf \in [Jobs -> Callers] /\ Dep \in [Jobs -> Jobs \union {NoJob}]
    /\ \A j \in Jobs : Dep[j] # NoJob => CallerOf[Dep[j]] = CallerOf[j]
    /\ CounterModulus \in Nat /\ CounterModulus > Cardinality(Workers)

VARIABLES
    submitted, outer,   \* jobs pushed so far; the outer queue, a stream per caller
    pc, job,            \* the outer pool's threads
    counter, target,    \* round_robin_counter; the copy that a thread is about to push to
    streams,            \* the copies' queues, a stream per outer thread
    held,               \* the job of each thread of each copy
    answered

vars == <<submitted, outer, pc, job, counter, target, streams, held, answered>>

E == INSTANCE Executor WITH Count <- Cardinality(Workers), IsBlocking <- FALSE

Init ==
    /\ submitted = {} /\ outer = [c \in Callers |-> <<>>]
    /\ pc = [w \in Workers |-> "pop"] /\ job = [w \in Workers |-> NoJob]
    /\ counter = 0 /\ target = [w \in Workers |-> 0]
    /\ streams = [k \in E!Copies |-> [w \in Workers |-> <<>>]]
    /\ held = [k \in E!Copies |-> [t \in InnerThreads |-> NoJob]]
    /\ answered = {}

\* A caller's Compute; the input of a chained job is a future it got before.
Submit(j) ==
    /\ j \notin submitted
    /\ Dep[j] # NoJob => Dep[j] \in submitted
    /\ submitted' = submitted \union {j}
    /\ outer' = [outer EXCEPT ![CallerOf[j]] = Append(@, j)]
    /\ UNCHANGED <<pc, job, counter, target, streams, held, answered>>

\* An outer thread pops,
Pop(w) ==
    /\ pc[w] = "pop"
    /\ \E c \in Callers :
        /\ outer[c] # <<>>
        /\ job' = [job EXCEPT ![w] = Head(outer[c])]
        /\ outer' = [outer EXCEPT ![c] = Tail(@)]
    /\ pc' = [pc EXCEPT ![w] = "pick"]
    /\ UNCHANGED <<submitted, counter, target, streams, held, answered>>

Choose(w, next) ==
    /\ pc[w] = "pick"
    /\ target' = [target EXCEPT ![w] = E!ModIndex(counter)]
    /\ counter' = next
    /\ pc' = [pc EXCEPT ![w] = "push"]
    /\ UNCHANGED <<submitted, outer, job, streams, held, answered>>

\* Not the code: the counter read and not advanced.
Pick_NoAdvance(w) == Choose(w, counter)

\* takes a number for the round robin,
Pick(w) == Choose(w, E!NextCounter(counter))

\* and pushes to that copy, in a stream of its own.
Push(w) ==
    /\ pc[w] = "push"
    /\ streams' = [streams EXCEPT ![target[w]][w] = Append(@, job[w])]
    /\ job' = [job EXCEPT ![w] = NoJob]
    /\ pc' = [pc EXCEPT ![w] = "pop"]
    /\ UNCHANGED <<submitted, outer, counter, target, held, answered>>

PopFrom(k, t, producers) ==
    /\ held[k][t] = NoJob
    /\ \E w \in producers :
        /\ streams[k][w] # <<>>
        /\ held' = [held EXCEPT ![k][t] = Head(streams[k][w])]
        /\ streams' = [streams EXCEPT ![k][w] = Tail(@)]
    /\ UNCHANGED <<submitted, outer, pc, job, counter, target, answered>>

\* Not the code: a thread that is bound to one producer.
InnerPop_Bound(k, t) == PopFrom(k, t, {CHOOSE w \in Workers : TRUE})

\* A thread of the copy k pops, from the stream of any outer thread,
InnerPop(k, t) == PopFrom(k, t, Workers)

\* waits for the input and sets the output.
Execute(k, t) ==
    /\ held[k][t] # NoJob
    /\ Dep[held[k][t]] \in answered \union {NoJob}
    /\ answered' = answered \union {held[k][t]}
    /\ held' = [held EXCEPT ![k][t] = NoJob]
    /\ UNCHANGED <<submitted, outer, pc, job, counter, target, streams>>

\* Nothing is left to do.
Terminated == answered = Jobs /\ UNCHANGED vars

Next ==
    \/ \E j \in Jobs : Submit(j)
    \/ \E w \in Workers : Pop(w) \/ Pick(w) \/ Push(w)
    \/ \E k \in E!Copies, t \in InnerThreads : InnerPop(k, t) \/ Execute(k, t)
    \/ Terminated

Spec == Init /\ [][Next]_vars

\* Every thread runs; a pop succeeds in the end.
Fairness ==
    /\ \A w \in Workers : WF_vars(Pick(w) \/ Push(w))
    /\ WF_vars(\E w \in Workers : Pop(w))
    /\ \A k \in E!Copies, t \in InnerThreads : WF_vars(InnerPop(k, t) \/ Execute(k, t))

FairSpec == Spec /\ Fairness

-----------------------------------------------------------------------------
QueuedIn(k, j) == \E w \in Workers : \E m \in 1 .. Len(streams[k][w]) : streams[k][w][m] = j

\* Every thread of the copies `blocked` waits for the output of a job that is still
\* in the queue of one of them, or in the hands of such a thread.
Circle(blocked) ==
    \A k \in blocked : \A t \in InnerThreads :
        /\ held[k][t] # NoJob
        /\ \E b \in blocked :
            \/ QueuedIn(b, Dep[held[k][t]])
            \/ \E u \in InnerThreads : held[b][u] = Dep[held[k][t]]

Blocked == \E blocked \in (SUBSET E!Copies) \ {{}} : Circle(blocked)

\* There are as many copies as jobs, so that the round robin gives every job its own.
Spread == Cardinality(Jobs) <= Cardinality(Workers)

\* Too few jobs wait for another one to keep every thread of a copy waiting.
Few == Cardinality({j \in Jobs : Dep[j] # NoJob}) < Cardinality(InnerThreads)

(***************************************************************************)
(* The copies never block one another for ever, if the jobs are spread or  *)
(* few.  Otherwise they may: two jobs of a chain that come to one copy in  *)
(* the streams of two outer threads may be taken in either order.          *)
(***************************************************************************)
NoCircle == Spread \/ Few => ~Blocked

-----------------------------------------------------------------------------
(* The invariant that NoCircle follows from.                               *)

TypeOK ==
    /\ submitted \subseteq Jobs /\ answered \subseteq Jobs
    /\ outer \in [Callers -> Seq(Jobs)]
    /\ pc \in [Workers -> {"pop", "pick", "push"}]
    /\ job \in [Workers -> Jobs \union {NoJob}]
    /\ counter \in 0 .. CounterModulus - 1
    /\ target \in [Workers -> E!Copies]
    /\ streams \in [E!Copies -> [Workers -> Seq(Jobs)]]
    /\ held \in [E!Copies -> [InnerThreads -> Jobs \union {NoJob}]]
    /\ \A w \in Workers : pc[w] = "pop" <=> job[w] = NoJob

\* A job is pushed after the one it depends on, so no jobs depend on each other.
Chained ==
    /\ \A j \in submitted : Dep[j] # NoJob => Dep[j] \in submitted
    /\ \A S \in (SUBSET submitted) \ {{}} : \E j \in S : Dep[j] \notin S

\* No job is at two places of the queue q, of which the streams are those of P.
QueuedOnce(q, P) ==
    \A c, d \in P : \A m \in 1 .. Len(q[c]), n \in 1 .. Len(q[d]) :
        q[c][m] = q[d][n] => c = d /\ m = n

\* Every job is where `where` says, with the thread `who` and in the copy `copy`.
Tells(where, who, copy) ==
    /\ \A j \in Jobs : where[j] = "new" <=> j \notin submitted
    /\ \A c \in Callers : \A m \in 1 .. Len(outer[c]) : where[outer[c][m]] = "outer"
    /\ \A w \in Workers : job[w] # NoJob => where[job[w]] = "thread" /\ who[job[w]] = w
    /\ \A w \in Workers : pc[w] = "push" => copy[job[w]] = target[w]
    /\ \A k \in E!Copies, w \in Workers : \A m \in 1 .. Len(streams[k][w]) :
        where[streams[k][w][m]] = "queue" /\ copy[streams[k][w][m]] = k
    /\ \A k \in E!Copies, t \in InnerThreads : held[k][t] # NoJob =>
        where[held[k][t]] = "held" /\ who[held[k][t]] = t /\ copy[held[k][t]] = k

Picked(copy) == {j \in Jobs : copy[j] # -1}

\* No copy is picked twice, if there are enough.
Robin(where, copy) ==
    /\ \A w \in Workers : pc[w] = "pick" => job[w] \notin Picked(copy)
    /\ \A j \in Jobs : where[j] \in {"new", "outer"} => j \notin Picked(copy)
    /\ Spread /\ ~E!HoldsSingle =>
        /\ counter = Cardinality(Picked(copy))
        /\ \A j \in Picked(copy) : copy[j] \in 0 .. counter - 1
        /\ \A i, j \in Picked(copy) : copy[i] = copy[j] => i = j

OnePlace ==
    /\ QueuedOnce(outer, Callers) /\ \A k \in E!Copies : QueuedOnce(streams[k], Workers)
    /\ \E where \in [Jobs -> {"new", "outer", "thread", "queue", "held", "done"}],
          who \in [Jobs -> Workers \union InnerThreads], copy \in [Jobs -> Int] :
        Tells(where, who, copy) /\ Robin(where, copy)

IInv == TypeOK /\ Chained /\ OnePlace
=============================================================================
