------------------------------ MODULE TaskPool ------------------------------
(***************************************************************************)
(* pattern/TaskPool.hpp: a pool of threads that take jobs from one queue   *)
(* and hand them to an executor.                                           *)
(*                                                                         *)
(* The actors: the callers, which call Compute (and so InternallyCompute)  *)
(* at any time; the pool's threads, which run PerformTask; the owner, the  *)
(* one thread that calls Init, Dispose and the destructor; and, when the   *)
(* pattern in the executor has threads of its own, that pattern, as        *)
(* module Pattern describes it.                                            *)
(*                                                                         *)
(* The queue (TSQueue, a moodycamel::ConcurrentQueue) keeps one FIFO       *)
(* stream per pushing thread.  A pop takes the head of any stream; it may  *)
(* also fail although a stream is not empty, as the library's comment on   *)
(* try_dequeue says ("likely but not guaranteed to be empty").             *)
(***************************************************************************)
EXTENDS Integers, Sequences, FiniteSets

CONSTANTS
    Callers,        \* threads that call Compute
    Workers,        \* the pool's threads; their number is thread_count
    Jobs,           \* the calls of Compute: each a future and a promise
    NoJob,          \* not a job
    CallerOf,       \* the caller that makes each job
    Dep,            \* the job whose output is this job's input, or NoJob
    InnerKind,      \* what the executor holds, see below
    CounterModulus  \* number of values of round_robin_counter

(***************************************************************************)
(* "wrapper": an AlgorithmWrapper; IsBlocking, computes in the thread that *)
(*            calls it, waiting for the input;                             *)
(* "inline":  a Composition of wrappers; not IsBlocking, but computes in   *)
(*            the thread that calls it as well;                            *)
(* "async":   a TaskPool or a Pipeline; takes the job and returns, its own *)
(*            threads answer it.                                           *)
(***************************************************************************)
Kinds == {"wrapper", "inline", "async"}

ASSUME PoolAssumption ==
    /\ Workers # {} /\ IsFiniteSet(Workers)
    /\ Jobs # {} /\ IsFiniteSet(Jobs)
    /\ NoJob \notin Jobs
    /\ InnerKind \in Kinds
    /\ CounterModulus \in Nat \ {0}

(***************************************************************************)
(* A caller only chains its own calls: the input of a job that is not      *)
(* external is the output of a job the same thread submitted.              *)
(***************************************************************************)
ASSUME ChainAssumption ==
    /\ CallerOf \in [Jobs -> Callers]
    /\ Dep \in [Jobs -> Jobs \union {NoJob}]
    /\ \A j \in Jobs : Dep[j] # NoJob => CallerOf[Dep[j]] = CallerOf[j]

VARIABLES
    initialized, dying,     \* PatternInterface's atomic flags
    up,                     \* the executor's patterns are initialised
    owner,                  \* what the owner is doing
    pc, job,                \* where each pool thread is, and the job it holds
    inner_queue, submitted, \* the queue, one stream per caller; jobs pushed so far
    counter, target,        \* round_robin_counter, and the copy each job went to
    inner,                  \* jobs an asynchronous copy has taken and not answered
    supplied, answered      \* jobs whose external input, whose output promise is set

life    == <<initialized, dying, up, owner>>
threads == <<pc, job>>
queue   == <<inner_queue, submitted>>
exec    == <<counter, target, inner>>
values  == <<supplied, answered>>
vars    == <<life, threads, queue, exec, values>>

E == INSTANCE Executor WITH
        Count <- Cardinality(Workers), IsBlocking <- InnerKind = "wrapper"

NoCopy == -1

Queued(j) == \E c \in Callers : \E i \in 1 .. Len(inner_queue[c]) : inner_queue[c][i] = j

Held(j) == \E w \in Workers : job[w] = j

\* The job's input future is ready.
InputReady(j) == IF Dep[j] = NoJob THEN j \in supplied ELSE Dep[j] \in answered

Alive(w) == pc[w] \notin {"off", "exited"}

\* The destructor destroys the promises that were never set.
broken == IF owner = "gone" THEN submitted \ answered ELSE {}

-----------------------------------------------------------------------------
Init ==
    /\ initialized = FALSE /\ dying = FALSE /\ up = FALSE
    /\ owner = "idle"
    /\ pc = [w \in Workers |-> "off"]
    /\ job = [w \in Workers |-> NoJob]
    /\ inner_queue = [c \in Callers |-> <<>>] /\ submitted = {}
    /\ counter = 0 /\ target = [j \in Jobs |-> NoCopy] /\ inner = {}
    /\ supplied = {} /\ answered = {}

-----------------------------------------------------------------------------
(* The callers and the world that gives them their inputs.                 *)

\* A push leaves the caller's stream as `stream`.
Push(j, stream) ==
    /\ owner # "gone"
    /\ j \notin submitted
    /\ Dep[j] # NoJob => Dep[j] \in submitted
    /\ submitted' = submitted \union {j}
    /\ inner_queue' = [inner_queue EXCEPT ![CallerOf[j]] = stream]
    /\ UNCHANGED <<life, threads, exec, values>>

\* Not the code: the queue as a stack.
Submit_Lifo(j) == Push(j, <<j>> \o inner_queue[CallerOf[j]])

\* Compute: makes the promise and pushes the job (InternallyCompute).  The
\* input of a chained job is the future an earlier Compute returned.
Submit(j) == Push(j, Append(inner_queue[CallerOf[j]], j))

\* Someone sets the promise of a job's external input.
Supply(j) ==
    /\ Dep[j] = NoJob
    /\ j \notin supplied
    /\ supplied' = supplied \union {j}
    /\ UNCHANGED <<life, threads, queue, exec, answered>>

-----------------------------------------------------------------------------
(* The owner: Init, Dispose, ~TaskPool.                                    *)

\* Init up to the loop that starts the threads.
InitBegin ==
    /\ owner = "idle" /\ ~initialized
    /\ dying' = FALSE
    /\ up' = TRUE
    /\ owner' = "spawn"
    /\ UNCHANGED <<initialized, threads, queue, exec, values>>

\* One turn of the loop; the thread may run before the next one is started.
Spawn(w) ==
    /\ owner = "spawn"
    /\ pc[w] = "off"
    /\ pc' = [pc EXCEPT ![w] = "loop"]
    /\ UNCHANGED <<life, job, queue, exec, values>>

InitEnd ==
    /\ owner = "spawn"
    /\ \A w \in Workers : pc[w] # "off"
    /\ initialized' = TRUE
    /\ owner' = "idle"
    /\ UNCHANGED <<dying, up, threads, queue, exec, values>>

DisposeBegin ==
    /\ owner = "idle" /\ initialized
    /\ dying' = TRUE
    /\ owner' = "join"
    /\ UNCHANGED <<initialized, up, threads, queue, exec, values>>

\* The end of Dispose for the threads `joined`, with the queue left as `rest`.
FinishDispose(joined, rest) ==
    /\ owner = "join"
    /\ \A w \in joined : pc[w] = "exited"
    /\ up' = FALSE
    /\ initialized' = FALSE
    /\ owner' = "idle"
    /\ pc' = [w \in Workers |-> IF pc[w] = "exited" THEN "off" ELSE pc[w]]
    /\ inner_queue' = rest
    /\ UNCHANGED <<dying, job, submitted, exec, values>>

\* Not the code: Dispose without the joins.
DisposeEnd_NoJoin == FinishDispose({}, inner_queue)

\* Not the code: Dispose empties the queue.
DisposeEnd_Clears == FinishDispose(Workers, [c \in Callers |-> <<>>])

\* Every join has returned: the executor is disposed of only now.
DisposeEnd == FinishDispose(Workers, inner_queue)

\* The members go: the queue, and the copies, with the promises they hold.
Drop ==
    /\ owner = "idle"
    /\ owner' = "gone"
    /\ inner_queue' = [c \in Callers |-> <<>>]
    /\ inner' = {}
    /\ UNCHANGED <<initialized, dying, up, threads, submitted, counter, target, values>>

\* The destructor has called Dispose before the members go.
Destroy == ~initialized /\ Drop

-----------------------------------------------------------------------------
(* A pool thread: PerformTask.                                             *)

\* Not the code: while (true).
TestDying_Never(w) ==
    /\ pc[w] = "loop"
    /\ pc' = [pc EXCEPT ![w] = "pop"]
    /\ UNCHANGED <<life, job, queue, exec, values>>

\* while (!this->dying).  The test after a failed pop, with the yield and the
\* continue, comes to this one at once.
TestDying(w) ==
    /\ pc[w] = "loop"
    /\ pc' = [pc EXCEPT ![w] = IF dying THEN "exited" ELSE "pop"]
    /\ UNCHANGED <<life, job, queue, exec, values>>

\* try_pop succeeds, on the stream of some caller.
Pop(w) ==
    /\ pc[w] = "pop"
    /\ \E c \in Callers :
        /\ inner_queue[c] # <<>>
        /\ job' = [job EXCEPT ![w] = Head(inner_queue[c])]
        /\ inner_queue' = [inner_queue EXCEPT ![c] = Tail(@)]
    /\ pc' = [pc EXCEPT ![w] = "enter"]
    /\ UNCHANGED <<life, submitted, exec, values>>

PopFail(w) ==
    /\ pc[w] = "pop"
    /\ pc' = [pc EXCEPT ![w] = "loop"]
    /\ UNCHANGED <<life, job, queue, exec, values>>

\* executor.Compute as far as the call of InternallyCompute of the copy i,
\* which an asynchronous copy returns from at once.
EnterCopy(w, i, next) ==
    /\ pc[w] = "enter"
    /\ target' = [target EXCEPT ![job[w]] = i]
    /\ counter' = next
    /\ IF InnerKind = "async"
         THEN /\ inner' = inner \union {job[w]}
              /\ job' = [job EXCEPT ![w] = NoJob]
              /\ pc' = [pc EXCEPT ![w] = "loop"]
         ELSE /\ pc' = [pc EXCEPT ![w] = "run"]
              /\ UNCHANGED <<job, inner>>
    /\ UNCHANGED <<life, queue, values>>

\* Not the code: the index advanced after it is reduced.
Enter_PastIndex(w) == EnterCopy(w, E!ModIndex(counter) + 1, E!NextCounter(counter))

\* Not the code: the counter read and not advanced.
Enter_NoAdvance(w) == EnterCopy(w, E!ModIndex(counter), counter)

Enter(w) == EnterCopy(w, E!ModIndex(counter), E!NextCounter(counter))

\* promise.set_value() with what the algorithm makes of the input.
SetValue(w) ==
    /\ answered' = answered \union {job[w]}
    /\ job' = [job EXCEPT ![w] = NoJob]
    /\ pc' = [pc EXCEPT ![w] = "loop"]
    /\ UNCHANGED <<life, queue, exec, supplied>>

\* Not the code: the algorithm runs before its input is there.
Execute_NoGet(w) == pc[w] = "run" /\ SetValue(w)

\* A copy that runs in the pool's thread: future.get() waits for the input.
Execute(w) == pc[w] = "run" /\ InputReady(job[w]) /\ SetValue(w)

\* An asynchronous copy answers: Pattern!Answer of that copy.
InnerAnswer(j) ==
    /\ up
    /\ j \in inner
    /\ InputReady(j)
    /\ inner' = inner \ {j}
    /\ answered' = answered \union {j}
    /\ UNCHANGED <<life, threads, queue, counter, target, supplied>>

\* After the destructor nothing is left to run.
Terminated == owner = "gone" /\ UNCHANGED vars

-----------------------------------------------------------------------------
Worker(w) == TestDying(w) \/ Pop(w) \/ PopFail(w) \/ Enter(w) \/ Execute(w)

Next ==
    \/ \E j \in Jobs : Submit(j) \/ Supply(j) \/ InnerAnswer(j)
    \/ InitBegin \/ InitEnd \/ DisposeBegin \/ DisposeEnd \/ Destroy
    \/ \E w \in Workers : Spawn(w) \/ Worker(w)
    \/ Terminated

Spec == Init /\ [][Next]_vars

(***************************************************************************)
(* The scheduler runs every thread; the owner finishes what it began but   *)
(* need not begin it; inputs come in the end; a pop that is tried again    *)
(* and again on a queue with jobs does not always fail.                    *)
(***************************************************************************)
Fairness ==
    /\ \A w \in Workers : WF_vars(Worker(w)) /\ WF_vars(Spawn(w))
    /\ WF_vars(InitEnd) /\ WF_vars(DisposeEnd)
    /\ \A j \in Jobs : WF_vars(Supply(j)) /\ WF_vars(InnerAnswer(j))
    /\ SF_vars(\E w \in Workers : Pop(w))

FairSpec == Spec /\ Fairness

-----------------------------------------------------------------------------
(* Properties.                                                             *)

\* Every variable keeps the shape its declaration says.
TypeOK ==
    /\ initialized \in BOOLEAN /\ dying \in BOOLEAN /\ up \in BOOLEAN
    /\ owner \in {"idle", "spawn", "join", "gone"}
    /\ pc \in [Workers -> {"off", "loop", "pop", "enter", "run", "exited"}]
    /\ job \in [Workers -> Jobs \union {NoJob}]
    /\ inner_queue \in [Callers -> Seq(Jobs)]
    /\ counter \in 0 .. CounterModulus - 1
    /\ target \in [Jobs -> E!Copies \union {NoCopy}]
    /\ submitted \subseteq Jobs /\ inner \subseteq Jobs
    /\ supplied \subseteq Jobs /\ answered \subseteq Jobs

\* The places of one job exclude each other, and are where submitted jobs are.
OneHome(j) ==
    /\ j \in submitted <=>
        Queued(j) \/ Held(j) \/ j \in inner \/ j \in answered \/ j \in broken
    /\ Queued(j) => ~Held(j) /\ j \notin inner \union answered \union broken
    /\ Held(j) => j \notin inner \union answered \union broken
    /\ j \in inner => j \notin answered \union broken

HeldOnce == \A v, w \in Workers : job[v] = job[w] /\ job[v] # NoJob => v = w

QueuedOnce ==
    \A c, d \in Callers : \A m \in 1 .. Len(inner_queue[c]), n \in 1 .. Len(inner_queue[d]) :
        inner_queue[c][m] = inner_queue[d][n] => c = d /\ m = n

(***************************************************************************)
(* A submitted job is in exactly one place: the queue (once), the hands of *)
(* one thread, an asynchronous copy, answered, or broken.  So no pop loses *)
(* a promise or gives it to two threads, no Dispose, Init or destructor    *)
(* drops one silently, and set_value is called at most once.               *)
(***************************************************************************)
OnePlace == (\A j \in Jobs : OneHome(j)) /\ HeldOnce /\ QueuedOnce

(***************************************************************************)
(* A thread that waits in future.get() for the output of another job never *)
(* waits for one that is still in the queue: with that, a pool of even one *)
(* thread cannot block itself on a chain of its caller's jobs.  It rests   *)
(* on the order of the caller's pushes and on each stream being FIFO.      *)
(***************************************************************************)
NoWaitOnQueued ==
    \A w \in Workers :
        job[w] # NoJob /\ Dep[job[w]] # NoJob =>
            Dep[job[w]] \in submitted /\ ~Queued(Dep[job[w]])

(***************************************************************************)
(* No thread of the pool runs unless the executor's copies are initialised *)
(* (Init brings them up before it starts threads, Dispose joins before it  *)
(* takes them down), and the flag `initialized` is raised only over a full *)
(* set of started threads.                                                 *)
(***************************************************************************)
QuietWhenDown ==
    /\ \A w \in Workers : Alive(w) => up
    /\ initialized => up /\ \A w \in Workers : pc[w] # "off"
    /\ dying \/ \A w \in Workers : pc[w] # "exited"

\* The number of jobs the executor has sent to a copy.
Load(k) == Cardinality({j \in Jobs : target[j] = k})

(***************************************************************************)
(* The round robin is fair whatever the interleaving of the threads' calls *)
(* of Compute: the loads of two copies differ by at most one.              *)
(***************************************************************************)
Balanced == \A a, b \in E!Copies : Load(a) <= Load(b) + 1

\* What it takes: the counter does not wrap, or wraps at the end of a rotation.
CounterFits ==
    Cardinality(Jobs) < CounterModulus \/ CounterModulus % Cardinality(Workers) = 0

(***************************************************************************)
(* Dispose returns: no thread is left blocked on a job that nobody will    *)
(* run any more, although Dispose leaves the queue unserved.               *)
(***************************************************************************)
DisposeEnds == owner = "join" ~> owner = "idle"

-----------------------------------------------------------------------------
(* The pool implements a pattern.                                          *)

Abstract == INSTANCE Pattern WITH
    accepted <- submitted,
    ready <- {j \in Jobs : InputReady(j)},
    gone <- owner = "gone"

\* A pool answers what it accepted, once, with its input there, while it is up.
ImplementsPattern == Abstract!SafeSpec

\* While it stays up, it answers every job whose input is there.
AnswersAll == Abstract!Responsive

=============================================================================
