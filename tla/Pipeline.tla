------------------------------ MODULE Pipeline ------------------------------
(***************************************************************************)
(* pattern/Pipeline.hpp: two stages, each a thread that takes jobs from    *)
(* its own queue and hands them to its own executor.  A call of Compute    *)
(* makes a promise for the intermediate value, pushes (input, intermediate *)
(* promise) on the first queue and then (intermediate future, output       *)
(* promise) on the second; the stages share nothing else.                  *)
(*                                                                         *)
(* The two pushes are two steps: other callers, the stages and the owner   *)
(* (the thread that calls Init, Dispose and the destructor) run between    *)
(* them.  The queues are as in TaskPool: one FIFO stream per pushing       *)
(* thread, a pop takes the head of any stream and may fail spuriously.     *)
(* Both executors hold one copy, so the round robin plays no part.         *)
(***************************************************************************)
EXTENDS Integers, Sequences, FiniteSets

CONSTANTS
    Callers,    \* threads that call Compute
    Jobs,       \* the calls of Compute
    NoJob,      \* not a job
    CallerOf,   \* the caller that makes each job
    Dep,        \* the job whose output is this job's input, or NoJob
    Kind,       \* what the executor of each stage holds, see below
    Drains      \* whether the program gets all outputs before it disposes

Stages == {1, 2}

(***************************************************************************)
(* "leaf":  computes in the stage's thread, waiting for the input (an      *)
(*          AlgorithmWrapper, or a Composition of them);                   *)
(* "async": takes the job and returns; its own threads answer it (a        *)
(*          TaskPool or a Pipeline).                                       *)
(***************************************************************************)
ASSUME PipelineAssumption ==
    /\ Jobs # {} /\ IsFiniteSet(Jobs)
    /\ NoJob \notin Jobs
    /\ Kind \in [Stages -> {"leaf", "async"}]
    /\ Drains \in BOOLEAN

\* A caller only chains its own calls.
ASSUME ChainAssumption ==
    /\ CallerOf \in [Jobs -> Callers]
    /\ Dep \in [Jobs -> Jobs \union {NoJob}]
    /\ \A j \in Jobs : Dep[j] # NoJob => CallerOf[Dep[j]] = CallerOf[j]

VARIABLES
    initialized, dying,     \* PatternInterface's atomic flags
    up,                     \* the executors' patterns are initialised
    owner,                  \* what the owner is doing
    pc, job,                \* where each stage's thread is, and the job it holds
    streams,                \* first_queue and second_queue, one stream per caller
    half,                   \* the job each caller has pushed on the first queue only
    submitted,              \* the jobs pushed on both
    inner,                  \* per stage, jobs an asynchronous pattern holds
    supplied,               \* jobs whose external input is set
    done                    \* jobs whose intermediate (1), output (2) promise is set

life    == <<initialized, dying, up, owner>>
threads == <<pc, job>>
calls   == <<half, submitted>>
values  == <<supplied, done>>
vars    == <<life, threads, streams, calls, inner, values>>

Pushed(s) == submitted \union IF s = 1 THEN {half[c] : c \in Callers} \ {NoJob} ELSE {}

Queued(s, j) == \E c \in Callers : \E i \in 1 .. Len(streams[s][c]) : streams[s][c][i] = j

InputReady(j) == IF Dep[j] = NoJob THEN j \in supplied ELSE Dep[j] \in done[2]

\* The future the stage gets with the job is ready.
Ready(s, j) == IF s = 1 THEN InputReady(j) ELSE j \in done[1]

\* The destructor destroys the promises that were never set.
Broken(s) == IF owner = "gone" THEN Pushed(s) \ done[s] ELSE {}

-----------------------------------------------------------------------------
Init ==
    /\ initialized = FALSE /\ dying = FALSE /\ up = FALSE
    /\ owner = "idle"
    /\ pc = [s \in Stages |-> "off"] /\ job = [s \in Stages |-> NoJob]
    /\ streams = [s \in Stages |-> [c \in Callers |-> <<>>]]
    /\ half = [c \in Callers |-> NoJob] /\ submitted = {}
    /\ inner = [s \in Stages |-> {}]
    /\ supplied = {} /\ done = [s \in Stages |-> {}]

-----------------------------------------------------------------------------
(* The callers, and the world that gives them their inputs.                *)

\* Compute, up to and with the push on first_queue.  The input of a chained
\* job is the future an earlier Compute returned.
PushFirst(j) ==
    LET c == CallerOf[j] IN
    /\ owner # "gone" /\ (Drains => owner # "join")
    /\ half[c] = NoJob /\ j \notin submitted
    /\ Dep[j] # NoJob => Dep[j] \in submitted
    /\ half' = [half EXCEPT ![c] = j]
    /\ streams' = [streams EXCEPT ![1][c] = Append(@, j)]
    /\ UNCHANGED <<life, threads, submitted, inner, values>>

\* The push on second_queue leaves the caller's stream as `stream`.
FinishCompute(c, stream) ==
    /\ half[c] # NoJob
    /\ submitted' = submitted \union {half[c]}
    /\ half' = [half EXCEPT ![c] = NoJob]
    /\ streams' = [streams EXCEPT ![2][c] = stream]
    /\ UNCHANGED <<life, threads, inner, values>>

\* Not the code: second_queue as a stack.
PushSecond_Lifo(c) == FinishCompute(c, <<half[c]>> \o streams[2][c])

PushSecond(c) == FinishCompute(c, Append(streams[2][c], half[c]))

\* Someone sets the promise of a job's external input.
Supply(j) ==
    /\ Dep[j] = NoJob
    /\ j \notin supplied
    /\ supplied' = supplied \union {j}
    /\ UNCHANGED <<life, threads, streams, calls, inner, done>>

-----------------------------------------------------------------------------
(* The owner: Init, Dispose, ~Pipeline.                                    *)

\* Init up to the start of the threads.
InitBegin ==
    /\ owner = "idle" /\ ~initialized
    /\ dying' = FALSE
    /\ up' = TRUE
    /\ owner' = "spawn"
    /\ UNCHANGED <<initialized, threads, streams, calls, inner, values>>

\* The thread of stage 1 may run before that of stage 2 is started.
Spawn(s) ==
    /\ owner = "spawn"
    /\ pc[s] = "off" /\ (s = 2 => pc[1] # "off")
    /\ pc' = [pc EXCEPT ![s] = "loop"]
    /\ UNCHANGED <<life, job, streams, calls, inner, values>>

InitEnd ==
    /\ owner = "spawn" /\ pc[2] # "off"
    /\ initialized' = TRUE
    /\ owner' = "idle"
    /\ UNCHANGED <<dying, up, threads, streams, calls, inner, values>>

\* A program that drains has got every output when it calls Dispose.
DisposeBegin ==
    /\ owner = "idle" /\ initialized
    /\ Drains => submitted \subseteq done[2] /\ \A c \in Callers : half[c] = NoJob
    /\ dying' = TRUE
    /\ owner' = "join"
    /\ UNCHANGED <<initialized, up, threads, streams, calls, inner, values>>

\* Both joins have returned: the executors are disposed of only now.
DisposeEnd ==
    /\ owner = "join"
    /\ \A s \in Stages : pc[s] = "exited"
    /\ up' = FALSE
    /\ initialized' = FALSE
    /\ owner' = "idle"
    /\ pc' = [s \in Stages |-> "off"]
    /\ UNCHANGED <<dying, job, streams, calls, inner, values>>

\* The members go, with the promises they hold; no Compute is under way.
Drop ==
    /\ owner = "idle" /\ \A c \in Callers : half[c] = NoJob
    /\ owner' = "gone"
    /\ streams' = [s \in Stages |-> [c \in Callers |-> <<>>]]
    /\ inner' = [s \in Stages |-> {}]
    /\ UNCHANGED <<initialized, dying, up, threads, calls, values>>

\* Not the code: a destructor that does not call Dispose.
Destroy_NoDispose == Drop

Destroy == ~initialized /\ Drop

-----------------------------------------------------------------------------
(* The stages' threads: PerformFirstStage and PerformSecondStage.          *)

\* Not the code: while (true).
TestDying_Never(s) ==
    /\ pc[s] = "loop"
    /\ pc' = [pc EXCEPT ![s] = "pop"]
    /\ UNCHANGED <<life, job, streams, calls, inner, values>>

\* while (!this->dying), where the test after a failed pop comes as well.
TestDying(s) ==
    /\ pc[s] = "loop"
    /\ pc' = [pc EXCEPT ![s] = IF dying THEN "exited" ELSE "pop"]
    /\ UNCHANGED <<life, job, streams, calls, inner, values>>

\* try_pop finds the head of caller c's stream and leaves `rest` of it.
Take(s, c, rest) ==
    /\ pc[s] = "pop"
    /\ streams[s][c] # <<>>
    /\ job' = [job EXCEPT ![s] = Head(streams[s][c])]
    /\ streams' = [streams EXCEPT ![s][c] = rest]
    /\ pc' = [pc EXCEPT ![s] = "run"]
    /\ UNCHANGED <<life, calls, inner, values>>

\* Not the code: the job stays in the queue.
Pop_Peek(s) == \E c \in Callers : Take(s, c, streams[s][c])

Pop(s) == \E c \in Callers : Take(s, c, Tail(streams[s][c]))

PopFail(s) ==
    /\ pc[s] = "pop"
    /\ pc' = [pc EXCEPT ![s] = "loop"]
    /\ UNCHANGED <<life, job, streams, calls, inner, values>>

\* executor.Compute with a leaf: after future.get(), promise.set_value().
SetValue(s, held) ==
    /\ pc[s] = "run" /\ Kind[s] = "leaf"
    /\ Ready(s, job[s])
    /\ done' = [done EXCEPT ![s] = @ \union {job[s]}]
    /\ job' = [job EXCEPT ![s] = held]
    /\ pc' = [pc EXCEPT ![s] = "loop"]
    /\ UNCHANGED <<life, streams, calls, inner, supplied>>

Execute(s) == SetValue(s, NoJob)

\* executor.Compute with an asynchronous pattern takes the job and returns.
HandOver(s) ==
    /\ pc[s] = "run" /\ Kind[s] = "async"
    /\ inner' = [inner EXCEPT ![s] = @ \union {job[s]}]
    /\ job' = [job EXCEPT ![s] = NoJob]
    /\ pc' = [pc EXCEPT ![s] = "loop"]
    /\ UNCHANGED <<life, streams, calls, values>>

\* That pattern answers: Pattern!Answer of it.
InnerAnswer(s, j) ==
    /\ up
    /\ j \in inner[s] /\ Ready(s, j)
    /\ inner' = [inner EXCEPT ![s] = @ \ {j}]
    /\ done' = [done EXCEPT ![s] = @ \union {j}]
    /\ UNCHANGED <<life, threads, streams, calls, supplied>>

\* After the destructor nothing is left to run.
Terminated == owner = "gone" /\ UNCHANGED vars

-----------------------------------------------------------------------------
Stage(s) == TestDying(s) \/ Pop(s) \/ PopFail(s) \/ Execute(s) \/ HandOver(s)

Next ==
    \/ \E j \in Jobs : PushFirst(j) \/ Supply(j)
    \/ \E c \in Callers : PushSecond(c)
    \/ InitBegin \/ InitEnd \/ DisposeBegin \/ DisposeEnd \/ Destroy
    \/ \E s \in Stages : Spawn(s) \/ Stage(s) \/ \E j \in Jobs : InnerAnswer(s, j)
    \/ Terminated

Spec == Init /\ [][Next]_vars

(***************************************************************************)
(* The scheduler runs every thread; a Compute, Init or Dispose that was    *)
(* begun goes on; inputs come in the end; a pop that is tried again and    *)
(* again on a queue with jobs does not always fail.                        *)
(***************************************************************************)
Fairness ==
    /\ \A s \in Stages : WF_vars(Stage(s)) /\ WF_vars(Spawn(s)) /\ SF_vars(Pop(s))
    /\ \A s \in Stages, j \in Jobs : WF_vars(InnerAnswer(s, j))
    /\ \A c \in Callers : WF_vars(PushSecond(c))
    /\ WF_vars(InitEnd) /\ WF_vars(DisposeEnd)
    /\ \A j \in Jobs : WF_vars(Supply(j))

FairSpec == Spec /\ Fairness

-----------------------------------------------------------------------------
(* Properties.                                                             *)

\* Every variable keeps its shape, and a thread holds a job while it is in
\* executor.Compute and at no other time.
TypeOK ==
    /\ initialized \in BOOLEAN /\ dying \in BOOLEAN /\ up \in BOOLEAN
    /\ owner \in {"idle", "spawn", "join", "gone"}
    /\ pc \in [Stages -> {"off", "loop", "pop", "run", "exited"}]
    /\ job \in [Stages -> Jobs \union {NoJob}]
    /\ streams \in [Stages -> [Callers -> Seq(Jobs)]]
    /\ half \in [Callers -> Jobs \union {NoJob}]
    /\ submitted \subseteq Jobs /\ supplied \subseteq Jobs
    /\ inner \in [Stages -> SUBSET Jobs] /\ done \in [Stages -> SUBSET Jobs]
    /\ \A s \in Stages : pc[s] = "run" <=> job[s] # NoJob

\* The places of job j in stage s exclude each other, and hold all it was given.
OneHome(s, j) ==
    /\ j \in Pushed(s) <=>
        Queued(s, j) \/ job[s] = j \/ j \in inner[s] \/ j \in done[s] \/ j \in Broken(s)
    /\ Queued(s, j) => job[s] # j /\ j \notin inner[s] \union done[s] \union Broken(s)
    /\ job[s] = j => j \notin inner[s] \union done[s] \union Broken(s)
    /\ j \in inner[s] => j \notin done[s] \union Broken(s)

QueuedOnce ==
    \A s \in Stages, c, d \in Callers :
        \A m \in 1 .. Len(streams[s][c]), n \in 1 .. Len(streams[s][d]) :
            streams[s][c][m] = streams[s][d][n] => c = d /\ m = n

(***************************************************************************)
(* In each stage a job that was pushed is in exactly one place, although   *)
(* the two pushes of one Compute are two steps, and although Init, Dispose *)
(* and the destructor may come between them: no half of a job is lost and  *)
(* no promise is set twice.  Every variable keeps its type.                *)
(***************************************************************************)
OnePlace == TypeOK /\ (\A s \in Stages, j \in Jobs : OneHome(s, j)) /\ QueuedOnce

\* A thread is inside future.get() and the value is not there.
Waits(s) == pc[s] = "run" /\ Kind[s] = "leaf" /\ ~Ready(s, job[s])

(***************************************************************************)
(* The stages block each other (the first waits for the output of another  *)
(* job, the second for an intermediate value) only with jobs of two        *)
(* callers: a chain alone, in its caller's order, never does.  With two    *)
(* callers it happens: each stream is FIFO, the queue as a whole is not.   *)
(***************************************************************************)
NoSelfCycle ==
    Waits(1) /\ Dep[job[1]] # NoJob /\ Waits(2) => CallerOf[job[1]] # CallerOf[job[2]]

\* A program that drains: Dispose returns.
DisposeEnds == owner = "join" ~> owner = "idle"

\* The job whose answer, from the other stage, the thread of stage s waits for.
Awaited(s) == IF s = 1 THEN Dep[job[1]] ELSE job[2]

\* The other stage has left, with that job in its queue.
Stranded == \E s \in Stages : Waits(s) /\ pc[3 - s] = "exited" /\ Queued(3 - s, Awaited(s))

(***************************************************************************)
(* A program that does not drain, over leaves and with one caller: Dispose *)
(* returns, or hangs because one stage served its last job while the other *)
(* waits for it to serve one more.  The join then never returns.           *)
(***************************************************************************)
DisposeEndsOrStrands == owner = "join" ~> owner = "idle" \/ Stranded

-----------------------------------------------------------------------------
(* The pipeline implements a pattern.                                      *)

Abstract == INSTANCE Pattern WITH
    accepted <- submitted,
    ready <- {j \in Jobs : InputReady(j)},
    answered <- done[2],
    broken <- Broken(2),
    gone <- owner = "gone"

\* It answers what it accepted, once, with its input there, while it is up.
ImplementsPattern == Abstract!SafeSpec

\* While it stays up, it answers every job whose input is there.
AnswersAll == Abstract!Responsive

=============================================================================
