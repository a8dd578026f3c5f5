-------------------------------- MODULE Demo --------------------------------
(***************************************************************************)
(* CompositionalPerformanceAnalyzer.cpp: the program that comes with the   *)
(* patterns, pipeline(pipeline(increaser, taskpool(quicksort)), nopper),   *)
(* with all its threads and queues in one module.  The other modules       *)
(* replace a pattern inside another by what it promises; here that is      *)
(* checked: the outer and the inner pipeline implement Pipeline, each with *)
(* its inner pattern abstracted to an asynchronous one, and the pool       *)
(* implements Pattern.                                                     *)
(*                                                                         *)
(* main is sequential, so it is the sequence Program of its steps, those   *)
(* of the Init and Dispose that it calls included.                         *)
(***************************************************************************)
EXTENDS Integers, Sequences, FiniteSets, SequencesExt, TLC

CONSTANTS
    inputs,     \* the vectors, one per job
    Workers     \* the pool's threads, a sequence

Jobs == DOMAIN inputs
NoJob == 0
None == <<>>    \* the value of a promise that is not set

ASSUME DemoAssumption == \A j \in Jobs : inputs[j] # <<>>   \* asserted by Increaser

VARIABLES
    next,           \* the position in Program of main's next step
    initialized, dying,     \* the patterns whose flag is set
    pc, job,        \* where each thread is, and the job it holds
    queue,          \* per consumer
    value           \* per promise and job: what it was set to

vars == <<next, initialized, dying, pc, job, queue, value>>

Threads == {"o1", "o2", "i1", "i2"} \union ToSet(Workers)
Queues == {"o1", "o2", "i1", "i2", "pool"}

PatternOf(t) == CASE t \in {"o1", "o2"} -> "outer" [] t \in {"i1", "i2"} -> "inner" [] OTHER -> "pool"
QueueOf(t) == IF t \in ToSet(Workers) THEN "pool" ELSE t

-----------------------------------------------------------------------------
(* The algorithms, and the promises their values go from and to.           *)

Increaser(vector) == [i \in DOMAIN vector |-> vector[i] + 10]

Nopper(vector) == vector

QuickSorter(vector) == SortSeq(vector, <)

\* The promise that a thread's algorithm reads: the program's, the inner pipeline's
\* intermediate one, the outer pipeline's; and the one it sets.
Source(t) == CASE t = "i1" -> "input" [] t = "o2" -> "sorted" [] OTHER -> "increased"
Target(t) == CASE t = "i1" -> "increased" [] t = "o2" -> "output" [] OTHER -> "sorted"

Algorithm(t, vector) ==
    CASE t = "i1" -> Increaser(vector) [] t = "o2" -> Nopper(vector) [] OTHER -> QuickSorter(vector)

-----------------------------------------------------------------------------
(* main.  Init comes up inside out, Dispose joins outside in.              *)

Each(names, step) == [i \in DOMAIN names |-> <<step, names[i]>>]
Calls == FlattenSeq([j \in Jobs |-> <<<<"push", "o1", j>>, <<"push", "o2", j>>>>])

InitSteps ==
    Each(<<"outer", "inner", "pool">>, "begin")
    \o Each(Workers, "spawn") \o <<<<"up", "pool">>>>
    \o Each(<<"i1", "i2">>, "spawn") \o <<<<"up", "inner">>>>
    \o Each(<<"o1", "o2">>, "spawn") \o <<<<"up", "outer">>>>

DisposeSteps ==
    <<<<"die", "outer">>>> \o Each(<<"o1", "o2">>, "join")
    \o <<<<"die", "inner">>>> \o Each(<<"i1", "i2">>, "join")
    \o <<<<"die", "pool">>>> \o Each(Workers, "join")
    \o Each(<<"pool", "inner", "outer">>, "down")

\* Not the code: does not get the outputs.
Gets_None == <<>>

Gets == [j \in Jobs |-> <<"get", j>>]

Program ==
    [j \in Jobs |-> <<"supply", j>>] \o InitSteps \o Calls \o Gets \o DisposeSteps
    \o <<<<"destroy">>>>

Step == IF next > Len(Program) THEN <<"finished">> ELSE Program[next]
At(kind) == Step[1] = kind /\ next' = next + 1

Position(step) == CHOOSE i \in DOMAIN Program : Program[i] = step
Past(step) == next > Position(step)

Init ==
    /\ next = 1
    /\ initialized = {} /\ dying = {}
    /\ pc = [t \in Threads |-> "off"] /\ job = [t \in Threads |-> NoJob]
    /\ queue = [q \in Queues |-> <<>>]
    /\ value = [p \in {"input", "increased", "sorted", "output"} |-> [j \in Jobs |-> None]]

Supply ==
    /\ At("supply")
    /\ value' = [value EXCEPT !["input"][Step[2]] = inputs[Step[2]]]
    /\ UNCHANGED <<initialized, dying, pc, job, queue>>

Begin ==
    /\ At("begin")
    /\ dying' = dying \ {Step[2]}
    /\ UNCHANGED <<initialized, pc, job, queue, value>>

Spawn ==
    /\ At("spawn")
    /\ pc' = [pc EXCEPT ![Step[2]] = "loop"]
    /\ UNCHANGED <<initialized, dying, job, queue, value>>

InitEnd ==
    /\ At("up")
    /\ initialized' = initialized \union {Step[2]}
    /\ UNCHANGED <<dying, pc, job, queue, value>>

\* Compute is two pushes.
Push ==
    /\ At("push")
    /\ queue' = [queue EXCEPT ![Step[2]] = Append(@, Step[3])]
    /\ UNCHANGED <<initialized, dying, pc, job, value>>

Get ==
    /\ At("get")
    /\ value["output"][Step[2]] # None
    /\ UNCHANGED <<initialized, dying, pc, job, queue, value>>

Die ==
    /\ At("die")
    /\ dying' = dying \union {Step[2]}
    /\ UNCHANGED <<initialized, pc, job, queue, value>>

Join ==
    /\ At("join")
    /\ pc[Step[2]] = "exited"
    /\ UNCHANGED <<initialized, dying, pc, job, queue, value>>

Down ==
    /\ At("down")
    /\ initialized' = initialized \ {Step[2]}
    /\ pc' = [t \in Threads |-> IF PatternOf(t) = Step[2] THEN "off" ELSE pc[t]]
    /\ UNCHANGED <<dying, job, queue, value>>

\* The last pointers go, and the queues with them.
Destroy ==
    /\ At("destroy")
    /\ queue' = [q \in Queues |-> <<>>]
    /\ UNCHANGED <<initialized, dying, pc, job, value>>

-----------------------------------------------------------------------------
(* The threads.                                                            *)

Goto(t, l) == pc' = [pc EXCEPT ![t] = l]

TestDying(t) ==
    /\ pc[t] = "loop"
    /\ Goto(t, IF PatternOf(t) \in dying THEN "exited" ELSE "pop")
    /\ UNCHANGED <<next, initialized, dying, job, queue, value>>

Pop(t) ==
    LET q == QueueOf(t)
    IN  /\ pc[t] = "pop" /\ queue[q] # <<>>
        /\ job' = [job EXCEPT ![t] = Head(queue[q])]
        /\ queue' = [queue EXCEPT ![q] = Tail(@)]
        /\ Goto(t, "run")
        /\ UNCHANGED <<next, initialized, dying, value>>

PopFail(t) ==
    /\ pc[t] = "pop"
    /\ Goto(t, "loop")
    /\ UNCHANGED <<next, initialized, dying, job, queue, value>>

\* A wrapper: get, compute, set_value.
Execute(t) ==
    /\ pc[t] = "run" /\ t \notin {"o1", "i2"}
    /\ value[Source(t)][job[t]] # None
    /\ value' = [value EXCEPT ![Target(t)][job[t]] = Algorithm(t, value[Source(t)][job[t]])]
    /\ job' = [job EXCEPT ![t] = NoJob]
    /\ Goto(t, "loop")
    /\ UNCHANGED <<next, initialized, dying, queue>>

\* The inner pipeline's InternallyCompute, its two pushes, in the outer stage's thread.
PushFirst ==
    /\ pc["o1"] = "run"
    /\ queue' = [queue EXCEPT !["i1"] = Append(@, job["o1"])]
    /\ Goto("o1", "second")
    /\ UNCHANGED <<next, initialized, dying, job, value>>

\* The last push of a call on queue q: the thread lets the job go.
Deliver(t, at, q) ==
    /\ pc[t] = at
    /\ queue' = [queue EXCEPT ![q] = Append(@, job[t])]
    /\ job' = [job EXCEPT ![t] = NoJob]
    /\ Goto(t, "loop")
    /\ UNCHANGED <<next, initialized, dying, value>>

\* Not the code: the job goes straight to the second stage's pattern.
PushSecond_Skips == Deliver("o1", "second", "pool")

PushSecond == Deliver("o1", "second", "i2")

\* The pool's InternallyCompute.
PushPool == Deliver("i2", "run", "pool")

Main ==
    \/ Supply \/ Begin \/ Spawn \/ InitEnd \/ Push \/ Get \/ Die \/ Join \/ Down \/ Destroy

Thread(t) == TestDying(t) \/ Pop(t) \/ PopFail(t) \/ Execute(t)

Finished == Step[1] = "finished" /\ UNCHANGED vars

Next == Main \/ (\E t \in Threads : Thread(t)) \/ PushFirst \/ PushSecond \/ PushPool \/ Finished

Spec == Init /\ [][Next]_vars

\* Threads run, and a pop that is tried again and again finds what is there.
Fairness ==
    /\ WF_vars(Main) /\ WF_vars(PushFirst) /\ WF_vars(PushSecond) /\ WF_vars(PushPool)
    /\ \A t \in Threads : WF_vars(Thread(t)) /\ SF_vars(Pop(t))

FairSpec == Spec /\ Fairness

-----------------------------------------------------------------------------
\* The output of a job is its own input, sorted and increased, whichever
\* threads serve it and in whatever order the pool finishes the jobs.
Right ==
    \A j \in Jobs : value["output"][j] # None =>
        value["output"][j] = SortSeq([i \in DOMAIN inputs[j] |-> inputs[j][i] + 10], <)

\* The threads' Dispose leaves jobs in the queues, and waits for ever if a thread waits
\* for one: main has got every output first, so there is none in a queue or a thread.
NothingLeft ==
    Past(<<"die", "outer">>) =>
        /\ \A q \in Queues : queue[q] = <<>>
        /\ \A t \in Threads : job[t] = NoJob

\* main gets the right outputs, disposes when nothing is left, and returns.
Returns == [](Right /\ NothingLeft) /\ <>(Step[1] = "finished")

-----------------------------------------------------------------------------
(* Each pattern implements its own module.                                 *)

OwnerOf(p) ==
    CASE Step[1] = "finished" -> "gone"
      [] Past(<<"down", p>>) \/ ~Past(<<"begin", p>>) -> "idle"
      [] Past(<<"die", p>>) -> "join"
      [] Past(<<"up", p>>) -> "idle"
      [] OTHER -> "spawn"

IsUp(p) == Past(<<"begin", p>>) /\ ~Past(<<"down", p>>)

Set(p) == {j \in Jobs : value[p][j] # None}
Holds(threads, queues) ==
    {j \in Jobs : \E q \in queues : j \in ToSet(queue[q])} \union ({job[t] : t \in threads} \ {NoJob})

PC(t) == IF pc[t] = "second" THEN "run" ELSE pc[t]

Outer == INSTANCE Pipeline WITH
    Callers <- {"main"}, NoJob <- NoJob,
    CallerOf <- [j \in Jobs |-> "main"], Dep <- [j \in Jobs |-> NoJob],
    Kind <- <<"async", "leaf">>, Drains <- TRUE,
    initialized <- "outer" \in initialized, dying <- "outer" \in dying,
    up <- IsUp("outer"), owner <- OwnerOf("outer"),
    pc <- <<PC("o1"), PC("o2")>>, job <- <<job["o1"], job["o2"]>>,
    streams <- [s \in {1, 2} |-> [c \in {"main"} |-> queue[<<"o1", "o2">>[s]]]],
    half <- [c \in {"main"} |->
                IF Step[1] = "push" /\ Step[2] = "o2" THEN Step[3] ELSE NoJob],
    submitted <- {j \in Jobs : Past(<<"push", "o2", j>>)},
    inner <- <<Holds({"i2"} \union ToSet(Workers), {"i2", "pool"}), {}>>,
    supplied <- Set("input"), done <- <<Set("sorted"), Set("output")>>

Inner == INSTANCE Pipeline WITH
    Callers <- {"o1"}, NoJob <- NoJob,
    CallerOf <- [j \in Jobs |-> "o1"], Dep <- [j \in Jobs |-> NoJob],
    Kind <- <<"leaf", "async">>, Drains <- TRUE,
    initialized <- "inner" \in initialized, dying <- "inner" \in dying,
    up <- IsUp("inner"), owner <- OwnerOf("inner"),
    pc <- <<PC("i1"), PC("i2")>>, job <- <<job["i1"], job["i2"]>>,
    streams <- [s \in {1, 2} |-> [c \in {"o1"} |-> queue[<<"i1", "i2">>[s]]]],
    half <- [c \in {"o1"} |-> IF pc["o1"] = "second" THEN job["o1"] ELSE NoJob],
    submitted <- Holds({"i2"} \union ToSet(Workers), {"i2", "pool"}) \union Set("sorted"),
    inner <- <<{}, Holds(ToSet(Workers), {"pool"})>>,
    supplied <- Set("input"), done <- <<Set("increased"), Set("sorted")>>

Pool == INSTANCE Pattern WITH
    up <- IsUp("pool"),
    accepted <- Holds(ToSet(Workers), {"pool"}) \union Set("sorted"),
    ready <- Set("increased"), answered <- Set("sorted"),
    broken <- {}, gone <- Step[1] = "finished"

ImplementsOuter == Outer!Spec
ImplementsInner == Inner!Spec
ImplementsPool == Pool!SafeSpec

\* So the modules of the patterns may replace an inner pattern by what it promises.
ImplementsAll == ImplementsOuter /\ ImplementsInner /\ ImplementsPool
=============================================================================
