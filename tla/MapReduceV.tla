----------------------------- MODULE MapReduceV -----------------------------
(***************************************************************************)
(* pattern/MapReduce.hpp: MapReduceLocalV on one node (mpi_nodes = 1,      *)
(* where ReduceAtEnd returns at once).                                     *)
(*                                                                         *)
(* A call of InternallyCompute runs in its caller's thread, which it       *)
(* blocks.  It pushes a map task for every input and keeps the futures in  *)
(* the vector `outputs`; then it goes through that vector two futures at a *)
(* time, waits for both, pushes a reduce task for the pair and appends the *)
(* future of its result to the vector, until one is left: the reduction    *)
(* tree is the order of the vector.  The pattern's threads look for a map  *)
(* and then for a reduce task, and wait for nothing but inputs.            *)
(*                                                                         *)
(* The queues are as in MapReduceH, mapper and reducer AlgorithmWrappers.  *)
(* A map result is the sequence of the inputs it was made of.              *)
(***************************************************************************)
EXTENDS Integers, Sequences, FiniteSets

CONSTANTS
    Calls,      \* the calls of InternallyCompute, each in a thread of its own
    Inputs,     \* the inputs of all calls
    InputsOf,   \* the vector of inputs of each call
    Workers,    \* the pattern's threads
    NoTask,     \* no task
    Drains      \* whether the program disposes only with no call under way

\* A map task sets the future of one input, a reduce task one behind those.
MapTasks ==
    {t \in [call : Calls, slot : Nat, input : Inputs] : t.slot \in 1 .. Len(InputsOf[t.call])}

ReduceTasks ==
    {t \in [call : Calls, slot : Nat, first : Seq(Inputs), second : Seq(Inputs)] :
        t.slot \in Len(InputsOf[t.call]) + 1 .. 2 * Len(InputsOf[t.call]) - 1}

\* InternallyCompute has no defined behaviour for an empty vector: the bound
\* inputs.size() - 1 wraps, and outputs[0] does not exist.
ASSUME MapReduceVAssumption ==
    /\ Workers # {} /\ IsFiniteSet(Workers)
    /\ Calls # {} /\ IsFiniteSet(Calls)
    /\ InputsOf \in [Calls -> Seq(Inputs) \ {<<>>}]
    /\ NoTask \notin MapTasks \union ReduceTasks
    /\ Drains \in BOOLEAN

\* supplied holds calls and inputs; a std::future is in the vector of one call.
ASSUME FuturesAssumption ==
    /\ Calls \intersect Inputs = {}
    /\ \A c, d \in Calls : \A m \in 1 .. Len(InputsOf[c]), n \in 1 .. Len(InputsOf[d]) :
        InputsOf[c][m] = InputsOf[d][n] => c = d

VARIABLES
    initialized, dying, up, owner,  \* as in TaskPool
    pc, task,                   \* where each thread is, and its task
    at, next,                   \* where each call is, and its loop variable
    outputs,                    \* per call, the values the vector's futures have or will have
    map_queue, reduce_queue,    \* one stream per call
    supplied                    \* the calls and inputs whose futures are ready

life    == <<initialized, dying, up, owner>>
threads == <<pc, task>>
calls   == <<at, next>>
queues  == <<map_queue, reduce_queue>>
vars    == <<life, threads, calls, outputs, queues, supplied>>

\* A future in `outputs` that has no value yet.
Unset == <<>>

Empty == [c \in Calls |-> <<>>]

Init ==
    /\ initialized = FALSE /\ dying = FALSE /\ up = FALSE /\ owner = "idle"
    /\ pc = [w \in Workers |-> "off"] /\ task = [w \in Workers |-> NoTask]
    /\ at = [c \in Calls |-> "idle"] /\ next = [c \in Calls |-> 1]
    /\ outputs = Empty /\ map_queue = Empty /\ reduce_queue = Empty
    /\ supplied = {}

-----------------------------------------------------------------------------
(* A call: InternallyCompute.  Its vectors are numbered from 1 here.       *)

\* The caller enters future.get().
Begin(c) ==
    /\ at[c] = "idle" /\ owner # "gone" /\ (Drains => owner # "join")
    /\ at' = [at EXCEPT ![c] = "get"]
    /\ UNCHANGED <<life, threads, next, outputs, queues, supplied>>

GetInputs(c) ==
    /\ at[c] = "get" /\ c \in supplied
    /\ at' = [at EXCEPT ![c] = "map"]
    /\ UNCHANGED <<life, threads, next, outputs, queues, supplied>>

\* The map task of the next input; the last one leads to the reduction, whose
\* loop is not entered with one input.
PushMap(c) ==
    LET n == next[c]  last == n = Len(InputsOf[c]) IN
    /\ at[c] = "map"
    /\ outputs' = [outputs EXCEPT ![c] = Append(@, Unset)]
    /\ map_queue' = [map_queue EXCEPT ![c] = Append(@, [call |-> c, slot |-> n, input |-> InputsOf[c][n]])]
    /\ next' = [next EXCEPT ![c] = IF last THEN 1 ELSE n + 1]
    /\ at' = [at EXCEPT ![c] = IF ~last THEN "map" ELSE IF n = 1 THEN "last" ELSE "pair"]
    /\ UNCHANGED <<life, threads, reduce_queue, supplied>>

\* One turn of the loop: both first_f.get() and second_f.get() have returned, and the pair
\* goes on the queue.  The vector grows by a future at each of inputs.size() - 1 turns.
PushReduce(c) ==
    LET slot == Len(outputs[c]) + 1
        first == 2 * next[c] - 1
        second == 2 * next[c] IN
    /\ at[c] = "pair"
    /\ outputs[c][first] # Unset /\ outputs[c][second] # Unset
    /\ outputs' = [outputs EXCEPT ![c] = Append(@, Unset)]
    /\ reduce_queue' = [reduce_queue EXCEPT ![c] = Append(@,
            [call |-> c, slot |-> slot, first |-> outputs[c][first], second |-> outputs[c][second]])]
    /\ next' = [next EXCEPT ![c] = @ + 1]
    /\ at' = [at EXCEPT ![c] = IF next[c] < Len(InputsOf[c]) - 1 THEN "pair" ELSE "last"]
    /\ UNCHANGED <<life, threads, map_queue, supplied>>

\* The last future of the vector is the result: promise.set_value().
Collect(c) ==
    /\ at[c] = "last"
    /\ outputs[c][Len(outputs[c])] # Unset
    /\ at' = [at EXCEPT ![c] = "done"]
    /\ UNCHANGED <<life, threads, next, outputs, queues, supplied>>

\* Someone sets the promise of a call's vector, or of an input in it.
Supply(x) ==
    /\ x \notin supplied
    /\ supplied' = supplied \union {x}
    /\ UNCHANGED <<life, threads, calls, outputs, queues>>

-----------------------------------------------------------------------------
(* The owner: Init, Dispose and the destructor.                            *)

InitBegin ==
    /\ owner = "idle" /\ ~initialized
    /\ dying' = FALSE /\ up' = TRUE /\ owner' = "spawn"
    /\ UNCHANGED <<initialized, threads, calls, outputs, queues, supplied>>

Spawn(w) ==
    /\ owner = "spawn" /\ pc[w] = "off"
    /\ pc' = [pc EXCEPT ![w] = "loop"]
    /\ UNCHANGED <<life, task, calls, outputs, queues, supplied>>

InitEnd ==
    /\ owner = "spawn" /\ \A w \in Workers : pc[w] # "off"
    /\ initialized' = TRUE /\ owner' = "idle"
    /\ UNCHANGED <<dying, up, threads, calls, outputs, queues, supplied>>

Resting == \A c \in Calls : at[c] \in {"idle", "done"}

DisposeBegin ==
    /\ owner = "idle" /\ initialized /\ (Drains => Resting)
    /\ dying' = TRUE /\ owner' = "join"
    /\ UNCHANGED <<initialized, up, threads, calls, outputs, queues, supplied>>

\* Every thread has left; the queues are left as they are.
DisposeEnd ==
    /\ owner = "join" /\ \A w \in Workers : pc[w] = "exited"
    /\ up' = FALSE /\ initialized' = FALSE /\ owner' = "idle"
    /\ pc' = [w \in Workers |-> "off"]
    /\ UNCHANGED <<dying, task, calls, outputs, queues, supplied>>

\* No call is under way: its thread would be left without its object.
Destroy ==
    /\ owner = "idle" /\ ~initialized /\ Resting
    /\ owner' = "gone"
    /\ UNCHANGED <<initialized, dying, up, threads, calls, outputs, queues, supplied>>

-----------------------------------------------------------------------------
(* A thread: Perform and the two functions it tries in turn.               *)

Goes(w, where) == pc' = [pc EXCEPT ![w] = where]

\* Not the code: while (true).
TestDying_Never(w) ==
    /\ pc[w] = "loop"
    /\ Goes(w, "map")
    /\ UNCHANGED <<life, task, calls, outputs, queues, supplied>>

TestDying(w) ==
    /\ pc[w] = "loop"
    /\ Goes(w, IF dying THEN "exited" ELSE "map")
    /\ UNCHANGED <<life, task, calls, outputs, queues, supplied>>

\* A try_pop that fails leads to the next function, the last one to the loop.
PopFail(w) ==
    /\ pc[w] \in {"map", "reduce"}
    /\ Goes(w, IF pc[w] = "map" THEN "reduce" ELSE "loop")
    /\ UNCHANGED <<life, task, calls, outputs, queues, supplied>>

PopMap(w) ==
    /\ pc[w] = "map"
    /\ \E c \in Calls :
        /\ map_queue[c] # <<>>
        /\ task' = [task EXCEPT ![w] = Head(map_queue[c])]
        /\ map_queue' = [map_queue EXCEPT ![c] = Tail(@)]
    /\ Goes(w, "mapping")
    /\ UNCHANGED <<life, calls, outputs, reduce_queue, supplied>>

\* The head of call c's reduce stream, of which `rest` is left.
TakeReduce(w, c, rest) ==
    /\ pc[w] = "reduce"
    /\ reduce_queue[c] # <<>>
    /\ task' = [task EXCEPT ![w] = Head(reduce_queue[c])]
    /\ reduce_queue' = [reduce_queue EXCEPT ![c] = rest]
    /\ Goes(w, "reducing")
    /\ UNCHANGED <<life, calls, outputs, map_queue, supplied>>

\* Not the code: the task stays in the queue.
PopReduce_Peek(w) == \E c \in Calls : TakeReduce(w, c, reduce_queue[c])

PopReduce(w) == \E c \in Calls : TakeReduce(w, c, Tail(reduce_queue[c]))

\* The promise of the thread's task gets `value`.
SetOutput(w, value) ==
    /\ outputs' = [outputs EXCEPT ![task[w].call][task[w].slot] = value]
    /\ task' = [task EXCEPT ![w] = NoTask]
    /\ Goes(w, "loop")
    /\ UNCHANGED <<life, calls, queues, supplied>>

\* Not the code: a mapper that does not wait for its input.
Map_NoGet(w) == pc[w] = "mapping" /\ SetOutput(w, <<task[w].input>>)

\* mapper.Compute waits for the input.
Map(w) ==
    /\ pc[w] = "mapping" /\ task[w].input \in supplied
    /\ SetOutput(w, <<task[w].input>>)

\* reducer.Compute has both its inputs in the task.
Reduce(w) ==
    /\ pc[w] = "reducing"
    /\ SetOutput(w, task[w].first \o task[w].second)

\* After the destructor nothing is left to run.
Terminated == owner = "gone" /\ UNCHANGED vars

-----------------------------------------------------------------------------
Worker(w) ==
    TestDying(w) \/ PopFail(w) \/ PopMap(w) \/ PopReduce(w) \/ Map(w) \/ Reduce(w)

InCall(c) == GetInputs(c) \/ PushMap(c) \/ PushReduce(c) \/ Collect(c)

Next ==
    \/ \E c \in Calls : Begin(c) \/ InCall(c)
    \/ \E x \in Calls \union Inputs : Supply(x)
    \/ InitBegin \/ InitEnd \/ DisposeBegin \/ DisposeEnd \/ Destroy
    \/ \E w \in Workers : Spawn(w) \/ Worker(w)
    \/ Terminated

Spec == Init /\ [][Next]_vars

\* As in MapReduceH.
Fairness ==
    /\ \A w \in Workers : WF_vars(Worker(w)) /\ WF_vars(Spawn(w))
    /\ SF_vars(\E w \in Workers : PopMap(w))
    /\ SF_vars(\E w \in Workers : PopReduce(w))
    /\ \A c \in Calls : WF_vars(InCall(c))
    /\ \A x \in Calls \union Inputs : WF_vars(Supply(x))
    /\ WF_vars(InitEnd) /\ WF_vars(DisposeEnd)

FairSpec == Spec /\ Fairness

-----------------------------------------------------------------------------
(* Properties.                                                             *)

Slots(c) == 1 .. 2 * Len(InputsOf[c]) - 1

\* Every variable keeps its shape, and no vector of futures outgrows its tree.
TypeOK ==
    /\ initialized \in BOOLEAN /\ dying \in BOOLEAN /\ up \in BOOLEAN
    /\ owner \in {"idle", "spawn", "join", "gone"}
    /\ pc \in [Workers -> {"off", "loop", "map", "reduce", "mapping", "reducing", "exited"}]
    /\ \A w \in Workers :
        /\ pc[w] = "mapping" <=> task[w] \in MapTasks
        /\ pc[w] \notin {"mapping", "reducing"} <=> task[w] = NoTask
    /\ at \in [Calls -> {"idle", "get", "map", "pair", "last", "done"}]
    /\ \A c \in Calls :
        /\ next[c] \in 1 .. Len(InputsOf[c])
        /\ DOMAIN outputs[c] \subseteq Slots(c)
        /\ map_queue[c] \in Seq(MapTasks)
    /\ supplied \subseteq Calls \union Inputs

InRange(seq) == {seq[n] : n \in DOMAIN seq}

\* The tasks for slot n of call c that are queued or in a thread's hands.
Pending(c, n) ==
    {t \in InRange(map_queue[c]) \union InRange(reduce_queue[c]) : t.slot = n}

Holders(c, n) ==
    {w \in Workers : pc[w] \in {"mapping", "reducing"} /\ task[w].call = c /\ task[w].slot = n}

(***************************************************************************)
(* Every future in a call's vector has its value, or exactly one task that *)
(* will set it, queued or in the hands of one thread: the call never waits *)
(* for a result nobody will compute, whenever Dispose and Init come, and   *)
(* no promise is set twice.  Every variable keeps its type.                *)
(***************************************************************************)
OutputsComing ==
    /\ TypeOK
    /\ \A c \in Calls : \A n \in DOMAIN outputs[c] :
        Cardinality(Pending(c, n)) + Cardinality(Holders(c, n)) =
            IF outputs[c][n] = Unset THEN 1 ELSE 0

Times(seq, x) == Cardinality({n \in DOMAIN seq : seq[n] = x})

(***************************************************************************)
(* The result is made of every input of the call, each as often as the     *)
(* vector of inputs has it: the running index neither leaves a partial     *)
(* result out of the tree nor puts one in twice.                           *)
(***************************************************************************)
Complete ==
    \A c \in Calls : at[c] = "done" =>
        LET result == outputs[c][Len(outputs[c])]
        IN  \A i \in Inputs : Times(result, i) = Times(InputsOf[c], i)

(***************************************************************************)
(* Dispose returns, whether the program drains or not: no thread waits for *)
(* a task of another, which might be left unserved.                        *)
(***************************************************************************)
DisposeEnds == owner = "join" ~> owner = "idle"

-----------------------------------------------------------------------------
(* With Drains it implements a pattern, with any number of threads.        *)

Abstract == INSTANCE Pattern WITH
    Jobs <- Calls,
    accepted <- {c \in Calls : at[c] # "idle"},
    ready <- {c \in Calls : {c} \union InRange(InputsOf[c]) \subseteq supplied},
    answered <- {c \in Calls : at[c] = "done"},
    broken <- {},
    gone <- owner = "gone"

\* It answers a call once, with all its inputs there, while it is up.
ImplementsPattern == Abstract!SafeSpec

\* While it stays up, it answers every call whose inputs are there.
AnswersAll == Abstract!Responsive

=============================================================================
