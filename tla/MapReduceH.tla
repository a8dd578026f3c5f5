----------------------------- MODULE MapReduceH -----------------------------
(***************************************************************************)
(* pattern/MapReduce.hpp: MapReduceLocalH, and MapReduceGlobalH, on one    *)
(* node (mpi_nodes = 1, where ShuffleNodes and ReduceAtEnd return at       *)
(* once).  The two differ in what get() moves the values into, a vector or *)
(* a map, and both have an entry for each of the keys 0 .. pre_size - 1.   *)
(*                                                                         *)
(* A call of InternallyCompute runs in its caller's thread, which it       *)
(* blocks: it pushes a map and a shuffle task for every input, waits for   *)
(* the shuffles, pushes a reduce task for every key and waits for those.   *)
(* The pattern's threads look for a map, then a shuffle, then a reduce     *)
(* task; a shuffle waits for the result of its map.  The keyed collection  *)
(* the shuffles add to is a local variable of the call.                    *)
(*                                                                         *)
(* The three queues are as in TaskPool: one FIFO stream per pushing thread *)
(* (here one per call), a pop takes the head of any and may fail           *)
(* spuriously.  Mapper and reducer are AlgorithmWrappers.                  *)
(***************************************************************************)
EXTENDS Integers, Sequences, FiniteSets

CONSTANTS
    Calls,      \* the calls of InternallyCompute, each in a thread of its own
    Inputs,     \* the inputs of all calls
    InputsOf,   \* the vector of inputs of each call
    CallOf,     \* the call each input belongs to
    KeyCount,   \* pre_size, 768 in the code
    Emits,      \* the keys in the map that the mapper makes of each input
    Workers,    \* the pattern's threads
    NoTask,     \* no input and no key
    Drains      \* whether the program disposes only with no call under way

Keys == 0 .. KeyCount - 1

ASSUME MapReduceAssumption ==
    /\ Workers # {} /\ IsFiniteSet(Workers)
    /\ IsFiniteSet(Inputs)
    /\ KeyCount \in Nat \ {0}
    /\ NoTask \notin Inputs \union (Calls \X Keys)
    /\ Calls \intersect Inputs = {}    \* supplied holds both
    /\ InputsOf \in [Calls -> Seq(Inputs)]
    /\ CallOf \in [Inputs -> Calls]
    /\ Emits \in [Inputs -> SUBSET Keys]
    /\ Drains \in BOOLEAN

\* Every input is at one position of the vector of its call.
ASSUME InputsAssumption ==
    \A i \in Inputs, c \in Calls :
        Cardinality({n \in 1 .. Len(InputsOf[c]) : InputsOf[c][n] = i}) =
            IF c = CallOf[i] THEN 1 ELSE 0

VARIABLES
    initialized, dying, up, owner,  \* as in TaskPool
    pc, task, left,     \* where each thread is, its task, the keys it has still to add
    at, next,           \* where each call is, and the input or key it pushes next
    map_queue, shuffle_queue, reduce_queue,     \* one stream per call
    values,             \* the values in the keyed collection of each call
    supplied,           \* the calls and inputs whose futures are ready
    mapped, shuffled, reduced   \* the tasks whose promise is set

life    == <<initialized, dying, up, owner>>
threads == <<pc, task, left>>
calls   == <<at, next>>
queues  == <<map_queue, shuffle_queue, reduce_queue>>
ended   == <<mapped, shuffled, reduced>>
vars    == <<life, threads, calls, queues, values, supplied, ended>>

Vec(c) == {InputsOf[c][n] : n \in 1 .. Len(InputsOf[c])}

Empty == [c \in Calls |-> <<>>]

Init ==
    /\ initialized = FALSE /\ dying = FALSE /\ up = FALSE /\ owner = "idle"
    /\ pc = [w \in Workers |-> "off"] /\ task = [w \in Workers |-> NoTask]
    /\ left = [w \in Workers |-> {}]
    /\ at = [c \in Calls |-> "idle"] /\ next = [c \in Calls |-> 1]
    /\ map_queue = Empty /\ shuffle_queue = Empty /\ reduce_queue = Empty
    /\ values = [c \in Calls |-> [k \in Keys |-> <<>>]]
    /\ supplied = {} /\ mapped = {} /\ shuffled = {} /\ reduced = {}

-----------------------------------------------------------------------------
(* A call: InternallyCompute.                                              *)

\* The caller enters future.get().
Begin(c) ==
    /\ at[c] = "idle" /\ owner # "gone" /\ (Drains => owner # "join")
    /\ at' = [at EXCEPT ![c] = "get"]
    /\ UNCHANGED <<life, threads, next, queues, values, supplied, ended>>

\* It has the vector of inputs; an empty one goes to the reduction at once.
GetInputs(c) ==
    /\ at[c] = "get" /\ c \in supplied
    /\ at' = [at EXCEPT ![c] = IF InputsOf[c] = <<>> THEN "await" ELSE "map"]
    /\ UNCHANGED <<life, threads, next, queues, values, supplied, ended>>

\* Not the code: the two pushes swapped.
PushMap_Swapped(c) ==
    /\ at[c] = "map"
    /\ shuffle_queue' = [shuffle_queue EXCEPT ![c] = Append(@, InputsOf[c][next[c]])]
    /\ at' = [at EXCEPT ![c] = "shuffle"]
    /\ UNCHANGED <<life, threads, next, map_queue, reduce_queue, values, supplied, ended>>

PushMap(c) ==
    /\ at[c] = "map"
    /\ map_queue' = [map_queue EXCEPT ![c] = Append(@, InputsOf[c][next[c]])]
    /\ at' = [at EXCEPT ![c] = "shuffle"]
    /\ UNCHANGED <<life, threads, next, shuffle_queue, reduce_queue, values, supplied, ended>>

\* The other push, and the end of one turn of the loop.
PushShuffle(c) ==
    /\ at[c] = "shuffle"
    /\ shuffle_queue' = [shuffle_queue EXCEPT ![c] = Append(@, InputsOf[c][next[c]])]
    /\ at' = [at EXCEPT ![c] = IF next[c] < Len(InputsOf[c]) THEN "map" ELSE "await"]
    /\ next' = [next EXCEPT ![c] = @ + 1]
    /\ UNCHANGED <<life, threads, map_queue, reduce_queue, values, supplied, ended>>

\* The call goes on to the reduction, as soon as the tasks `awaited` are over.
StartReduce(c, awaited) ==
    /\ at[c] = "await"
    /\ awaited
    /\ at' = [at EXCEPT ![c] = "reduce"]
    /\ next' = [next EXCEPT ![c] = 0]
    /\ UNCHANGED <<life, threads, queues, values, supplied, ended>>

\* Not the code: waits for the last shuffle only.
Await_LastOnly(c) ==
    StartReduce(c, InputsOf[c] = <<>> \/ InputsOf[c][Len(InputsOf[c])] \in shuffled)

\* Every fut.get() has returned; tskc.get moves the values, with no lock.
Await(c) == StartReduce(c, Vec(c) \subseteq shuffled)

\* A push on reduce_queue of the next key.
PushReduce(c) ==
    /\ at[c] = "reduce"
    /\ reduce_queue' = [reduce_queue EXCEPT ![c] = Append(@, next[c])]
    /\ at' = [at EXCEPT ![c] = IF next[c] < KeyCount - 1 THEN "reduce" ELSE "collect"]
    /\ next' = [next EXCEPT ![c] = @ + 1]
    /\ UNCHANGED <<life, threads, map_queue, shuffle_queue, values, supplied, ended>>

\* Every result has come; promise.set_value() and the end of the call.
Collect(c) ==
    /\ at[c] = "collect"
    /\ {c} \X Keys \subseteq reduced
    /\ at' = [at EXCEPT ![c] = "done"]
    /\ UNCHANGED <<life, threads, next, queues, values, supplied, ended>>

\* Someone sets the promise of a call's vector, or of an input in it.
Supply(x) ==
    /\ x \notin supplied
    /\ supplied' = supplied \union {x}
    /\ UNCHANGED <<life, threads, calls, queues, values, ended>>

-----------------------------------------------------------------------------
(* The owner: Init, Dispose and the destructor.                            *)

InitBegin ==
    /\ owner = "idle" /\ ~initialized
    /\ dying' = FALSE /\ up' = TRUE /\ owner' = "spawn"
    /\ UNCHANGED <<initialized, threads, calls, queues, values, supplied, ended>>

Spawn(w) ==
    /\ owner = "spawn" /\ pc[w] = "off"
    /\ pc' = [pc EXCEPT ![w] = "loop"]
    /\ UNCHANGED <<life, task, left, calls, queues, values, supplied, ended>>

InitEnd ==
    /\ owner = "spawn" /\ \A w \in Workers : pc[w] # "off"
    /\ initialized' = TRUE /\ owner' = "idle"
    /\ UNCHANGED <<dying, up, threads, calls, queues, values, supplied, ended>>

Resting == \A c \in Calls : at[c] \in {"idle", "done"}

DisposeBegin ==
    /\ owner = "idle" /\ initialized /\ (Drains => Resting)
    /\ dying' = TRUE /\ owner' = "join"
    /\ UNCHANGED <<initialized, up, threads, calls, queues, values, supplied, ended>>

DisposeEnd ==
    /\ owner = "join" /\ \A w \in Workers : pc[w] = "exited"
    /\ up' = FALSE /\ initialized' = FALSE /\ owner' = "idle"
    /\ pc' = [w \in Workers |-> "off"]
    /\ UNCHANGED <<dying, task, left, calls, queues, values, supplied, ended>>

\* No call is under way when the object goes.
Destroy ==
    /\ owner = "idle" /\ ~initialized /\ Resting
    /\ owner' = "gone"
    /\ UNCHANGED <<initialized, dying, up, threads, calls, queues, values, supplied, ended>>

-----------------------------------------------------------------------------
(* A thread: Perform and the three functions it tries in turn.             *)

Goes(w, where) == pc' = [pc EXCEPT ![w] = where]

\* Not the code: while (true).
TestDying_Never(w) ==
    /\ pc[w] = "loop"
    /\ Goes(w, "map")
    /\ UNCHANGED <<life, task, left, calls, queues, values, supplied, ended>>

TestDying(w) ==
    /\ pc[w] = "loop"
    /\ Goes(w, IF dying THEN "exited" ELSE "map")
    /\ UNCHANGED <<life, task, left, calls, queues, values, supplied, ended>>

\* A try_pop that fails leads to the next function, the last one to the loop.
PopFail(w) ==
    /\ pc[w] \in {"map", "shuffle", "reduce"}
    /\ Goes(w, CASE pc[w] = "map" -> "shuffle" [] pc[w] = "shuffle" -> "reduce"
                 [] pc[w] = "reduce" -> "loop")
    /\ UNCHANGED <<life, task, left, calls, queues, values, supplied, ended>>

PopMap(w) ==
    /\ pc[w] = "map"
    /\ \E c \in Calls :
        /\ map_queue[c] # <<>>
        /\ task' = [task EXCEPT ![w] = Head(map_queue[c])]
        /\ map_queue' = [map_queue EXCEPT ![c] = Tail(@)]
    /\ Goes(w, "mapping")
    /\ UNCHANGED <<life, left, calls, shuffle_queue, reduce_queue, values, supplied, ended>>

PopShuffle(w) ==
    /\ pc[w] = "shuffle"
    /\ \E c \in Calls :
        /\ shuffle_queue[c] # <<>>
        /\ task' = [task EXCEPT ![w] = Head(shuffle_queue[c])]
        /\ shuffle_queue' = [shuffle_queue EXCEPT ![c] = Tail(@)]
    /\ Goes(w, "getting")
    /\ UNCHANGED <<life, left, calls, map_queue, reduce_queue, values, supplied, ended>>

PopReduce(w) ==
    /\ pc[w] = "reduce"
    /\ \E c \in Calls :
        /\ reduce_queue[c] # <<>>
        /\ task' = [task EXCEPT ![w] = <<c, Head(reduce_queue[c])>>]
        /\ reduce_queue' = [reduce_queue EXCEPT ![c] = Tail(@)]
    /\ Goes(w, "reducing")
    /\ UNCHANGED <<life, left, calls, map_queue, shuffle_queue, values, supplied, ended>>

\* mapper.Compute: waits for the input, sets the promise of the map result.
Map(w) ==
    /\ pc[w] = "mapping" /\ task[w] \in supplied
    /\ mapped' = mapped \union {task[w]}
    /\ task' = [task EXCEPT ![w] = NoTask]
    /\ Goes(w, "loop")
    /\ UNCHANGED <<life, left, calls, queues, values, supplied, shuffled, reduced>>

\* Not the code: promise.set_value() before the values are added.
Get_SetsFirst(w) ==
    /\ pc[w] = "getting" /\ task[w] \in mapped
    /\ left' = [left EXCEPT ![w] = Emits[task[w]]]
    /\ shuffled' = shuffled \union {task[w]}
    /\ Goes(w, "adding")
    /\ UNCHANGED <<life, task, calls, queues, values, supplied, mapped, reduced>>

\* future.get() gives the shuffle the result of its map.
Get(w) ==
    /\ pc[w] = "getting" /\ task[w] \in mapped
    /\ left' = [left EXCEPT ![w] = Emits[task[w]]]
    /\ Goes(w, "adding")
    /\ UNCHANGED <<life, task, calls, queues, values, supplied, ended>>

\* One turn of the loop makes the call's values of key k `vec`.
AddTo(w, k, vec) ==
    /\ pc[w] = "adding" /\ k \in left[w]
    /\ values' = [values EXCEPT ![CallOf[task[w]]][k] = vec]
    /\ left' = [left EXCEPT ![w] = @ \ {k}]
    /\ UNCHANGED <<life, pc, task, calls, queues, supplied, ended>>

\* Not the code: the vector of the key is made anew.
Add_Overwrites(w) == \E k \in Keys : AddTo(w, k, <<task[w]>>)

\* tskc->add, which holds the mutex of the key; the keys in any order.
Add(w) == \E k \in Keys : AddTo(w, k, Append(values[CallOf[task[w]]][k], task[w]))

\* promise.set_value(), after which the call may end.
SetShuffled(w) ==
    /\ pc[w] = "adding" /\ left[w] = {}
    /\ shuffled' = shuffled \union {task[w]}
    /\ task' = [task EXCEPT ![w] = NoTask]
    /\ Goes(w, "loop")
    /\ UNCHANGED <<life, left, calls, queues, values, supplied, mapped, reduced>>

\* reducer.Compute: the values came with the task.
Reduce(w) ==
    /\ pc[w] = "reducing"
    /\ reduced' = reduced \union {task[w]}
    /\ task' = [task EXCEPT ![w] = NoTask]
    /\ Goes(w, "loop")
    /\ UNCHANGED <<life, left, calls, queues, values, supplied, mapped, shuffled>>

\* After the destructor nothing is left to run.
Terminated == owner = "gone" /\ UNCHANGED vars

-----------------------------------------------------------------------------
PopAny(w) == PopMap(w) \/ PopShuffle(w) \/ PopReduce(w)

Worker(w) ==
    \/ TestDying(w) \/ PopFail(w) \/ PopAny(w)
    \/ Map(w) \/ Get(w) \/ Add(w) \/ SetShuffled(w) \/ Reduce(w)

InCall(c) ==
    \/ GetInputs(c) \/ PushMap(c) \/ PushShuffle(c)
    \/ Await(c) \/ PushReduce(c) \/ Collect(c)

Next ==
    \/ \E c \in Calls : Begin(c) \/ InCall(c)
    \/ \E x \in Calls \union Inputs : Supply(x)
    \/ InitBegin \/ InitEnd \/ DisposeBegin \/ DisposeEnd \/ Destroy
    \/ \E w \in Workers : Spawn(w) \/ Worker(w)
    \/ Terminated

Spec == Init /\ [][Next]_vars

(***************************************************************************)
(* The scheduler runs every thread; a call, Init or Dispose that was begun *)
(* goes on; inputs come in the end; the pops of one kind that are tried    *)
(* again and again on a queue with tasks do not always fail.               *)
(***************************************************************************)
Fairness ==
    /\ \A w \in Workers : WF_vars(Worker(w)) /\ WF_vars(Spawn(w))
    /\ SF_vars(\E w \in Workers : PopMap(w))
    /\ SF_vars(\E w \in Workers : PopShuffle(w))
    /\ SF_vars(\E w \in Workers : PopReduce(w))
    /\ \A c \in Calls : WF_vars(InCall(c))
    /\ \A x \in Calls \union Inputs : WF_vars(Supply(x))
    /\ WF_vars(InitEnd) /\ WF_vars(DisposeEnd)

FairSpec == Spec /\ Fairness

-----------------------------------------------------------------------------
(* Properties.                                                             *)

\* Every variable keeps its shape.
TypeOK ==
    /\ initialized \in BOOLEAN /\ dying \in BOOLEAN /\ up \in BOOLEAN
    /\ owner \in {"idle", "spawn", "join", "gone"}
    /\ pc \in [Workers -> {"off", "loop", "map", "shuffle", "reduce",
                           "mapping", "getting", "adding", "reducing", "exited"}]
    /\ task \in [Workers -> Inputs \union (Calls \X Keys) \union {NoTask}]
    /\ left \in [Workers -> SUBSET Keys]
    /\ at \in [Calls -> {"idle", "get", "map", "shuffle", "await", "reduce", "collect", "done"}]
    /\ next \in [Calls -> Nat]
    /\ map_queue \in [Calls -> Seq(Inputs)] /\ shuffle_queue \in [Calls -> Seq(Inputs)]
    /\ reduce_queue \in [Calls -> Seq(Keys)]
    /\ values \in [Calls -> [Keys -> Seq(Inputs)]]
    /\ supplied \subseteq Calls \union Inputs
    /\ mapped \subseteq Inputs /\ shuffled \subseteq Inputs
    /\ reduced \subseteq Calls \X Keys

\* The call still needs its keyed collection, a local variable, for shuffles.
Collecting(c) == at[c] \in {"map", "shuffle", "await"}

(***************************************************************************)
(* The pointer to the keyed collection in a shuffle task never outlives    *)
(* the collection: while such a task is queued or in a thread's hands, the *)
(* call has not gone on to move the values out, let alone returned.  Every *)
(* variable keeps its type.                                                *)
(***************************************************************************)
CollectionAlive ==
    /\ TypeOK
    /\ \A w \in Workers : pc[w] \in {"getting", "adding"} => Collecting(CallOf[task[w]])
    /\ \A c \in Calls : shuffle_queue[c] # <<>> => Collecting(c)

(***************************************************************************)
(* What is reduced for a key is what the maps of the call's inputs emitted *)
(* for it, each value once, whatever the interleaving of the shuffles, the *)
(* other calls and the pushes.                                             *)
(***************************************************************************)
Complete ==
    \A c \in Calls : at[c] \in {"reduce", "collect", "done"} =>
        \A k \in Keys :
            LET vec  == values[c][k]
                from == {i \in Vec(c) : k \in Emits[i]}
            IN  Len(vec) = Cardinality(from) /\ {vec[n] : n \in 1 .. Len(vec)} = from

QueuedMap(i) == \E c \in Calls : \E n \in 1 .. Len(map_queue[c]) : map_queue[c][n] = i

(***************************************************************************)
(* A shuffle in a thread's hands waits for a map that is there to be run:  *)
(* queued, in the hands of a thread, or over.  So the only way to block    *)
(* all threads is to have each of them wait for a map in the queue.        *)
(***************************************************************************)
MapIsThere ==
    \A w \in Workers : pc[w] = "getting" =>
        \/ task[w] \in mapped
        \/ QueuedMap(task[w])
        \/ \E v \in Workers : pc[v] = "mapping" /\ task[v] = task[w]

(***************************************************************************)
(* The threads are not all waiting for maps that nobody is left to run.    *)
(* It holds with more threads than inputs in flight; the code asks only    *)
(* for threads > 0.  A thread that finds no map, just before a call pushes *)
(* a map and its shuffle, takes the shuffle and waits for the map.         *)
(***************************************************************************)
NoStuck == ~ \A w \in Workers : pc[w] = "getting" /\ QueuedMap(task[w])

\* A program that drains: Dispose returns.
DisposeEnds == owner = "join" ~> owner = "idle"

-----------------------------------------------------------------------------
(* With Drains, and enough threads, it implements a pattern.               *)

Abstract == INSTANCE Pattern WITH
    Jobs <- Calls,
    accepted <- {c \in Calls : at[c] # "idle"},
    ready <- {c \in Calls : {c} \union Vec(c) \subseteq supplied},
    answered <- {c \in Calls : at[c] = "done"},
    broken <- {},
    gone <- owner = "gone"

\* It answers a call once, with all its inputs there, while it is up; and while it stays
\* up, it answers every call whose inputs are there.
ImplementsPattern == Abstract!Spec
=============================================================================
