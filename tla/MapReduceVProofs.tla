-------------------------- MODULE MapReduceVProofs --------------------------
(***************************************************************************)
(* Proofs about MapReduceV, for any calls, vectors of inputs and threads:  *)
(* its types, that every future of a call has its value or one task that   *)
(* will set it, that the reduction tree takes in every input once, and,    *)
(* for a program that drains, the safety part of the refinement of         *)
(* Pattern.                                                                *)
(***************************************************************************)
EXTENDS MCMapReduceV, StreamLemmas, FunctionTheorems

Tasks == MapTasks \union ReduceTasks

\* A call has pushed one task for every future in its vector.
CursorOf(c) ==
    /\ at[c] \in {"idle", "get"} => next[c] = 1 /\ Len(outputs[c]) = 0
    /\ at[c] = "map" => next[c] \in 1 .. Len(InputsOf[c]) /\ Len(outputs[c]) = next[c] - 1
    /\ at[c] = "pair" =>
        /\ next[c] \in 1 .. Len(InputsOf[c]) - 1
        /\ Len(outputs[c]) = Len(InputsOf[c]) + next[c] - 1
    /\ at[c] \in {"last", "done"} =>
        next[c] = Len(InputsOf[c]) /\ Len(outputs[c]) = 2 * Len(InputsOf[c]) - 1

Cursor == \A c \in Calls : CursorOf(c)

\* TypeOK without what it says of the calls, which Cursor implies, and with
\* the types of the tasks and of the vectors.
Shape ==
    /\ initialized \in BOOLEAN /\ dying \in BOOLEAN /\ up \in BOOLEAN
    /\ owner \in {"idle", "spawn", "join", "gone"}
    /\ pc \in [Workers -> {"off", "loop", "map", "reduce", "mapping", "reducing", "exited"}]
    /\ at \in [Calls -> {"idle", "get", "map", "pair", "last", "done"}]
    /\ supplied \subseteq Calls \union Inputs
    /\ \A w \in Workers :
        /\ pc[w] = "mapping" <=> task[w] \in MapTasks
        /\ pc[w] = "reducing" <=> task[w] \in ReduceTasks
    /\ task \in [Workers -> Tasks \union {NoTask}]
    /\ next \in [Calls -> Nat]
    /\ outputs \in [Calls -> Seq(Seq(Inputs))]
    /\ map_queue \in [Calls -> Seq(MapTasks)] /\ reduce_queue \in [Calls -> Seq(ReduceTasks)]

Types == Shape /\ Cursor

-----------------------------------------------------------------------------
\* The places of a task.
Queued(t) == Holds(map_queue, Calls, t) \/ Holds(reduce_queue, Calls, t)

Holding(w, t) == pc[w] \in {"mapping", "reducing"} /\ task[w] = t

Live(t) == Queued(t) \/ \E w \in Workers : Holding(w, t)

\* The call that pushed a task, on its own stream.
CallOf == [t \in Tasks |-> t.call]

\* A task is at one place.
OnePlace ==
    /\ Apart(map_queue, Calls, CallOf) /\ Apart(reduce_queue, Calls, CallOf)
    /\ \A w \in Workers, t \in Tasks : Holding(w, t) =>
        ~Queued(t) /\ \A v \in Workers : Holding(v, t) => v = w

\* A future without a value, and no other, has a task; it has only one.
OneTask ==
    /\ \A t \in Tasks : Live(t) => t.slot <= Len(outputs[t.call]) /\ outputs[t.call][t.slot] = Unset
    /\ \A t, u \in Tasks : Live(t) /\ Live(u) /\ t.call = u.call /\ t.slot = u.slot => t = u
    /\ \A c \in Calls : \A n \in 1 .. Len(outputs[c]) : outputs[c][n] = Unset =>
        \E t \in Tasks : Live(t) /\ t.call = c /\ t.slot = n
    /\ \A c \in Calls : at[c] = "done" => outputs[c][Len(outputs[c])] # Unset

Places == OnePlace /\ OneTask

-----------------------------------------------------------------------------
(* The reduction tree of a call.                                           *)

\* The inputs at a sequence of positions of the call's vector.
Read(c, places) == [k \in 1 .. Len(places) |-> InputsOf[c][places[k]]]

\* What a task will set its future to.
Gives(t) == IF t \in MapTasks THEN <<t.input>> ELSE t.first \o t.second

\* The futures that no reduce task has read.
Roots(c) ==
    {n \in 1 .. Len(outputs[c]) : at[c] \in {"pair", "last", "done"} => n >= 2 * next[c] - 1}

\* How many of its inputs the call has pushed a map for.
Mapped(c) == IF at[c] \in {"idle", "get", "map"} THEN Len(outputs[c]) ELSE Len(InputsOf[c])

\* The n-th future stands for the inputs at the positions leaves[n]; every
\* input that is mapped is at one place of one root.
Tree(c, leaves) ==
    /\ \A n \in 1 .. Len(outputs[c]) :
        /\ leaves[n] # <<>>
        /\ outputs[c][n] # Unset => outputs[c][n] = Read(c, leaves[n])
    /\ \A t \in Tasks : Live(t) /\ t.call = c => Gives(t) = Read(c, leaves[t.slot])
    /\ Once(leaves, Roots(c))
    /\ \A p : Holds(leaves, Roots(c), p) <=> p \in 1 .. Mapped(c)

Leaves(c) == [Nat -> Seq(1 .. Len(InputsOf[c]))]

TreeKept == \A c \in Calls : \E leaves \in Leaves(c) : Tree(c, leaves)

\* The inductive invariant, in the layers it is proved in.
IInv == Types /\ Places /\ TreeKept

-----------------------------------------------------------------------------
(* For the refinement.                                                     *)

Lifecycle ==
    /\ owner = "spawn" => up /\ ~initialized
    /\ owner = "join" => up /\ initialized /\ (Drains => Resting)
    /\ owner = "idle" => up = initialized
    /\ owner = "gone" => ~up /\ ~initialized /\ Resting
    /\ ~up => \A w \in Workers : pc[w] = "off"

\* In a program that drains, a call under way that has results has them while
\* the pattern is up.
ResultsWhileUp ==
    \A c \in Calls : \A n \in 1 .. Len(outputs[c]) :
        outputs[c][n] # Unset /\ Drains => at[c] = "done" \/ up

AllSupplied(seq) == \A n \in 1 .. Len(seq) : seq[n] \in supplied

\* Nothing is used before it is supplied.
Supplied ==
    /\ \A c \in Calls : at[c] \notin {"idle", "get"} => c \in supplied
    /\ \A c \in Calls : \A n \in 1 .. Len(outputs[c]) : AllSupplied(outputs[c][n])
    /\ \A t \in ReduceTasks : Live(t) => AllSupplied(t.first) /\ AllSupplied(t.second)

Keeps == Lifecycle /\ ResultsWhileUp /\ Supplied

-----------------------------------------------------------------------------
LEMMA VectorFacts ==
    \A c \in Calls :
        /\ InputsOf[c] \in Seq(Inputs) /\ Len(InputsOf[c]) \in Nat \ {0}
        /\ \A n \in 1 .. Len(InputsOf[c]) : InputsOf[c][n] \in Inputs
<1> SUFFICES ASSUME NEW c \in Calls
             PROVE  /\ InputsOf[c] \in Seq(Inputs) /\ Len(InputsOf[c]) \in Nat \ {0}
                    /\ \A n \in 1 .. Len(InputsOf[c]) : InputsOf[c][n] \in Inputs
  OBVIOUS
<1>1. InputsOf[c] \in Seq(Inputs) /\ InputsOf[c] # <<>>
  BY MapReduceVAssumption
<1> QED BY <1>1, EmptySeq, ElementOfSeq

\* A task says which future it sets; map and reduce tasks differ in it.
LEMMA TaskFacts ==
    /\ \A t \in MapTasks : t.call \in Calls /\ t.slot \in 1 .. Len(InputsOf[t.call]) /\ t.input \in Inputs
    /\ \A t \in ReduceTasks :
        /\ t.call \in Calls
        /\ t.slot \in Len(InputsOf[t.call]) + 1 .. 2 * Len(InputsOf[t.call]) - 1
        /\ t.first \in Seq(Inputs) /\ t.second \in Seq(Inputs)
    /\ \A t \in Tasks : t.call \in Calls /\ t.slot \in Nat \ {0}
    /\ MapTasks \intersect ReduceTasks = {} /\ NoTask \notin Tasks
<1>1. /\ \A t \in MapTasks : t.call \in Calls /\ t.slot \in 1 .. Len(InputsOf[t.call]) /\ t.input \in Inputs
      /\ \A t \in ReduceTasks :
          /\ t.call \in Calls
          /\ t.slot \in Len(InputsOf[t.call]) + 1 .. 2 * Len(InputsOf[t.call]) - 1
          /\ t.first \in Seq(Inputs) /\ t.second \in Seq(Inputs)
  BY DEF MapTasks, ReduceTasks
<1>2. \A t \in Tasks : t.call \in Calls /\ t.slot \in Nat \ {0}
  BY <1>1, VectorFacts DEF Tasks
<1>3. MapTasks \intersect ReduceTasks = {}
  BY <1>1, VectorFacts
<1> QED BY <1>1, <1>2, <1>3, MapReduceVAssumption DEF Tasks

\* The task of a map, and of a reduction.
LEMMA PushMapTask ==
    ASSUME Types, NEW c \in Calls, PushMap(c)
    PROVE  \E t \in MapTasks :
             /\ t = [call |-> c, slot |-> next[c], input |-> InputsOf[c][next[c]]]
             /\ t.call = c /\ t.slot = Len(outputs[c]) + 1 /\ t.input = InputsOf[c][next[c]]
             /\ map_queue' = PushOn(map_queue, c, t)
             /\ outputs' = PushOn(outputs, c, Unset)
<1> DEFINE t == [call |-> c, slot |-> next[c], input |-> InputsOf[c][next[c]]]
<1>1. /\ next[c] \in 1 .. Len(InputsOf[c]) /\ Len(outputs[c]) = next[c] - 1
      /\ map_queue' = PushOn(map_queue, c, t) /\ outputs' = PushOn(outputs, c, Unset)
  BY DEF PushMap, Types, Cursor, CursorOf, PushOn
<1>2. t \in MapTasks
  BY <1>1, VectorFacts DEF MapTasks
<1>3. t.call = c /\ t.slot = Len(outputs[c]) + 1 /\ t.input = InputsOf[c][next[c]]
  BY <1>1, VectorFacts
<1> HIDE DEF t
<1>4. t = [call |-> c, slot |-> next[c], input |-> InputsOf[c][next[c]]]
  BY DEF t
<1> QED BY <1>1, <1>2, <1>3, <1>4

LEMMA PushReduceTask ==
    ASSUME Types, NEW c \in Calls, PushReduce(c)
    PROVE  \E t \in ReduceTasks :
             /\ t.call = c /\ t.slot = Len(outputs[c]) + 1
             /\ 2 * next[c] - 1 \in 1 .. Len(outputs[c]) /\ 2 * next[c] \in 1 .. Len(outputs[c])
             /\ t.first = outputs[c][2 * next[c] - 1] /\ t.second = outputs[c][2 * next[c]]
             /\ t.first # Unset /\ t.second # Unset
             /\ reduce_queue' = PushOn(reduce_queue, c, t)
             /\ outputs' = PushOn(outputs, c, Unset)
<1> DEFINE f == outputs[c][2 * next[c] - 1]
           s == outputs[c][2 * next[c]]
           t == [call |-> c, slot |-> Len(outputs[c]) + 1, first |-> f, second |-> s]
<1>1. /\ at[c] = "pair" /\ f # Unset /\ s # Unset
      /\ reduce_queue' = PushOn(reduce_queue, c, t) /\ outputs' = PushOn(outputs, c, Unset)
  BY DEF PushReduce, PushOn
<1>2. /\ next[c] \in 1 .. Len(InputsOf[c]) - 1 /\ Len(outputs[c]) = Len(InputsOf[c]) + next[c] - 1
      /\ outputs[c] \in Seq(Seq(Inputs)) /\ Len(InputsOf[c]) \in Nat
  BY <1>1, VectorFacts DEF Types, Cursor, CursorOf, Shape
<1>3. /\ 2 * next[c] - 1 \in 1 .. Len(outputs[c]) /\ 2 * next[c] \in 1 .. Len(outputs[c])
      /\ Len(outputs[c]) + 1 \in Len(InputsOf[c]) + 1 .. 2 * Len(InputsOf[c]) - 1
      /\ Len(outputs[c]) + 1 \in Nat
  <2>1. PICK N \in Nat : N = Len(InputsOf[c])
    BY <1>2
  <2>2. PICK n \in 1 .. N - 1 : n = next[c]
    BY <1>2, <2>1
  <2>3. PICK L \in Nat : L = Len(outputs[c]) /\ L = N + n - 1
    BY <1>2, <2>1, <2>2
  <2>4. /\ 2 * n - 1 \in 1 .. L /\ 2 * n \in 1 .. L /\ L + 1 \in N + 1 .. 2 * N - 1
    BY <2>3
  <2> QED BY <2>1, <2>2, <2>3, <2>4
<1>4. f \in Seq(Inputs) /\ s \in Seq(Inputs)
  BY <1>2, <1>3, ElementOfSeq
<1>5. t \in ReduceTasks /\ t.call = c /\ t.slot = Len(outputs[c]) + 1 /\ t.first = f /\ t.second = s
  BY <1>3, <1>4 DEF ReduceTasks
<1> HIDE DEF t
<1> QED BY <1>1, <1>3, <1>5

\* The future of task t, and no other, has got value v.
FutureSet(t, v) ==
    /\ t \in Tasks /\ t.slot \in 1 .. Len(outputs[t.call]) /\ t.call \in Calls
    /\ outputs' \in [Calls -> Seq(Seq(Inputs))]
    /\ \A c \in Calls : Len(outputs'[c]) = Len(outputs[c])
    /\ \A c \in Calls \ {t.call} : outputs'[c] = outputs[c]
    /\ outputs'[t.call][t.slot] = v
    /\ \A n \in 1 .. Len(outputs[t.call]) \ {t.slot} : outputs'[t.call][n] = outputs[t.call][n]

\* A thread that holds a task sets the future the task is for.
LEMMA SetFacts ==
    ASSUME Types, Places, NEW w \in Workers, pc[w] \in {"mapping", "reducing"},
           NEW v \in Seq(Inputs), SetOutput(w, v), NEW t, t = task[w]
    PROVE  FutureSet(t, v)
<1>1. t \in Tasks /\ Live(t)
  <2>1. t \in Tasks
    BY DEF Types, Shape, Tasks
  <2> QED BY <2>1 DEF Live, Holding
<1>2. t.call \in Calls /\ t.slot \in Nat \ {0} /\ t.slot <= Len(outputs[t.call])
  BY <1>1, TaskFacts DEF Places, OneTask
<1>3. outputs \in [Calls -> Seq(Seq(Inputs))]
  BY DEF Types, Shape
<1>4. outputs[t.call] \in Seq(Seq(Inputs)) /\ Len(outputs[t.call]) \in Nat
  BY <1>2, <1>3, LenProperties
<1>5. t.slot \in 1 .. Len(outputs[t.call])
  BY <1>2, <1>4
<1> DEFINE new == [outputs[t.call] EXCEPT ![t.slot] = v]
<1>6. /\ new \in Seq(Seq(Inputs)) /\ Len(new) = Len(outputs[t.call])
      /\ \A j \in 1 .. Len(outputs[t.call]) : new[j] = IF j = t.slot THEN v ELSE outputs[t.call][j]
  <2> DEFINE e == outputs[t.call]
             i == t.slot
  <2> HIDE DEF e, i
  <2>1. e \in Seq(Seq(Inputs)) /\ i \in 1 .. Len(e)
    BY <1>4, <1>5 DEF e, i
  <2>2. /\ [e EXCEPT ![i] = v] \in Seq(Seq(Inputs)) /\ Len([e EXCEPT ![i] = v]) = Len(e)
        /\ \A j \in 1 .. Len(e) : [e EXCEPT ![i] = v][j] = IF j = i THEN v ELSE e[j]
    BY <2>1, ExceptSeq
  <2> QED BY <2>2 DEF e, i
<1>7. outputs' = [outputs EXCEPT ![t.call] = new]
  BY DEF SetOutput
<1> HIDE DEF new
<1>8. /\ outputs'[t.call] = new /\ \A c \in Calls \ {t.call} : outputs'[c] = outputs[c]
      /\ outputs' \in [Calls -> Seq(Seq(Inputs))]
  BY <1>2, <1>3, <1>6, <1>7
<1> QED BY <1>1, <1>2, <1>5, <1>6, <1>8 DEF FutureSet

\* What a thread that runs its task sets the future to.
LEMMA SetValue ==
    ASSUME Types, NEW w \in Workers, Map(w) \/ Reduce(w)
    PROVE  /\ task[w] \in Tasks /\ Gives(task[w]) \in Seq(Inputs)
           /\ SetOutput(w, Gives(task[w])) /\ pc[w] \in {"mapping", "reducing"}
<1>1. CASE Map(w)
  <2>1. task[w] \in MapTasks /\ SetOutput(w, <<task[w].input>>) /\ pc[w] = "mapping"
    BY <1>1 DEF Map, Types, Shape
  <2>2. <<task[w].input>> \in Seq(Inputs)
    BY <2>1, TaskFacts
  <2> QED BY <2>1, <2>2 DEF Gives, Tasks
<1>2. CASE Reduce(w)
  <2>1. task[w] \in ReduceTasks /\ SetOutput(w, task[w].first \o task[w].second) /\ pc[w] = "reducing"
    BY <1>2 DEF Reduce, Types, Shape
  <2>2. task[w].first \o task[w].second \in Seq(Inputs)
    BY <2>1, TaskFacts, ConcatProperties
  <2> QED BY <2>1, <2>2, TaskFacts DEF Gives, Tasks
<1> QED BY <1>1, <1>2

-----------------------------------------------------------------------------
\* The types of the runs follow.
LEMMA TypesAreOK == Types => TypeOK
<1> SUFFICES ASSUME Types PROVE TypeOK
  OBVIOUS
<1> USE DEF Types, Shape
<1>1. \A w \in Workers : pc[w] \notin {"mapping", "reducing"} <=> task[w] = NoTask
  BY TaskFacts DEF Tasks
<1>2. ASSUME NEW c \in Calls
      PROVE  next[c] \in 1 .. Len(InputsOf[c]) /\ DOMAIN outputs[c] \subseteq Slots(c)
  <2>1. PICK N \in Nat \ {0} : N = Len(InputsOf[c])
    BY VectorFacts
  <2>2. PICK n \in Nat : n = next[c]
    OBVIOUS
  <2>3. PICK L \in Nat : L = Len(outputs[c])
    BY LenProperties
  <2>4. \/ n = 1 /\ L = 0
        \/ n \in 1 .. N /\ L = n - 1
        \/ n \in 1 .. N - 1 /\ L = N + n - 1
        \/ n = N /\ L = 2 * N - 1
    BY <2>1, <2>2, <2>3 DEF Cursor, CursorOf
  <2>5. n \in 1 .. N /\ L <= 2 * N - 1
    BY <2>4
  <2>6. DOMAIN outputs[c] = 1 .. Len(outputs[c])
    BY LenProperties
  <2> QED BY <2>1, <2>2, <2>3, <2>5, <2>6 DEF Slots
<1> QED BY <1>1, <1>2 DEF TypeOK

\* Every step keeps the types and the cursors.
LEMMA TypesStep == Types /\ Places /\ [Next]_vars => Types'
<1> SUFFICES ASSUME Types, Places, [Next]_vars PROVE Types'
  OBVIOUS
<1>0. /\ MapTasks \intersect ReduceTasks = {} /\ NoTask \notin Tasks
      /\ \A c \in Calls : Len(InputsOf[c]) \in Nat \ {0}
  BY TaskFacts, VectorFacts
<1> USE DEF Types, Shape, Cursor, CursorOf, Tasks
<1>1. ASSUME NEW c \in Calls, Begin(c) PROVE Types'
  BY <1>1 DEF Begin, life, threads, queues
<1>2. ASSUME NEW c \in Calls, GetInputs(c) PROVE Types'
  BY <1>0, <1>2 DEF GetInputs, life, threads, queues
<1>3. ASSUME NEW c \in Calls, PushMap(c) PROVE Types'
  <2>1. /\ map_queue' \in [Calls -> Seq(MapTasks)] /\ outputs' \in [Calls -> Seq(Seq(Inputs))]
        /\ Len(outputs'[c]) = Len(outputs[c]) + 1
        /\ \A d \in Calls : d # c => outputs'[d] = outputs[d]
    <3>1. PICK t \in MapTasks : map_queue' = PushOn(map_queue, c, t) /\ outputs' = PushOn(outputs, c, Unset)
      BY <1>3, PushMapTask
    <3>2. Grown(map_queue, map_queue', Calls, MapTasks, c, t)
      BY <3>1, PushPlaces
    <3>3. Unset \in Seq(Inputs)
      BY EmptySeq DEF Unset
    <3>4. Grown(outputs, outputs', Calls, Seq(Inputs), c, Unset)
      BY <3>1, <3>3, PushPlaces
    <3> QED BY <3>2, <3>4 DEF Grown
  <2>2. /\ at[c] = "map" /\ UNCHANGED <<pc, task, reduce_queue, supplied, initialized, dying, up, owner>>
        /\ next' = [next EXCEPT ![c] = IF next[c] = Len(InputsOf[c]) THEN 1 ELSE next[c] + 1]
        /\ at' = [at EXCEPT ![c] = IF next[c] # Len(InputsOf[c]) THEN "map"
                                   ELSE IF next[c] = 1 THEN "last" ELSE "pair"]
    BY <1>3 DEF PushMap, life, threads
  <2>3. CursorOf(c)'
    <3>1. PICK N \in Nat \ {0} : N = Len(InputsOf[c])
      BY <1>0
    <3>2. PICK n \in 1 .. N : n = next[c] /\ Len(outputs'[c]) = n
      BY <2>1, <2>2, <3>1
    <3>3. /\ next'[c] = IF n = N THEN 1 ELSE n + 1
          /\ at'[c] = IF n # N THEN "map" ELSE IF n = 1 THEN "last" ELSE "pair"
      BY <2>2, <3>1, <3>2
    <3> QED BY <3>1, <3>2, <3>3
  <2>4. \A d \in Calls : d # c => CursorOf(d)'
    <3> SUFFICES ASSUME NEW d \in Calls, d # c PROVE CursorOf(d)'
      OBVIOUS
    <3>1. CursorOf(d) /\ next'[d] = next[d] /\ at'[d] = at[d] /\ outputs'[d] = outputs[d]
      BY <2>1, <2>2
    <3> HIDE DEF Types, Shape, Cursor
    <3> QED BY <3>1
  <2>5. next' \in [Calls -> Nat] /\ at' \in [Calls -> {"idle", "get", "map", "pair", "last", "done"}]
    BY <2>2
  <2>6. Shape'
    BY <2>1, <2>2, <2>5
  <2> QED BY <2>3, <2>4, <2>6
<1>4. ASSUME NEW c \in Calls, PushReduce(c) PROVE Types'
  <2>1. /\ reduce_queue' \in [Calls -> Seq(ReduceTasks)] /\ outputs' \in [Calls -> Seq(Seq(Inputs))]
        /\ Len(outputs'[c]) = Len(outputs[c]) + 1
        /\ \A d \in Calls : d # c => outputs'[d] = outputs[d]
    <3>1. PICK t \in ReduceTasks :
            reduce_queue' = PushOn(reduce_queue, c, t) /\ outputs' = PushOn(outputs, c, Unset)
      BY <1>4, PushReduceTask
    <3>2. Grown(reduce_queue, reduce_queue', Calls, ReduceTasks, c, t)
      BY <3>1, PushPlaces
    <3>3. Unset \in Seq(Inputs)
      BY EmptySeq DEF Unset
    <3>4. Grown(outputs, outputs', Calls, Seq(Inputs), c, Unset)
      BY <3>1, <3>3, PushPlaces
    <3> QED BY <3>2, <3>4 DEF Grown
  <2>2. /\ at[c] = "pair" /\ UNCHANGED <<pc, task, map_queue, supplied, initialized, dying, up, owner>>
        /\ next' = [next EXCEPT ![c] = @ + 1]
        /\ at' = [at EXCEPT ![c] = IF next[c] < Len(InputsOf[c]) - 1 THEN "pair" ELSE "last"]
    BY <1>4 DEF PushReduce, life, threads
  <2>3. CursorOf(c)'
    <3>1. PICK N \in Nat \ {0} : N = Len(InputsOf[c])
      BY <1>0
    <3>2. PICK n \in 1 .. N - 1 : n = next[c] /\ Len(outputs'[c]) = N + n
      <4>1. PICK L \in Nat : L = Len(outputs[c])
        BY LenProperties
      <4>2. PICK n \in 1 .. N - 1 : n = next[c] /\ L = N + n - 1
        BY <2>2, <3>1, <4>1
      <4> QED BY <2>1, <4>1, <4>2
    <3>3. /\ next'[c] = n + 1
          /\ at'[c] = IF n < N - 1 THEN "pair" ELSE "last"
      BY <2>2, <3>1, <3>2
    <3> HIDE DEF Types, Shape, Cursor
    <3>4. CASE n < N - 1
      <4>1. at'[c] = "pair" /\ n + 1 \in 1 .. N - 1 /\ N + n = N + (n + 1) - 1
        BY <3>1, <3>2, <3>3, <3>4
      <4> QED BY <3>1, <3>2, <3>3, <4>1
    <3>5. CASE ~(n < N - 1)
      <4>1. at'[c] = "last" /\ n + 1 = N /\ N + n = 2 * N - 1
        BY <3>1, <3>2, <3>3, <3>5
      <4> QED BY <3>1, <3>2, <3>3, <4>1
    <3> QED BY <3>4, <3>5
  <2>4. \A d \in Calls : d # c => CursorOf(d)'
    <3> SUFFICES ASSUME NEW d \in Calls, d # c PROVE CursorOf(d)'
      OBVIOUS
    <3>1. CursorOf(d) /\ next'[d] = next[d] /\ at'[d] = at[d] /\ outputs'[d] = outputs[d]
      BY <2>1, <2>2
    <3> HIDE DEF Types, Shape, Cursor
    <3> QED BY <3>1
  <2>5. next' \in [Calls -> Nat] /\ at' \in [Calls -> {"idle", "get", "map", "pair", "last", "done"}]
    <3>1. /\ next \in [Calls -> Nat] /\ next[c] + 1 \in Nat
          /\ at \in [Calls -> {"idle", "get", "map", "pair", "last", "done"}]
      OBVIOUS
    <3>2. PICK where \in {"pair", "last"} : at' = [at EXCEPT ![c] = where]
      BY <2>2
    <3> HIDE DEF Types, Shape, Cursor
    <3> QED BY <2>2, <3>1, <3>2
  <2>6. Shape'
    BY <2>1, <2>2, <2>5
  <2> QED BY <2>3, <2>4, <2>6
<1>5. ASSUME NEW c \in Calls, Collect(c) PROVE Types'
  BY <1>5 DEF Collect, life, threads, queues
<1>6. ASSUME NEW x \in Calls \union Inputs, Supply(x) PROVE Types'
  BY <1>6 DEF Supply, life, threads, calls, queues
<1>7. CASE InitBegin \/ InitEnd \/ DisposeBegin \/ Destroy
  BY <1>7 DEF InitBegin, InitEnd, DisposeBegin, Destroy, threads, calls, queues
<1>8. CASE DisposeEnd
  BY <1>8 DEF DisposeEnd, calls, queues
<1>9. ASSUME NEW w \in Workers, Spawn(w) PROVE Types'
  BY <1>9 DEF Spawn, life, calls, queues
<1>10. ASSUME NEW w \in Workers, TestDying(w) \/ PopFail(w) PROVE Types'
  <2>1. CASE TestDying(w)
    BY <2>1 DEF TestDying, Goes, life, calls, queues
  <2>2. CASE PopFail(w)
    BY <2>2 DEF PopFail, Goes, life, calls, queues
  <2> QED BY <1>10, <2>1, <2>2
<1>11. ASSUME NEW w \in Workers, PopMap(w) PROVE Types'
  <2>1. PICK c \in Calls :
          /\ map_queue[c] # <<>>
          /\ task' = [task EXCEPT ![w] = Head(map_queue[c])]
          /\ map_queue' = [map_queue EXCEPT ![c] = Tail(@)]
    BY <1>11 DEF PopMap
  <2>2. Head(map_queue[c]) \in MapTasks /\ Tail(map_queue[c]) \in Seq(MapTasks)
    BY <2>1, HeadTailProperties
  <2> QED BY <1>0, <1>11, <2>1, <2>2 DEF PopMap, Goes, life, calls
<1>12. ASSUME NEW w \in Workers, PopReduce(w) PROVE Types'
  <2>1. PICK c \in Calls : TakeReduce(w, c, Tail(reduce_queue[c]))
    BY <1>12 DEF PopReduce
  <2>2. Head(reduce_queue[c]) \in ReduceTasks /\ Tail(reduce_queue[c]) \in Seq(ReduceTasks)
    BY <2>1, HeadTailProperties DEF TakeReduce
  <2> QED BY <1>0, <2>1, <2>2 DEF TakeReduce, Goes, life, calls
<1>13. ASSUME NEW w \in Workers, Map(w) \/ Reduce(w) PROVE Types'
  <2>1. PICK v \in Seq(Inputs) : SetOutput(w, v) /\ pc[w] \in {"mapping", "reducing"}
    BY <1>13, SetValue
  <2>2. /\ outputs' \in [Calls -> Seq(Seq(Inputs))] /\ \A c \in Calls : Len(outputs'[c]) = Len(outputs[c])
    <3>1. PICK t : t = task[w]
      OBVIOUS
    <3>2. FutureSet(t, v)
      BY <2>1, <3>1, SetFacts
    <3> QED BY <3>2 DEF FutureSet
  <2>3. /\ task' = [task EXCEPT ![w] = NoTask] /\ pc' = [pc EXCEPT ![w] = "loop"]
        /\ UNCHANGED <<initialized, dying, up, owner, at, next, map_queue, reduce_queue, supplied>>
    BY <2>1 DEF SetOutput, Goes, life, calls, queues
  <2>4. Cursor'
    BY <2>2, <2>3
  <2>5. Shape'
    BY <1>0, <2>2, <2>3
  <2> QED BY <2>4, <2>5
<1>14. CASE UNCHANGED vars
  BY <1>14 DEF vars, life, threads, calls, queues
<1> QED
  BY <1>1, <1>2, <1>3, <1>4, <1>5, <1>6, <1>7, <1>8, <1>9, <1>10, <1>11, <1>12, <1>13, <1>14
  DEF Next, InCall, Worker, Terminated

-----------------------------------------------------------------------------
\* What a task is when a call pushes one, and where.
Pushes(c, t) ==
    /\ t \in Tasks /\ t.call = c /\ t.slot = Len(outputs[c]) + 1 /\ ~Live(t)
    /\ \/ PushMap(c) /\ t \in MapTasks /\ t.input = InputsOf[c][next[c]]
       \/ /\ PushReduce(c) /\ t \in ReduceTasks
          /\ 2 * next[c] - 1 \in 1 .. Len(outputs[c]) /\ 2 * next[c] \in 1 .. Len(outputs[c])
          /\ t.first = outputs[c][2 * next[c] - 1] /\ t.second = outputs[c][2 * next[c]]
          /\ t.first # Unset /\ t.second # Unset
    /\ outputs' = PushOn(outputs, c, Unset)
    /\ \A x : Queued(x)' <=> Queued(x) \/ x = t
    /\ Apart(map_queue, Calls, CallOf)' /\ Apart(reduce_queue, Calls, CallOf)'
    /\ \A w \in Workers : \A x : Holding(w, x)' <=> Holding(w, x)

\* A call pushes one new task, for the future it appends.
LEMMA PushTask ==
    ASSUME Types, Places, NEW c \in Calls, PushMap(c) \/ PushReduce(c)
    PROVE  \E t : Pushes(c, t)
<1>1. /\ map_queue \in [Calls -> Seq(MapTasks)] /\ reduce_queue \in [Calls -> Seq(ReduceTasks)]
      /\ Apart(map_queue, Calls, CallOf) /\ Apart(reduce_queue, Calls, CallOf)
      /\ Len(outputs[c]) \in Nat
  BY LenProperties DEF Types, Shape, Places, OnePlace
<1>2. \A w \in Workers : \A x : Holding(w, x)' <=> Holding(w, x)
  BY DEF PushMap, PushReduce, threads, Holding
<1>3. \A t \in Tasks : t.call = c /\ t.slot = Len(outputs[c]) + 1 =>
        ~Live(t) /\ ~Holds(map_queue, Calls, t) /\ ~Holds(reduce_queue, Calls, t) /\ CallOf[t] = c
  <2> SUFFICES ASSUME NEW t \in Tasks, t.call = c, t.slot = Len(outputs[c]) + 1
               PROVE  ~Live(t) /\ ~Holds(map_queue, Calls, t) /\ ~Holds(reduce_queue, Calls, t)
                      /\ CallOf[t] = c
    OBVIOUS
  <2>1. ~Live(t)
    <3>1. ~(t.slot <= Len(outputs[c]))
      BY <1>1
    <3> QED BY <3>1 DEF Places, OneTask
  <2> QED BY <2>1 DEF Live, Queued, CallOf
<1>4. CASE PushMap(c)
  <2>1. PICK t \in MapTasks :
          /\ t.call = c /\ t.slot = Len(outputs[c]) + 1 /\ t.input = InputsOf[c][next[c]]
          /\ map_queue' = PushOn(map_queue, c, t) /\ outputs' = PushOn(outputs, c, Unset)
    BY <1>4, PushMapTask
  <2>2. t \in Tasks /\ ~Live(t) /\ ~Holds(map_queue, Calls, t) /\ CallOf[t] = c
    BY <1>3, <2>1 DEF Tasks
  <2>3. Apart(map_queue', Calls, CallOf)
    BY <1>1, <2>1, <2>2, PushApart
  <2>4. \A x : Holds(map_queue', Calls, x) <=> Holds(map_queue, Calls, x) \/ x = t
    BY <1>1, <2>1, PushHolds
  <2>5. reduce_queue' = reduce_queue
    BY <1>4 DEF PushMap
  <2>6. Apart(map_queue, Calls, CallOf)' /\ Apart(reduce_queue, Calls, CallOf)'
    <3>1. Apart(map_queue', Calls, CallOf) /\ Apart(reduce_queue', Calls, CallOf)
      BY <1>1, <2>3, <2>5
    <3> QED BY <3>1 DEF Apart, Once, Belongs
  <2>7. \A x : Queued(x)' <=> Queued(x) \/ x = t
    BY <2>4, <2>5 DEF Queued, Holds
  <2>8. Pushes(c, t)
    BY <1>2, <1>4, <2>1, <2>2, <2>6, <2>7 DEF Pushes
  <2> QED BY <2>8
<1>5. CASE PushReduce(c)
  <2>1. PICK t \in ReduceTasks :
          /\ t.call = c /\ t.slot = Len(outputs[c]) + 1
          /\ 2 * next[c] - 1 \in 1 .. Len(outputs[c]) /\ 2 * next[c] \in 1 .. Len(outputs[c])
          /\ t.first = outputs[c][2 * next[c] - 1] /\ t.second = outputs[c][2 * next[c]]
          /\ t.first # Unset /\ t.second # Unset
          /\ reduce_queue' = PushOn(reduce_queue, c, t) /\ outputs' = PushOn(outputs, c, Unset)
    BY <1>5, PushReduceTask
  <2>2. t \in Tasks /\ ~Live(t) /\ ~Holds(reduce_queue, Calls, t) /\ CallOf[t] = c
    BY <1>3, <2>1 DEF Tasks
  <2>3. Apart(reduce_queue', Calls, CallOf)
    BY <1>1, <2>1, <2>2, PushApart
  <2>4. \A x : Holds(reduce_queue', Calls, x) <=> Holds(reduce_queue, Calls, x) \/ x = t
    BY <1>1, <2>1, PushHolds
  <2>5. map_queue' = map_queue
    BY <1>5 DEF PushReduce
  <2>6. Apart(map_queue, Calls, CallOf)' /\ Apart(reduce_queue, Calls, CallOf)'
    <3>1. Apart(map_queue', Calls, CallOf) /\ Apart(reduce_queue', Calls, CallOf)
      BY <1>1, <2>3, <2>5
    <3> QED BY <3>1 DEF Apart, Once, Belongs
  <2>7. \A x : Queued(x)' <=> Queued(x) \/ x = t
    BY <2>4, <2>5 DEF Queued, Holds
  <2>8. Pushes(c, t)
    BY <1>2, <1>5, <2>1, <2>2, <2>6, <2>7 DEF Pushes
  <2> QED BY <2>8
<1> QED BY <1>4, <1>5

\* What the futures are after a push.
LEMMA PushOutputs ==
    ASSUME Types, NEW c \in Calls, outputs' = PushOn(outputs, c, Unset)
    PROVE  /\ Len(outputs[c]) \in Nat /\ Len(outputs'[c]) = Len(outputs[c]) + 1
           /\ outputs'[c][Len(outputs[c]) + 1] = Unset
           /\ \A n \in 1 .. Len(outputs[c]) : outputs'[c][n] = outputs[c][n]
           /\ \A d \in Calls : d # c => outputs'[d] = outputs[d]
<1>1. Unset \in Seq(Inputs)
  BY EmptySeq DEF Unset
<1>2. Grown(outputs, outputs', Calls, Seq(Inputs), c, Unset)
  BY <1>1, PushPlaces DEF Types, Shape
<1> QED BY <1>2 DEF Grown

LEMMA PlacesPush ==
    ASSUME Types, Places, NEW c \in Calls, PushMap(c) \/ PushReduce(c)
    PROVE  Places'
<1>1. PICK t : Pushes(c, t)
  BY PushTask
<1>2. /\ t \in Tasks /\ t.call = c /\ t.slot = Len(outputs[c]) + 1 /\ ~Live(t)
      /\ \A x : Queued(x)' <=> Queued(x) \/ x = t
      /\ \A w \in Workers : \A x : Holding(w, x)' <=> Holding(w, x)
  BY <1>1 DEF Pushes
<1>3. \A x : Live(x)' <=> Live(x) \/ x = t
  BY <1>2 DEF Live
<1>4. /\ Len(outputs[c]) \in Nat /\ Len(outputs'[c]) = Len(outputs[c]) + 1
      /\ outputs'[c][Len(outputs[c]) + 1] = Unset
      /\ \A n \in 1 .. Len(outputs[c]) : outputs'[c][n] = outputs[c][n]
      /\ \A d \in Calls : d # c => outputs'[d] = outputs[d]
  BY <1>1, PushOutputs DEF Pushes
<1>5. OnePlace'
  <2>1. \A w \in Workers, x \in Tasks : Holding(w, x) => Live(x)
    BY DEF Live
  <2> QED BY <1>1, <1>2, <2>1 DEF Pushes, OnePlace, Places
<1>6. ASSUME NEW x \in Tasks, Live(x)'
      PROVE  x.slot <= Len(outputs'[x.call]) /\ outputs'[x.call][x.slot] = Unset
  <2>1. CASE x = t
    BY <1>2, <1>4, <2>1
  <2>2. CASE x # t
    <3>1. x.slot <= Len(outputs[x.call]) /\ outputs[x.call][x.slot] = Unset
      BY <1>3, <1>6, <2>2 DEF Places, OneTask
    <3>2. x.call \in Calls /\ x.slot \in Nat \ {0}
      BY TaskFacts
    <3> QED BY <1>4, <3>1, <3>2
  <2> QED BY <2>1, <2>2
<1>7. ASSUME NEW x \in Tasks, NEW u \in Tasks, Live(x)', Live(u)', x.call = u.call, x.slot = u.slot
      PROVE  x = u
  <2>1. \A z \in Tasks : Live(z) /\ z.call = c => z.slot # Len(outputs[c]) + 1
    <3> SUFFICES ASSUME NEW z \in Tasks, Live(z), z.call = c, z.slot = Len(outputs[c]) + 1
                 PROVE  FALSE
      OBVIOUS
    <3>1. z.slot <= Len(outputs[c])
      BY DEF Places, OneTask
    <3> QED BY <1>4, <3>1
  <2>2. Live(x) /\ Live(u) => x = u
    BY <1>7 DEF Places, OneTask
  <2> QED BY <1>2, <1>3, <1>7, <2>1, <2>2
<1>8. ASSUME NEW d \in Calls, NEW n \in 1 .. Len(outputs'[d]), outputs'[d][n] = Unset
      PROVE  \E x \in Tasks : Live(x)' /\ x.call = d /\ x.slot = n
  <2>1. CASE d = c /\ n = Len(outputs[c]) + 1
    BY <1>2, <1>3, <2>1
  <2>2. CASE ~(d = c /\ n = Len(outputs[c]) + 1)
    <3>1. n \in 1 .. Len(outputs[d]) /\ outputs[d][n] = Unset
      <4>1. CASE d = c
        <5>1. n \in 1 .. Len(outputs[c])
          BY <1>4, <2>2, <4>1
        <5> QED BY <1>4, <1>8, <4>1, <5>1
      <4>2. CASE d # c
        BY <1>4, <1>8, <4>2
      <4> QED BY <4>1, <4>2
    <3>2. PICK x \in Tasks : Live(x) /\ x.call = d /\ x.slot = n
      BY <3>1 DEF Places, OneTask
    <3> QED BY <1>3, <3>2
  <2> QED BY <2>1, <2>2
<1>9. ASSUME NEW d \in Calls, at'[d] = "done" PROVE outputs'[d][Len(outputs'[d])] # Unset
  <2>1. d # c /\ at[d] = "done"
    BY <1>9 DEF PushMap, PushReduce, Types, Shape
  <2> QED BY <1>4, <2>1 DEF Places, OneTask
<1>10. OneTask'
  BY <1>6, <1>7, <1>8, <1>9 DEF OneTask
<1> QED BY <1>5, <1>10 DEF Places

-----------------------------------------------------------------------------
\* A thread takes one task from its queue.
LEMMA PopTask ==
    ASSUME Types, Places, NEW w \in Workers, PopMap(w) \/ PopReduce(w)
    PROVE  /\ Apart(map_queue, Calls, CallOf)' /\ Apart(reduce_queue, Calls, CallOf)'
           /\ \E t \in Tasks :
                /\ Queued(t) /\ \A x : Queued(x)' <=> Queued(x) /\ x # t
                /\ \A v \in Workers : \A x : Holding(v, x)' <=> Holding(v, x) \/ (v = w /\ x = t)
<1>1. /\ map_queue \in [Calls -> Seq(MapTasks)] /\ reduce_queue \in [Calls -> Seq(ReduceTasks)]
      /\ Apart(map_queue, Calls, CallOf) /\ Apart(reduce_queue, Calls, CallOf)
  BY DEF Types, Shape, Places, OnePlace
<1>2. /\ \A x : Holds(map_queue, Calls, x) => x \in MapTasks
      /\ \A x : Holds(reduce_queue, Calls, x) => x \in ReduceTasks
  BY <1>1, ElementOfSeq DEF Holds
<1>3. MapTasks \intersect ReduceTasks = {}
  BY TaskFacts
<1>4. CASE PopMap(w)
  <2>1. PICK c \in Calls : map_queue[c] # <<>> /\ task' = [task EXCEPT ![w] = Head(map_queue[c])]
                           /\ map_queue' = PopOf(map_queue, c)
    BY <1>4 DEF PopMap, PopOf
  <2>2. PICK t : t = Head(map_queue[c])
    OBVIOUS
  <2>3. /\ t \in MapTasks /\ Holds(map_queue, Calls, t)
        /\ \A x : Holds(map_queue', Calls, x) <=> Holds(map_queue, Calls, x) /\ x # t
    BY <1>1, <2>1, <2>2, PopHolds DEF Apart
  <2>4. Apart(map_queue', Calls, CallOf)
    BY <1>1, <2>1, PopApart
  <2>5. reduce_queue' = reduce_queue /\ pc[w] = "map" /\ pc' = [pc EXCEPT ![w] = "mapping"]
    BY <1>4 DEF PopMap, Goes
  <2>6. Apart(map_queue, Calls, CallOf)' /\ Apart(reduce_queue, Calls, CallOf)'
    BY <1>1, <2>4, <2>5 DEF Apart, Once, Belongs
  <2>7. ~Holds(reduce_queue, Calls, t)
    BY <1>2, <1>3, <2>3
  <2>8. Queued(t) /\ \A x : Queued(x)' <=> Queued(x) /\ x # t
    BY <2>3, <2>5, <2>7 DEF Queued, Holds
  <2>9. \A v \in Workers : \A x : Holding(v, x)' <=> Holding(v, x) \/ (v = w /\ x = t)
    BY <2>1, <2>2, <2>5 DEF Holding, Types, Shape
  <2> QED BY <2>3, <2>6, <2>8, <2>9 DEF Tasks
<1>5. CASE PopReduce(w)
  <2>1. PICK c \in Calls : TakeReduce(w, c, Tail(reduce_queue[c]))
    BY <1>5 DEF PopReduce
  <2>2. PICK t : t = Head(reduce_queue[c])
    OBVIOUS
  <2>3. /\ reduce_queue[c] # <<>> /\ reduce_queue' = PopOf(reduce_queue, c)
        /\ task' = [task EXCEPT ![w] = t]
        /\ map_queue' = map_queue /\ pc[w] = "reduce" /\ pc' = [pc EXCEPT ![w] = "reducing"]
    BY <2>1, <2>2 DEF TakeReduce, Goes, PopOf
  <2>4. /\ t \in ReduceTasks /\ Holds(reduce_queue, Calls, t)
        /\ \A x : Holds(reduce_queue', Calls, x) <=> Holds(reduce_queue, Calls, x) /\ x # t
    BY <1>1, <2>2, <2>3, PopHolds DEF Apart
  <2>5. Apart(reduce_queue', Calls, CallOf)
    BY <1>1, <2>3, PopApart
  <2>6. Apart(map_queue, Calls, CallOf)' /\ Apart(reduce_queue, Calls, CallOf)'
    BY <1>1, <2>3, <2>5 DEF Apart, Once, Belongs
  <2>7. ~Holds(map_queue, Calls, t)
    BY <1>2, <1>3, <2>4
  <2>8. Queued(t) /\ \A x : Queued(x)' <=> Queued(x) /\ x # t
    <3>1. \A x : Holds(map_queue', Calls, x) <=> Holds(map_queue, Calls, x)
      BY <2>3
    <3>2. \A x : Queued(x)' <=> Holds(map_queue', Calls, x) \/ Holds(reduce_queue', Calls, x)
      BY DEF Queued, Holds
    <3> QED BY <2>4, <2>7, <3>1, <3>2 DEF Queued
  <2>9. \A v \in Workers : \A x : Holding(v, x)' <=> Holding(v, x) \/ (v = w /\ x = t)
    BY <2>3 DEF Holding, Types, Shape
  <2> QED BY <2>4, <2>6, <2>8, <2>9 DEF Tasks
<1> QED BY <1>4, <1>5

LEMMA PlacesPop ==
    ASSUME Types, Places, NEW w \in Workers, PopMap(w) \/ PopReduce(w)
    PROVE  Places' /\ \A x \in Tasks : Live(x)' <=> Live(x)
<1>1. PICK t \in Tasks :
        /\ Queued(t) /\ \A x : Queued(x)' <=> Queued(x) /\ x # t
        /\ \A v \in Workers : \A x : Holding(v, x)' <=> Holding(v, x) \/ (v = w /\ x = t)
  BY PopTask
<1>2. \A x : Live(x)' <=> Live(x)
  BY <1>1 DEF Live
<1>3. OnePlace'
  BY <1>1, PopTask DEF OnePlace, Places
<1>4. UNCHANGED <<outputs, at>>
  BY DEF PopMap, PopReduce, TakeReduce, calls
<1>5. OneTask'
  BY <1>2, <1>4 DEF OneTask, Places
<1> QED BY <1>2, <1>3, <1>5 DEF Places

\* A thread that is done with its task leaves it.
LEMMA PlacesSet ==
    ASSUME Types, Places, NEW w \in Workers, pc[w] \in {"mapping", "reducing"},
           NEW v \in Seq(Inputs), v # Unset, SetOutput(w, v)
    PROVE  Places' /\ \A x \in Tasks : Live(x)' <=> Live(x) /\ x # task[w]
<1>1. PICK t : t = task[w]
  OBVIOUS
<1>2. /\ t \in Tasks /\ t.slot \in 1 .. Len(outputs[t.call]) /\ t.call \in Calls
      /\ outputs' \in [Calls -> Seq(Seq(Inputs))]
      /\ \A c \in Calls : Len(outputs'[c]) = Len(outputs[c])
      /\ \A c \in Calls \ {t.call} : outputs'[c] = outputs[c]
      /\ outputs'[t.call][t.slot] = v
      /\ \A n \in 1 .. Len(outputs[t.call]) \ {t.slot} : outputs'[t.call][n] = outputs[t.call][n]
  <2>1. FutureSet(t, v)
    BY <1>1, SetFacts
  <2> QED BY <2>1 DEF FutureSet
<1>3. /\ pc' = [pc EXCEPT ![w] = "loop"] /\ task' = [task EXCEPT ![w] = NoTask]
      /\ UNCHANGED <<map_queue, reduce_queue, at>>
  BY DEF SetOutput, Goes, calls, queues
<1>4. /\ \A u \in Workers : \A x : Holding(u, x)' <=> Holding(u, x) /\ u # w
      /\ \A x : Queued(x)' <=> Queued(x)
      /\ Holding(w, t) /\ \A x : Holding(w, x) => x = t
  BY <1>1, <1>3 DEF Holding, Queued, Holds, Types, Shape
<1>5. ~Queued(t) /\ \A u \in Workers : Holding(u, t) => u = w
  BY <1>2, <1>4 DEF OnePlace, Places
<1>6. \A x \in Tasks : Live(x)' <=> Live(x) /\ x # t
  BY <1>4, <1>5 DEF Live
<1>7. OnePlace'
  <2>1. Apart(map_queue, Calls, CallOf)' /\ Apart(reduce_queue, Calls, CallOf)'
    BY <1>3 DEF OnePlace, Places, Apart, Once, Belongs
  <2> QED BY <1>4, <2>1 DEF OnePlace, Places
<1>8. ASSUME NEW x \in Tasks, Live(x)'
      PROVE  x.slot <= Len(outputs'[x.call]) /\ outputs'[x.call][x.slot] = Unset
  <2>1. Live(x) /\ x # t
    BY <1>6, <1>8
  <2>2. x.slot <= Len(outputs[x.call]) /\ outputs[x.call][x.slot] = Unset
        /\ ~(x.call = t.call /\ x.slot = t.slot)
    <3>1. Live(t)
      BY <1>4 DEF Live
    <3> QED BY <1>2, <2>1, <3>1 DEF Places, OneTask
  <2>3. x.call \in Calls /\ x.slot \in Nat \ {0} /\ Len(outputs[x.call]) \in Nat
    <3>1. x.call \in Calls /\ x.slot \in Nat \ {0}
      BY TaskFacts
    <3> QED BY <3>1, LenProperties DEF Types, Shape
  <2>4. x.slot \in 1 .. Len(outputs[x.call])
    BY <2>2, <2>3
  <2> QED BY <1>2, <2>2, <2>3, <2>4
<1>9. ASSUME NEW d \in Calls, NEW n \in 1 .. Len(outputs'[d]), outputs'[d][n] = Unset
      PROVE  \E x \in Tasks : Live(x)' /\ x.call = d /\ x.slot = n
  <2>1. n \in 1 .. Len(outputs[d]) /\ ~(d = t.call /\ n = t.slot) /\ outputs[d][n] = Unset
    BY <1>2, <1>9
  <2>2. PICK x \in Tasks : Live(x) /\ x.call = d /\ x.slot = n
    BY <2>1 DEF Places, OneTask
  <2> QED BY <1>6, <2>1, <2>2
<1>10. ASSUME NEW d \in Calls, at'[d] = "done" PROVE outputs'[d][Len(outputs'[d])] # Unset
  <2>1. at[d] = "done" /\ outputs[d][Len(outputs[d])] # Unset
    BY <1>3, <1>10 DEF Places, OneTask
  <2>2. Len(outputs[d]) \in 1 .. Len(outputs[d])
    <3>1. PICK N \in Nat \ {0} : N = Len(InputsOf[d])
      BY VectorFacts
    <3>2. Len(outputs[d]) = 2 * N - 1
      BY <2>1, <3>1 DEF Types, Cursor, CursorOf
    <3> QED BY <3>1, <3>2
  <2> QED BY <1>2, <2>1, <2>2
<1>11. OneTask'
  <2>1. \A x, u \in Tasks : Live(x)' /\ Live(u)' /\ x.call = u.call /\ x.slot = u.slot => x = u
    BY <1>6 DEF Places, OneTask
  <2> QED BY <1>8, <1>9, <1>10, <2>1 DEF OneTask
<1> QED BY <1>1, <1>6, <1>7, <1>11 DEF Places
-----------------------------------------------------------------------------
\* Reading positions one after the other gives the inputs in that order.
LEMMA ReadFacts ==
    ASSUME NEW c \in Calls, NEW a \in Seq(1 .. Len(InputsOf[c])), NEW b \in Seq(1 .. Len(InputsOf[c]))
    PROVE  /\ Read(c, a) \in Seq(Inputs) /\ Len(Read(c, a)) = Len(a)
           /\ a # <<>> => Read(c, a) # Unset
           /\ Read(c, a \o b) = Read(c, a) \o Read(c, b)
<1> DEFINE N == Len(InputsOf[c])
<1>1. \A n \in 1 .. N : InputsOf[c][n] \in Inputs
  BY VectorFacts
<1>2. ASSUME NEW s \in Seq(1 .. N)
      PROVE  /\ Read(c, s) \in Seq(Inputs) /\ Len(Read(c, s)) = Len(s) /\ Len(s) \in Nat
             /\ \A k \in 1 .. Len(s) : Read(c, s)[k] = InputsOf[c][s[k]]
  <2>1. Len(s) \in Nat /\ \A k \in 1 .. Len(s) : s[k] \in 1 .. N
    BY LenProperties, ElementOfSeq
  <2>2. Read(c, s) \in [1 .. Len(s) -> Inputs]
    BY <1>1, <2>1 DEF Read
  <2>3. Read(c, s) \in Seq(Inputs) /\ Len(Read(c, s)) = Len(s)
    <3> HIDE DEF N
    <3>1. Read(c, s) \in Seq(Inputs)
      <4>1. PICK L \in Nat : L = Len(s)
        BY <2>1
      <4>2. Read(c, s) \in [1 .. L -> Inputs]
        BY <2>2, <4>1
      <4> HIDE DEF Read
      <4> QED BY <4>2, SeqDef
    <3>2. DOMAIN Read(c, s) = 1 .. Len(s)
      BY <2>2
    <3> QED BY <2>1, <3>1, <3>2, LenProperties
  <2> QED BY <2>1, <2>3 DEF Read
<1>3. a # <<>> => Read(c, a) # Unset
  BY <1>2, EmptySeq DEF Unset
<1>4. Read(c, a \o b) = Read(c, a) \o Read(c, b)
  <2>1. /\ a \o b \in Seq(1 .. N) /\ Len(a \o b) = Len(a) + Len(b)
        /\ \A i \in 1 .. Len(a) + Len(b) : (a \o b)[i] = IF i <= Len(a) THEN a[i] ELSE b[i - Len(a)]
    BY ConcatProperties
  <2> DEFINE l == Read(c, a \o b)
             r == Read(c, a) \o Read(c, b)
  <2>2. /\ r \in Seq(Inputs) /\ Len(r) = Len(a) + Len(b)
        /\ \A i \in 1 .. Len(a) + Len(b) :
             r[i] = IF i <= Len(a) THEN Read(c, a)[i] ELSE Read(c, b)[i - Len(a)]
    <3>1. Read(c, a) \in Seq(Inputs) /\ Read(c, b) \in Seq(Inputs)
          /\ Len(Read(c, a)) = Len(a) /\ Len(Read(c, b)) = Len(b)
      BY <1>2
    <3>2. /\ r \in Seq(Inputs) /\ Len(r) = Len(Read(c, a)) + Len(Read(c, b))
          /\ \A i \in 1 .. Len(Read(c, a)) + Len(Read(c, b)) :
               r[i] = IF i <= Len(Read(c, a)) THEN Read(c, a)[i] ELSE Read(c, b)[i - Len(Read(c, a))]
      <4> HIDE DEF Read
      <4> QED BY <3>1, ConcatProperties
    <3> QED BY <3>1, <3>2
  <2>3. /\ l \in Seq(Inputs) /\ Len(l) = Len(a) + Len(b)
        /\ \A i \in 1 .. Len(a) + Len(b) : l[i] = InputsOf[c][(a \o b)[i]]
    BY <1>2, <2>1
  <2>4. \A i \in 1 .. Len(a) + Len(b) : l[i] = r[i]
    <3> SUFFICES ASSUME NEW i \in 1 .. Len(a) + Len(b) PROVE l[i] = r[i]
      OBVIOUS
    <3> HIDE DEF l, r, N
    <3>1. Len(a) \in Nat /\ Len(b) \in Nat
      BY <1>2 DEF N
    <3>2. CASE i <= Len(a)
      <4>1. i \in 1 .. Len(a) /\ (a \o b)[i] = a[i] /\ r[i] = Read(c, a)[i]
        BY <2>1, <2>2, <3>1, <3>2
      <4> QED BY <1>2, <2>3, <4>1 DEF N
    <3>3. CASE ~(i <= Len(a))
      <4>1. i - Len(a) \in 1 .. Len(b) /\ (a \o b)[i] = b[i - Len(a)] /\ r[i] = Read(c, b)[i - Len(a)]
        BY <2>1, <2>2, <3>1, <3>3
      <4> QED BY <1>2, <2>3, <4>1 DEF N
    <3> QED BY <3>2, <3>3
  <2> HIDE DEF l, r
  <2>5. l = r
    BY <2>2, <2>3, <2>4, SeqEqual
  <2> QED BY <2>5 DEF l, r
<1> QED BY <1>2, <1>3, <1>4

\* A task sets its future to something.
LEMMA GivesSomething ==
    ASSUME Types, Places, TreeKept, NEW t \in Tasks, Live(t) PROVE Gives(t) # Unset
<1>1. t.call \in Calls /\ t.slot \in 1 .. Len(outputs[t.call])
  <2>1. t.call \in Calls /\ t.slot \in Nat \ {0} /\ t.slot <= Len(outputs[t.call])
    BY TaskFacts DEF Places, OneTask
  <2>2. Len(outputs[t.call]) \in Nat
    BY <2>1, LenProperties DEF Types, Shape
  <2> QED BY <2>1, <2>2
<1>2. PICK leaves \in Leaves(t.call) : Tree(t.call, leaves)
  BY <1>1 DEF TreeKept
<1>3. /\ leaves[t.slot] \in Seq(1 .. Len(InputsOf[t.call])) /\ leaves[t.slot] # <<>>
      /\ Gives(t) = Read(t.call, leaves[t.slot])
  <2>1. t.slot \in Nat
    BY TaskFacts
  <2> QED BY <1>1, <1>2, <2>1 DEF Tree, Leaves
<1> QED BY <1>1, <1>3, ReadFacts

\* A step that leaves a call's futures and brings no task for it.
LEMMA TreeFrame ==
    ASSUME TreeKept, NEW c \in Calls, UNCHANGED <<outputs[c], next[c]>>,
           \/ at'[c] = at[c]
           \/ <<at[c], at'[c]>> \in {<<"idle", "get">>, <<"get", "map">>, <<"last", "done">>},
           \A t \in Tasks : Live(t)' /\ t.call = c => Live(t)
    PROVE  \E leaves \in Leaves(c) : Tree(c, leaves)'
<1>1. PICK leaves \in Leaves(c) : Tree(c, leaves)
  BY DEF TreeKept
<1>2. Roots(c)' = Roots(c)
  BY DEF Roots
<1>3. Mapped(c)' = Mapped(c)
  BY DEF Mapped
<1>4. Tree(c, leaves)'
  <2>1. Once(leaves, Roots(c))' /\ \A p : Holds(leaves, Roots(c), p)' <=> p \in 1 .. Mapped(c)'
    BY <1>1, <1>2, <1>3 DEF Tree, Once, Holds
  <2>2. \A n \in 1 .. Len(outputs'[c]) :
          leaves[n] # <<>> /\ (outputs'[c][n] # Unset => outputs'[c][n] = Read(c, leaves[n]))
    BY <1>1 DEF Tree
  <2>3. \A t \in Tasks : Live(t)' /\ t.call = c => Gives(t) = Read(c, leaves[t.slot])
    BY <1>1 DEF Tree
  <2> QED BY <2>1, <2>2, <2>3 DEF Tree
<1> QED BY <1>1, <1>4

\* The future of a map stands for one more input.
LEMMA TreePushMap ==
    ASSUME Types, Places, TreeKept, NEW c \in Calls, PushMap(c)
    PROVE  \E leaves \in Leaves(c) : Tree(c, leaves)'
<1>1. PICK old \in Leaves(c) : Tree(c, old)
  BY DEF TreeKept
<1>2. PICK t : Pushes(c, t)
  BY PushTask
<1>3. PICK N \in Nat \ {0} : N = Len(InputsOf[c])
  BY VectorFacts
<1>4. PICK n \in 1 .. N : n = next[c] /\ Len(outputs[c]) = n - 1
  BY <1>3 DEF PushMap, Types, Cursor, CursorOf
<1>5. /\ at[c] = "map" /\ at'[c] \in {"map", "pair", "last"}
      /\ at'[c] = "map" => n # N
      /\ at'[c] # "map" => n = N /\ next'[c] = 1
  BY <1>3, <1>4 DEF PushMap, Types, Shape
<1>6. /\ Len(outputs'[c]) = n /\ outputs'[c][n] = Unset
      /\ \A k \in 1 .. n - 1 : outputs'[c][k] = outputs[c][k]
  <2>1. /\ Len(outputs'[c]) = Len(outputs[c]) + 1 /\ outputs'[c][Len(outputs[c]) + 1] = Unset
        /\ \A k \in 1 .. Len(outputs[c]) : outputs'[c][k] = outputs[c][k]
    BY <1>2, PushOutputs DEF Pushes
  <2> QED BY <1>4, <2>1
<1>7. Roots(c) = 1 .. n - 1 /\ Mapped(c) = n - 1
  BY <1>4, <1>5 DEF Roots, Mapped
<1>8. Roots(c)' = 1 .. n /\ Mapped(c)' = n
  <2>1. Mapped(c)' = n
    BY <1>3, <1>5, <1>6 DEF Mapped
  <2>2. \A k \in 1 .. n : at'[c] \in {"pair", "last", "done"} => k >= 2 * next'[c] - 1
    BY <1>5
  <2> QED BY <1>6, <2>1, <2>2 DEF Roots
<1> DEFINE new == [old EXCEPT ![n] = <<n>>]
<1>9. new \in Leaves(c) /\ new[n] = <<n>> /\ <<n>> # <<>> /\ \A k \in Nat \ {n} : new[k] = old[k]
  <2>0. \A k \in 1 .. N : <<k>> \in Seq(1 .. N) /\ <<k>> # <<>>
    OBVIOUS
  <2>1. PICK v \in Seq(1 .. N) : v = <<n>> /\ v # <<>>
    BY <2>0
  <2>2. old \in [Nat -> Seq(1 .. N)] /\ Leaves(c) = [Nat -> Seq(1 .. N)] /\ n \in Nat
    BY <1>3 DEF Leaves
  <2>3. new = [old EXCEPT ![n] = v]
    BY <2>1
  <2> HIDE DEF new
  <2> QED BY <2>1, <2>2, <2>3
<1> HIDE DEF new
<1>10. Once(new, 1 .. n) /\ \A p : Holds(new, 1 .. n, p) <=> p \in 1 .. n
  <2> DEFINE R == 1 .. n - 1
             S == 1 .. n
             V == 1 .. N
  <2>2. Once(old, R) /\ ~Holds(old, R, n) /\ \A p : Holds(old, R, p) <=> p \in 1 .. n - 1
    BY <1>1, <1>7 DEF Tree
  <2>3. Opened(old, new, R, S, n, n)
    <3>1. n \notin R /\ S = R \union {n} /\ \A k \in R : new[k] = old[k]
      BY <1>9
    <3>2. Len(new[n]) = 1 /\ new[n][1] = n
      BY <1>9
    <3> QED BY <3>1, <3>2 DEF Opened
  <2>4. \A p : p \in 1 .. n - 1 \/ p = n <=> p \in 1 .. n
    OBVIOUS
  <2> HIDE DEF R, S, V
  <2>5. Once(new, S)
    BY <2>2, <2>3, NewStream
  <2>6. \A p : Holds(new, S, p) <=> Holds(old, R, p) \/ p = n
    BY <2>3, NewStreamHolds
  <2> QED BY <2>2, <2>4, <2>5, <2>6 DEF S
<1>11. Read(c, <<n>>) = <<InputsOf[c][n]>>
  BY DEF Read
<1>12. /\ t.call = c /\ t.slot = n /\ Gives(t) = <<InputsOf[c][n]>>
       /\ \A x : Live(x)' <=> Live(x) \/ x = t
  <2>1. t.call = c /\ t.slot = n /\ t \in MapTasks /\ t.input = InputsOf[c][n]
    BY <1>2, <1>4, <1>5 DEF Pushes, PushReduce
  <2>2. \A x : Live(x)' <=> Live(x) \/ x = t
    BY <1>2 DEF Pushes, Live
  <2> QED BY <2>1, <2>2 DEF Gives
<1>13. \A k \in 1 .. Len(outputs'[c]) :
         new[k] # <<>> /\ (outputs'[c][k] # Unset => outputs'[c][k] = Read(c, new[k]))
  <2> SUFFICES ASSUME NEW k \in 1 .. n
               PROVE  new[k] # <<>> /\ (outputs'[c][k] # Unset => outputs'[c][k] = Read(c, new[k]))
    BY <1>6
  <2>1. CASE k = n
    BY <1>6, <1>9, <2>1
  <2>2. CASE k # n
    <3>1. k \in 1 .. n - 1 /\ k \in 1 .. Len(outputs[c]) /\ new[k] = old[k]
      BY <1>4, <1>9, <2>2
    <3> QED BY <1>1, <1>6, <3>1 DEF Tree
  <2> QED BY <2>1, <2>2
<1>14. ASSUME NEW x \in Tasks, Live(x)', x.call = c PROVE Gives(x) = Read(c, new[x.slot])
  <2>1. CASE x = t
    BY <1>9, <1>11, <1>12, <2>1
  <2>2. CASE x # t
    <3>1. Live(x) /\ x.slot <= n - 1 /\ x.slot \in Nat
      BY <1>4, <1>12, <1>14, <2>2, TaskFacts DEF Places, OneTask
    <3>2. new[x.slot] = old[x.slot]
      BY <1>9, <3>1
    <3> QED BY <1>1, <1>14, <3>1, <3>2 DEF Tree
  <2> QED BY <2>1, <2>2
<1>15. Once(new, Roots(c))' /\ \A p : Holds(new, Roots(c), p)' <=> p \in 1 .. Mapped(c)'
  BY <1>8, <1>10 DEF Once, Holds
<1>16. Tree(c, new)'
  BY <1>13, <1>14, <1>15 DEF Tree
<1> QED BY <1>9, <1>16

\* The future of a reduction takes the place of the two futures it reads.
LEMMA TreePushReduce ==
    ASSUME Types, Places, TreeKept, NEW c \in Calls, PushReduce(c)
    PROVE  \E leaves \in Leaves(c) : Tree(c, leaves)'
<1>1. PICK old \in Leaves(c) : Tree(c, old)
  BY DEF TreeKept
<1>2. PICK t : Pushes(c, t)
  BY PushTask
<1>3. PICK N \in Nat \ {0} : N = Len(InputsOf[c])
  BY VectorFacts
<1>4. PICK n \in 1 .. N - 1 : n = next[c]
  BY <1>3 DEF PushReduce, Types, Cursor, CursorOf
<1>5. PICK L \in Nat : L = Len(outputs[c]) /\ L = N + n - 1
  <2>1. Len(outputs[c]) = N + n - 1
    BY <1>3, <1>4 DEF PushReduce, Types, Cursor, CursorOf
  <2> QED BY <2>1
<1>6. at[c] = "pair" /\ at'[c] \in {"pair", "last"} /\ next'[c] = n + 1
  BY <1>4 DEF PushReduce, Types, Shape
<1>7. /\ Len(outputs'[c]) = L + 1 /\ outputs'[c][L + 1] = Unset
      /\ \A k \in 1 .. L : outputs'[c][k] = outputs[c][k]
  <2>1. /\ Len(outputs'[c]) = Len(outputs[c]) + 1 /\ outputs'[c][Len(outputs[c]) + 1] = Unset
        /\ \A k \in 1 .. Len(outputs[c]) : outputs'[c][k] = outputs[c][k]
    BY <1>2, PushOutputs DEF Pushes
  <2> QED BY <1>5, <2>1
<1> DEFINE a == 2 * n - 1
           b == 2 * n
           z == L + 1
           R == {k \in 1 .. L : k >= a}
           S == (R \ {a, b}) \union {z}
<1>8. a \in 1 .. L /\ b \in 1 .. L /\ a # b /\ a \in R /\ b \in R /\ z \in Nat /\ z \notin R
  BY <1>5
<1>9. Roots(c) = R /\ Mapped(c) = N
  BY <1>3, <1>4, <1>5, <1>6 DEF Roots, Mapped
<1>10. Roots(c)' = S /\ Mapped(c)' = N
  <2>1. Mapped(c)' = N
    BY <1>3, <1>6 DEF Mapped
  <2>2. Roots(c)' = {k \in 1 .. L + 1 : k >= 2 * (n + 1) - 1}
    BY <1>6, <1>7 DEF Roots
  <2>3. \A k \in 1 .. L + 1 : k >= 2 * (n + 1) - 1 <=> k \in S
    BY <1>5
  <2>4. S \subseteq 1 .. L + 1
    OBVIOUS
  <2> QED BY <2>1, <2>2, <2>3, <2>4
<1>11. /\ old[a] \in Seq(1 .. N) /\ old[b] \in Seq(1 .. N) /\ old[a] # <<>>
       /\ a \in 1 .. Len(outputs[c]) /\ b \in 1 .. Len(outputs[c])
  <2>1. a \in 1 .. Len(outputs[c]) /\ b \in 1 .. Len(outputs[c]) /\ a \in Nat /\ b \in Nat
    BY <1>5, <1>8
  <2> HIDE DEF a, b
  <2> QED BY <1>1, <1>3, <2>1 DEF Tree, Leaves
<1> HIDE DEF a, b, z, R, S
<1> DEFINE new == [old EXCEPT ![z] = old[a] \o old[b]]
<1>12. new \in Leaves(c) /\ new[z] = old[a] \o old[b] /\ \A k \in Nat \ {z} : new[k] = old[k]
  <2> DEFINE j == old[a] \o old[b]
  <2>1. j \in Seq(1 .. N)
    BY <1>11, ConcatProperties
  <2> HIDE DEF j
  <2>2. new = [old EXCEPT ![z] = j]
    BY DEF j
  <2>3. new \in Leaves(c) /\ new[z] = j /\ \A k \in Nat \ {z} : new[k] = old[k]
    BY <1>3, <1>8, <2>1, <2>2 DEF Leaves
  <2> QED BY <2>3 DEF j
<1> HIDE DEF new
<1>13. Once(new, S) /\ \A p : Holds(new, S, p) <=> p \in 1 .. N
  <2> DEFINE V == 1 .. N
  <2>1. old \in [Nat -> Seq(V)] /\ new \in [Nat -> Seq(V)] /\ R \subseteq Nat
    <3>1. R \subseteq Nat
      BY DEF R
    <3> QED BY <1>3, <1>12, <3>1 DEF Leaves
  <2>2. Once(old, R) /\ \A p : Holds(old, R, p) <=> p \in 1 .. N
    BY <1>1, <1>9 DEF Tree
  <2>3. Joined(old, new, R, S, a, b, z)
    <3>1. \A k \in R : new[k] = old[k]
      BY <1>8, <1>12, <2>1
    <3>2. S = (R \ {a, b}) \union {z}
      BY DEF S
    <3> QED BY <1>8, <1>12, <3>1, <3>2 DEF Joined
  <2> HIDE DEF V
  <2>4. Once(new, S)
    BY <2>1, <2>2, <2>3, JoinStreams
  <2>5. \A p : Holds(new, S, p) <=> Holds(old, R, p)
    BY <2>1, <2>3, JoinStreamsHold
  <2> QED BY <2>2, <2>4, <2>5
<1>14. /\ t.call = c /\ t.slot = z /\ t \in ReduceTasks
       /\ t.first = outputs[c][a] /\ t.second = outputs[c][b] /\ t.first # Unset /\ t.second # Unset
  BY <1>2, <1>4, <1>5, <1>6 DEF Pushes, PushMap, a, b, z
<1>15. Gives(t) = Read(c, new[z])
  <2>1. t.first = Read(c, old[a]) /\ t.second = Read(c, old[b])
    BY <1>1, <1>11, <1>14 DEF Tree
  <2>2. Read(c, old[a] \o old[b]) = Read(c, old[a]) \o Read(c, old[b])
    BY <1>3, <1>11, ReadFacts
  <2>3. t \notin MapTasks
    BY <1>14, TaskFacts
  <2> QED BY <1>12, <2>1, <2>2, <2>3 DEF Gives
<1>16. \A x : Live(x)' <=> Live(x) \/ x = t
  BY <1>2 DEF Pushes, Live
<1>17. new[z] # <<>>
  <2>1. Len(old[a] \o old[b]) = Len(old[a]) + Len(old[b]) /\ Len(old[a]) \in Nat \ {0} /\ Len(old[b]) \in Nat
    BY <1>11, ConcatProperties, LenProperties, EmptySeq
  <2>2. Len(<<>>) = 0
    OBVIOUS
  <2> QED BY <1>12, <2>1, <2>2
<1>18. \A k \in 1 .. Len(outputs'[c]) :
         new[k] # <<>> /\ (outputs'[c][k] # Unset => outputs'[c][k] = Read(c, new[k]))
  <2> SUFFICES ASSUME NEW k \in 1 .. L + 1
               PROVE  new[k] # <<>> /\ (outputs'[c][k] # Unset => outputs'[c][k] = Read(c, new[k]))
    BY <1>7
  <2>1. CASE k = L + 1
    BY <1>7, <1>17, <2>1 DEF z
  <2>2. CASE k # L + 1
    <3>1. k \in 1 .. L /\ k \in 1 .. Len(outputs[c]) /\ new[k] = old[k]
      BY <1>5, <1>12, <2>2 DEF z
    <3> QED BY <1>1, <1>7, <3>1 DEF Tree
  <2> QED BY <2>1, <2>2
<1>19. ASSUME NEW x \in Tasks, Live(x)', x.call = c PROVE Gives(x) = Read(c, new[x.slot])
  <2>1. CASE x = t
    BY <1>14, <1>15, <2>1
  <2>2. CASE x # t
    <3>1. Live(x) /\ x.slot \in Nat
      BY <1>16, <1>19, <2>2, TaskFacts
    <3>2. x.slot <= Len(outputs[c])
      BY <1>19, <3>1 DEF Places, OneTask
    <3>3. new[x.slot] = old[x.slot]
      BY <1>5, <1>12, <3>1, <3>2 DEF z
    <3> QED BY <1>1, <1>19, <3>1, <3>3 DEF Tree
  <2> QED BY <2>1, <2>2
<1>20. Once(new, Roots(c))' /\ \A p : Holds(new, Roots(c), p)' <=> p \in 1 .. Mapped(c)'
  BY <1>10, <1>13 DEF Once, Holds
<1>21. Tree(c, new)'
  BY <1>18, <1>19, <1>20 DEF Tree
<1> QED BY <1>12, <1>21

\* A future that is set has what its task gives.
LEMMA TreeSet ==
    ASSUME Types, Places, TreeKept, NEW w \in Workers, Map(w) \/ Reduce(w), NEW c \in Calls
    PROVE  \E leaves \in Leaves(c) : Tree(c, leaves)'
<1>1. PICK t : t = task[w]
  OBVIOUS
<1>2. t \in Tasks /\ Gives(t) \in Seq(Inputs) /\ SetOutput(w, Gives(t)) /\ pc[w] \in {"mapping", "reducing"}
  BY <1>1, SetValue
<1>3. Live(t)
  BY <1>1, <1>2 DEF Live, Holding
<1>4. Gives(t) # Unset
  BY <1>2, <1>3, GivesSomething
<1>5. \A x \in Tasks : Live(x)' => Live(x)
  BY <1>2, <1>4, PlacesSet
<1>6. UNCHANGED <<at, next>>
  BY <1>2 DEF SetOutput, calls
<1>7. /\ t.slot \in 1 .. Len(outputs[t.call]) /\ t.call \in Calls
      /\ \A d \in Calls : Len(outputs'[d]) = Len(outputs[d])
      /\ \A d \in Calls \ {t.call} : outputs'[d] = outputs[d]
      /\ outputs'[t.call][t.slot] = Gives(t)
      /\ \A n \in 1 .. Len(outputs[t.call]) \ {t.slot} : outputs'[t.call][n] = outputs[t.call][n]
  <2> DEFINE v == Gives(t)
  <2>1. v \in Seq(Inputs) /\ SetOutput(w, v)
    BY <1>2
  <2> HIDE DEF v
  <2>2. FutureSet(t, v)
    BY <1>1, <1>2, <2>1, SetFacts
  <2> QED BY <2>2 DEF FutureSet, v
<1>8. CASE c # t.call
  BY <1>5, <1>6, <1>7, <1>8, TreeFrame
<1>9. CASE c = t.call
  <2>1. PICK leaves \in Leaves(c) : Tree(c, leaves)
    BY DEF TreeKept
  <2>2. Roots(c)' = Roots(c) /\ Mapped(c)' = Mapped(c)
    BY <1>6, <1>7 DEF Roots, Mapped
  <2>3. Gives(t) = Read(c, leaves[t.slot])
    BY <1>2, <1>3, <1>9, <2>1 DEF Tree
  <2>4. \A n \in 1 .. Len(outputs'[c]) :
          leaves[n] # <<>> /\ (outputs'[c][n] # Unset => outputs'[c][n] = Read(c, leaves[n]))
    <3> SUFFICES ASSUME NEW n \in 1 .. Len(outputs[c])
                 PROVE  leaves[n] # <<>> /\ (outputs'[c][n] # Unset => outputs'[c][n] = Read(c, leaves[n]))
      BY <1>7
    <3>1. CASE n = t.slot
      BY <1>7, <1>9, <2>1, <2>3, <3>1 DEF Tree
    <3>2. CASE n # t.slot
      BY <1>7, <1>9, <2>1, <3>2 DEF Tree
    <3> QED BY <3>1, <3>2
  <2>5. \A x \in Tasks : Live(x)' /\ x.call = c => Gives(x) = Read(c, leaves[x.slot])
    BY <1>5, <2>1 DEF Tree
  <2>6. Once(leaves, Roots(c))' /\ \A p : Holds(leaves, Roots(c), p)' <=> p \in 1 .. Mapped(c)'
    BY <2>1, <2>2 DEF Tree, Once, Holds
  <2>7. Tree(c, leaves)'
    BY <2>4, <2>5, <2>6 DEF Tree
  <2> QED BY <2>7
<1> QED BY <1>8, <1>9
-----------------------------------------------------------------------------
\* A step that leaves the futures and the tasks where they are.
LEMMA PlacesFrame ==
    ASSUME Places, UNCHANGED <<outputs, map_queue, reduce_queue>>,
           \A w \in Workers : \A x : Holding(w, x)' <=> Holding(w, x),
           \A c \in Calls : at'[c] = "done" => at[c] = "done" \/ outputs[c][Len(outputs[c])] # Unset
    PROVE  Places' /\ \A x : Live(x)' <=> Live(x)
<1>1. \A x : Queued(x)' <=> Queued(x)
  BY DEF Queued, Holds
<1>2. \A x : Live(x)' <=> Live(x)
  BY <1>1 DEF Live
<1>3. OnePlace'
  <2>1. Apart(map_queue, Calls, CallOf)' /\ Apart(reduce_queue, Calls, CallOf)'
    BY DEF OnePlace, Places, Apart, Once, Belongs
  <2> QED BY <1>1, <2>1 DEF OnePlace, Places
<1>4. OneTask'
  BY <1>2 DEF OneTask, Places
<1> QED BY <1>2, <1>3, <1>4 DEF Places

\* A step of a call that pushes nothing keeps its tree, if it moves on so.
Moves(c) ==
    \/ at'[c] = at[c]
    \/ <<at[c], at'[c]>> \in {<<"idle", "get">>, <<"get", "map">>, <<"last", "done">>}

LEMMA TreesFrame ==
    ASSUME Places, TreeKept, UNCHANGED <<outputs, next, map_queue, reduce_queue>>,
           \A w \in Workers : \A x : Holding(w, x)' <=> Holding(w, x),
           \A c \in Calls : Moves(c),
           \A c \in Calls : at'[c] = "done" => at[c] = "done" \/ outputs[c][Len(outputs[c])] # Unset
    PROVE  Places' /\ TreeKept'
<1>1. Places' /\ \A x : Live(x)' <=> Live(x)
  BY PlacesFrame
<1>2. ASSUME NEW c \in Calls PROVE \E leaves \in Leaves(c) : Tree(c, leaves)'
  <2>1. UNCHANGED <<outputs[c], next[c]>> /\ Moves(c)
    OBVIOUS
  <2> QED BY <1>1, <2>1, TreeFrame DEF Moves
<1>3. TreeKept'
  BY <1>2 DEF TreeKept, Leaves
<1> QED BY <1>1, <1>3

\* Every step keeps the places of the tasks and the trees.
LEMMA TreesStep == Types /\ Places /\ TreeKept /\ [Next]_vars => Places' /\ TreeKept'
<1> SUFFICES ASSUME Types, Places, TreeKept, [Next]_vars PROVE Places' /\ TreeKept'
  OBVIOUS
<1>0. /\ at \in [Calls -> {"idle", "get", "map", "pair", "last", "done"}]
      /\ pc \in [Workers -> {"off", "loop", "map", "reduce", "mapping", "reducing", "exited"}]
  BY DEF Types, Shape
<1>1. ASSUME NEW c \in Calls, Begin(c) PROVE Places' /\ TreeKept'
  BY <1>0, <1>1, TreesFrame DEF Begin, Holding, Moves, threads, queues
<1>2. ASSUME NEW c \in Calls, GetInputs(c) PROVE Places' /\ TreeKept'
  BY <1>0, <1>2, TreesFrame DEF GetInputs, Holding, Moves, threads, queues
<1>3. ASSUME NEW c \in Calls, PushMap(c) \/ PushReduce(c) PROVE Places' /\ TreeKept'
  <2>1. Places'
    BY <1>3, PlacesPush
  <2>2. PICK t : Pushes(c, t)
    BY <1>3, PushTask
  <2>3. t.call = c /\ \A x : Live(x)' <=> Live(x) \/ x = t
    BY <2>2 DEF Pushes, Live
  <2>4. \A d \in Calls : d # c => UNCHANGED <<outputs[d], next[d], at[d]>>
    <3>1. \A d \in Calls : d # c => outputs'[d] = outputs[d]
      BY <2>2, PushOutputs DEF Pushes
    <3>2. \A d \in Calls : d # c => next'[d] = next[d] /\ at'[d] = at[d]
      BY <1>3 DEF PushMap, PushReduce, Types, Shape
    <3> QED BY <3>1, <3>2
  <2>5. ASSUME NEW d \in Calls PROVE \E leaves \in Leaves(d) : Tree(d, leaves)'
    <3>1. CASE d = c
      BY <1>3, <3>1, TreePushMap, TreePushReduce
    <3>2. CASE d # c
      BY <2>3, <2>4, <3>2, TreeFrame
    <3> QED BY <3>1, <3>2
  <2>6. TreeKept'
    BY <2>5 DEF TreeKept, Leaves
  <2> QED BY <2>1, <2>6
<1>4. ASSUME NEW c \in Calls, Collect(c) PROVE Places' /\ TreeKept'
  BY <1>0, <1>4, TreesFrame DEF Collect, Holding, Moves, threads, queues
<1>5. ASSUME NEW x \in Calls \union Inputs, Supply(x) PROVE Places' /\ TreeKept'
  BY <1>5, TreesFrame DEF Supply, Holding, Moves, threads, calls, queues
<1>6. CASE InitBegin \/ InitEnd \/ DisposeBegin \/ Destroy
  BY <1>6, TreesFrame
  DEF InitBegin, InitEnd, DisposeBegin, Destroy, Holding, Moves, threads, calls, queues
<1>7. CASE DisposeEnd
  <2>1. \A w \in Workers : \A x : Holding(w, x)' <=> Holding(w, x)
    BY <1>7 DEF DisposeEnd, Holding
  <2> QED BY <1>7, <2>1, TreesFrame DEF DisposeEnd, Moves, calls, queues
<1>8. ASSUME NEW w \in Workers, Spawn(w) \/ TestDying(w) \/ PopFail(w) PROVE Places' /\ TreeKept'
  <2>1. \A v \in Workers : \A x : Holding(v, x)' <=> Holding(v, x)
    BY <1>0, <1>8 DEF Spawn, TestDying, PopFail, Goes, Holding
  <2>2. UNCHANGED <<outputs, next, at, map_queue, reduce_queue>>
    BY <1>8 DEF Spawn, TestDying, PopFail, calls, queues
  <2> QED BY <2>1, <2>2, TreesFrame DEF Moves
<1>9. ASSUME NEW w \in Workers, PopMap(w) \/ PopReduce(w) PROVE Places' /\ TreeKept'
  <2>1. Places' /\ \A x \in Tasks : Live(x)' <=> Live(x)
    BY <1>9, PlacesPop
  <2>2. UNCHANGED <<outputs, next, at>>
    BY <1>9 DEF PopMap, PopReduce, TakeReduce, calls
  <2>3. ASSUME NEW d \in Calls PROVE \E leaves \in Leaves(d) : Tree(d, leaves)'
    BY <2>1, <2>2, TreeFrame
  <2>4. TreeKept'
    BY <2>3 DEF TreeKept, Leaves
  <2> QED BY <2>1, <2>4
<1>10. ASSUME NEW w \in Workers, Map(w) \/ Reduce(w) PROVE Places' /\ TreeKept'
  <2>1. PICK t : t = task[w]
    OBVIOUS
  <2>2. t \in Tasks /\ Gives(t) \in Seq(Inputs) /\ SetOutput(w, Gives(t)) /\ pc[w] \in {"mapping", "reducing"}
    BY <1>10, <2>1, SetValue
  <2>3. Gives(t) # Unset
    BY <2>1, <2>2, GivesSomething DEF Live, Holding
  <2>4. Places'
    BY <2>2, <2>3, PlacesSet
  <2>5. \A d \in Calls : \E leaves \in Leaves(d) : Tree(d, leaves)'
    BY <1>10, TreeSet
  <2>6. TreeKept'
    BY <2>5 DEF TreeKept, Leaves
  <2> QED BY <2>4, <2>6
<1>11. CASE UNCHANGED vars
  BY <1>11, TreesFrame DEF vars, Holding, Moves, life, threads, calls, queues
<1> QED
  BY <1>1, <1>2, <1>3, <1>4, <1>5, <1>6, <1>7, <1>8, <1>9, <1>10, <1>11
  DEF Next, InCall, Worker, Terminated

-----------------------------------------------------------------------------
\* It holds at the start: no future, no task.
LEMMA InitIInv == Init => IInv
<1> SUFFICES ASSUME Init PROVE IInv
  OBVIOUS
<1>0. /\ pc = [w \in Workers |-> "off"] /\ task = [w \in Workers |-> NoTask]
      /\ at = [c \in Calls |-> "idle"] /\ next = [c \in Calls |-> 1]
      /\ outputs = [c \in Calls |-> <<>>]
      /\ map_queue = [c \in Calls |-> <<>>] /\ reduce_queue = [c \in Calls |-> <<>>]
      /\ supplied = {}
  BY DEF Init, Empty
<1>1. Types
  <2>1. \A S : <<>> \in Seq(S)
    OBVIOUS
  <2>2. \A w \in Workers : pc[w] = "off" /\ task[w] = NoTask
    BY <1>0
  <2>3. NoTask \notin MapTasks /\ NoTask \notin ReduceTasks
    BY TaskFacts DEF Tasks
  <2>4. /\ initialized \in BOOLEAN /\ dying \in BOOLEAN /\ up \in BOOLEAN
        /\ owner \in {"idle", "spawn", "join", "gone"}
    BY DEF Init
  <2>5. Shape
    BY <1>0, <2>1, <2>2, <2>3, <2>4 DEF Shape
  <2>6. Cursor
    BY <1>0 DEF Cursor, CursorOf
  <2> QED BY <2>5, <2>6 DEF Types
<1>2. /\ \A x : ~Holds(map_queue, Calls, x) /\ ~Holds(reduce_queue, Calls, x)
      /\ \A w \in Workers : \A x : ~Holding(w, x)
  BY <1>0 DEF Holds, Holding
<1>3. \A x : ~Live(x)
  BY <1>2 DEF Live, Queued
<1>4. Places
  <2>1. OnePlace
    BY <1>0, <1>2 DEF OnePlace, Apart, Once, Belongs
  <2>2. OneTask
    BY <1>0, <1>3 DEF OneTask
  <2> QED BY <2>1, <2>2 DEF Places
<1>5. TreeKept
  <2> SUFFICES ASSUME NEW c \in Calls PROVE \E leaves \in Leaves(c) : Tree(c, leaves)
    BY DEF TreeKept
  <2> DEFINE none == [n \in Nat |-> <<>>]
  <2>1. none \in Leaves(c)
    BY DEF Leaves
  <2>2. Len(outputs[c]) = 0 /\ at[c] = "idle"
    BY <1>0
  <2>3. Roots(c) = {} /\ Mapped(c) = 0
    BY <2>2 DEF Roots, Mapped
  <2> HIDE DEF none
  <2>4. Tree(c, none)
    BY <1>3, <2>2, <2>3 DEF Tree, Once, Holds
  <2> QED BY <2>1, <2>4
<1> QED BY <1>1, <1>4, <1>5 DEF IInv

(***************************************************************************)
(* The inductive invariant: the types and the cursors of the calls, the    *)
(* places of the tasks and the trees.                                      *)
(***************************************************************************)
THEOREM Invariance == Spec => []IInv
<1>1. IInv /\ [Next]_vars => IInv'
  BY TypesStep, TreesStep DEF IInv
<1> QED BY InitIInv, <1>1, PTL DEF Spec
-----------------------------------------------------------------------------
\* The tasks that the property counts are those of the invariant.
LEMMA PendingAre ==
    ASSUME Types, Places, NEW c \in Calls, NEW n
    PROVE  /\ \A t : t \in Pending(c, n) <=> t \in Tasks /\ Queued(t) /\ t.call = c /\ t.slot = n
           /\ \A w : w \in Holders(c, n) <=>
                w \in Workers /\ \E t \in Tasks : Holding(w, t) /\ t.call = c /\ t.slot = n
<1>1. /\ map_queue \in [Calls -> Seq(MapTasks)] /\ reduce_queue \in [Calls -> Seq(ReduceTasks)]
      /\ Belongs(map_queue, Calls, CallOf) /\ Belongs(reduce_queue, Calls, CallOf)
  BY DEF Types, Shape, Places, OnePlace, Apart
<1>2. \A t : t \in InRange(map_queue[c]) <=> t \in Tasks /\ Holds(map_queue, Calls, t) /\ t.call = c
  <2>1. DOMAIN map_queue[c] = 1 .. Len(map_queue[c])
    BY <1>1, LenProperties
  <2>2. \A d \in Calls : \A i \in 1 .. Len(map_queue[d]) :
          map_queue[d][i] \in Tasks /\ map_queue[d][i].call = d
    <3> SUFFICES ASSUME NEW d \in Calls, NEW i \in 1 .. Len(map_queue[d])
                 PROVE  map_queue[d][i] \in Tasks /\ map_queue[d][i].call = d
      OBVIOUS
    <3>1. PICK t : t = map_queue[d][i]
      OBVIOUS
    <3>2. t \in Tasks
      BY <1>1, <3>1, ElementOfSeq DEF Tasks
    <3>3. CallOf[t] = d
      BY <1>1, <3>1 DEF Belongs
    <3> QED BY <3>1, <3>2, <3>3 DEF CallOf
  <2> QED BY <2>1, <2>2 DEF InRange, Holds
<1>3. \A t : t \in InRange(reduce_queue[c]) <=> t \in Tasks /\ Holds(reduce_queue, Calls, t) /\ t.call = c
  <2>1. DOMAIN reduce_queue[c] = 1 .. Len(reduce_queue[c])
    BY <1>1, LenProperties
  <2>2. \A d \in Calls : \A i \in 1 .. Len(reduce_queue[d]) :
          reduce_queue[d][i] \in Tasks /\ reduce_queue[d][i].call = d
    <3> SUFFICES ASSUME NEW d \in Calls, NEW i \in 1 .. Len(reduce_queue[d])
                 PROVE  reduce_queue[d][i] \in Tasks /\ reduce_queue[d][i].call = d
      OBVIOUS
    <3>1. PICK t : t = reduce_queue[d][i]
      OBVIOUS
    <3>2. t \in Tasks
      BY <1>1, <3>1, ElementOfSeq DEF Tasks
    <3>3. CallOf[t] = d
      BY <1>1, <3>1 DEF Belongs
    <3> QED BY <3>1, <3>2, <3>3 DEF CallOf
  <2> QED BY <2>1, <2>2 DEF InRange, Holds
<1>4. \A t : t \in Pending(c, n) <=> t \in Tasks /\ Queued(t) /\ t.call = c /\ t.slot = n
  BY <1>2, <1>3 DEF Pending, Queued
<1>5. \A w : w \in Holders(c, n) <=>
        w \in Workers /\ \E t \in Tasks : Holding(w, t) /\ t.call = c /\ t.slot = n
  <2>1. \A w \in Workers : pc[w] \in {"mapping", "reducing"} => task[w] \in Tasks
    BY DEF Types, Shape, Tasks
  <2> QED BY <2>1 DEF Holders, Holding
<1> QED BY <1>4, <1>5

(***************************************************************************)
(* Every future of a call has its value, or one task that will set it,     *)
(* which is queued or in the hands of one thread.                          *)
(***************************************************************************)
THEOREM OutputsComingCorrect == Spec => []OutputsComing
<1>1. IInv => OutputsComing
  <2> SUFFICES ASSUME Types, Places, NEW c \in Calls, NEW n \in DOMAIN outputs[c]
               PROVE  Cardinality(Pending(c, n)) + Cardinality(Holders(c, n)) =
                        IF outputs[c][n] = Unset THEN 1 ELSE 0
    BY TypesAreOK DEF IInv, OutputsComing
  <2>1. /\ \A t : t \in Pending(c, n) <=> t \in Tasks /\ Queued(t) /\ t.call = c /\ t.slot = n
        /\ \A w : w \in Holders(c, n) <=>
             w \in Workers /\ \E t \in Tasks : Holding(w, t) /\ t.call = c /\ t.slot = n
    BY PendingAre
  <2>2. n \in 1 .. Len(outputs[c])
    BY LenProperties DEF Types, Shape
  <2>3. CASE outputs[c][n] # Unset
    <3>1. Pending(c, n) = {} /\ Holders(c, n) = {}
      BY <2>1, <2>3 DEF Places, OneTask, Live
    <3> QED BY <2>3, <3>1, FS_EmptySet
  <2>4. CASE outputs[c][n] = Unset
    <3>1. PICK t \in Tasks : Live(t) /\ t.call = c /\ t.slot = n
      BY <2>2, <2>4 DEF Places, OneTask
    <3>2. \A u \in Tasks : Live(u) /\ u.call = c /\ u.slot = n => u = t
      BY <3>1 DEF Places, OneTask
    <3>3. CASE Queued(t)
      <4>1. Pending(c, n) = {t}
        BY <2>1, <3>1, <3>2, <3>3 DEF Live
      <4>2. Holders(c, n) = {}
        <5>1. \A w \in Workers : ~Holding(w, t)
          BY <3>3 DEF Places, OnePlace
        <5>2. \A w \in Workers, u \in Tasks : Holding(w, u) => Live(u)
          BY DEF Live
        <5>3. SUFFICES ASSUME NEW w, w \in Holders(c, n) PROVE FALSE
          BY SMT
        <5>4. w \in Workers /\ \E u \in Tasks : Holding(w, u) /\ u.call = c /\ u.slot = n
          BY <2>1, <5>3
        <5>5. PICK u \in Tasks : Holding(w, u) /\ u.call = c /\ u.slot = n
          BY <5>4
        <5>6. u = t
          BY <3>2, <5>2, <5>4, <5>5
        <5> QED BY <5>1, <5>4, <5>5, <5>6
      <4>3. Cardinality(Pending(c, n)) = 1
        BY <4>1, FS_Singleton
      <4>4. Cardinality(Holders(c, n)) = 0
        BY <4>2, FS_EmptySet
      <4> QED BY <2>4, <4>3, <4>4
    <3>4. CASE ~Queued(t)
      <4>1. PICK w \in Workers : Holding(w, t)
        BY <3>1, <3>4 DEF Live
      <4>2. Pending(c, n) = {}
        BY <2>1, <3>2, <3>4 DEF Live
      <4>3. Holders(c, n) = {w}
        BY <2>1, <3>1, <3>2, <4>1 DEF Live, Places, OnePlace
      <4> QED BY <2>4, <4>2, <4>3, FS_Singleton, FS_EmptySet
    <3> QED BY <3>3, <3>4
  <2> QED BY <2>3, <2>4
<1> QED BY <1>1, Invariance, PTL

-----------------------------------------------------------------------------
\* The last future stands for all inputs, each once.
LEMMA ResultOf ==
    ASSUME IInv, NEW c \in Calls, at[c] \in {"last", "done"},
           outputs[c][Len(outputs[c])] # Unset
    PROVE  \E s \in Seq(1 .. Len(InputsOf[c])) :
             /\ outputs[c][Len(outputs[c])] = Read(c, s)
             /\ \A p \in 1 .. Len(InputsOf[c]) : \E k \in 1 .. Len(s) : s[k] = p
             /\ \A j, k \in 1 .. Len(s) : s[j] = s[k] => j = k
<1>1. PICK leaves \in Leaves(c) : Tree(c, leaves)
  BY DEF IInv, TreeKept
<1>2. PICK N \in Nat \ {0} : N = Len(InputsOf[c])
  BY VectorFacts
<1>3. PICK L \in Nat : L = Len(outputs[c]) /\ L = 2 * N - 1 /\ next[c] = N
  <2>1. next[c] = N /\ Len(outputs[c]) = 2 * N - 1
    BY <1>2 DEF IInv, Types, Cursor, CursorOf
  <2> QED BY <2>1
<1>4. Roots(c) = {L} /\ Mapped(c) = N /\ L \in 1 .. L
  <2>1. Roots(c) = {k \in 1 .. L : k >= 2 * N - 1}
    BY <1>3 DEF Roots
  <2>2. \A k \in 1 .. L : k >= 2 * N - 1 <=> k = L
    BY <1>3
  <2>3. Mapped(c) = N
    BY <1>2 DEF Mapped
  <2>4. L \in 1 .. L
    BY <1>3
  <2> QED BY <2>1, <2>2, <2>3, <2>4
<1>5. PICK s : s = leaves[L]
  OBVIOUS
<1>6. s \in Seq(1 .. N) /\ outputs[c][L] = Read(c, s)
  BY <1>1, <1>2, <1>3, <1>4, <1>5 DEF Tree, Leaves
<1>7. \A p \in 1 .. N : \E k \in 1 .. Len(s) : s[k] = p
  <2> SUFFICES ASSUME NEW p \in 1 .. N PROVE \E k \in 1 .. Len(s) : s[k] = p
    OBVIOUS
  <2>1. Holds(leaves, {L}, p)
    BY <1>1, <1>4 DEF Tree
  <2> QED BY <1>5, <2>1 DEF Holds
<1>8. \A j, k \in 1 .. Len(s) : s[j] = s[k] => j = k
  <2>1. Once(leaves, {L})
    BY <1>1, <1>4 DEF Tree
  <2> QED BY <1>5, <2>1 DEF Once
<1> QED BY <1>2, <1>3, <1>6, <1>7, <1>8

(***************************************************************************)
(* The result of a call is made of its inputs, each as often as it is in   *)
(* the vector.                                                             *)
(***************************************************************************)
THEOREM CompleteCorrect == Spec => []Complete
<1>1. IInv => Complete
  <2> SUFFICES ASSUME IInv, NEW c \in Calls, at[c] = "done", NEW i \in Inputs
               PROVE  Times(outputs[c][Len(outputs[c])], i) = Times(InputsOf[c], i)
    BY DEF Complete
  <2>1. outputs[c][Len(outputs[c])] # Unset
    BY DEF IInv, Places, OneTask
  <2>2. PICK s \in Seq(1 .. Len(InputsOf[c])) :
          /\ outputs[c][Len(outputs[c])] = Read(c, s)
          /\ \A p \in 1 .. Len(InputsOf[c]) : \E k \in 1 .. Len(s) : s[k] = p
          /\ \A j, k \in 1 .. Len(s) : s[j] = s[k] => j = k
    BY <2>1, ResultOf
  <2>3. PICK N \in Nat : N = Len(InputsOf[c]) /\ DOMAIN InputsOf[c] = 1 .. N
    BY VectorFacts, LenProperties
  <2>4. PICK M \in Nat : M = Len(s) /\ \A k \in 1 .. M : s[k] \in 1 .. N
    BY <2>3, LenProperties, ElementOfSeq
  <2>5. /\ DOMAIN Read(c, s) = 1 .. M
        /\ \A k \in 1 .. M : Read(c, s)[k] = InputsOf[c][s[k]]
    BY <2>4 DEF Read
  <2> DEFINE A == {k \in 1 .. M : InputsOf[c][s[k]] = i}
             B == {p \in 1 .. N : InputsOf[c][p] = i}
             f == [k \in A |-> s[k]]
  <2>6. /\ f \in [A -> B]
        /\ \A j, k \in A : f[j] = f[k] => j = k
        /\ \A p \in B : \E k \in A : f[k] = p
    BY <2>2, <2>3, <2>4
  <2>7. {k \in DOMAIN Read(c, s) : Read(c, s)[k] = i} = A
    BY <2>5
  <2>8. IsFiniteSet(A)
    <3>1. IsFiniteSet(1 .. M)
      BY FS_Interval
    <3>2. A \in SUBSET (1 .. M)
      OBVIOUS
    <3> HIDE DEF A
    <3> QED BY <3>1, <3>2, FS_Subset
  <2> HIDE DEF A, B, f
  <2>9. ExistsBijection(A, B)
    <3>1. f \in Bijection(A, B)
      BY <2>6, Fun_IsBij
    <3> QED BY <3>1 DEF ExistsBijection
  <2>10. Cardinality(A) = Cardinality(B)
    BY <2>8, <2>9, FS_Bijection
  <2> QED BY <2>2, <2>3, <2>7, <2>10 DEF Times, B
<1> QED BY <1>1, Invariance, PTL

(***************************************************************************)
(* Both of the instance of a behaviour, whose inputs, threads and draining *)
(* the variable gives: what MCMapReduceV's run checks for two.             *)
(***************************************************************************)
THEOREM TreeHoldsCorrect ==
    Spec /\ [](program = Program(InputsOf, Workers, Drains)) => []TreeHolds
<1>1. OutputsComing /\ Complete /\ program = Program(InputsOf, Workers, Drains) => TreeHolds
  <2>1. SUFFICES ASSUME OutputsComing, Complete, NEW p \in Programs, p = Program(InputsOf, Workers, Drains)
                 PROVE  P(p)!OutputsComing /\ P(p)!Complete
    BY DEF TreeHolds
  <2>2. p.inputsOf = InputsOf /\ p.workers = Workers /\ p.drains = Drains
    BY <2>1 DEF Program
  <2>3. \A S : P(p)!Cardinality(S) = Cardinality(S)
    BY DEF Cardinality, P!Cardinality
  <2>4. \A c, n : P(p)!Pending(c, n) = Pending(c, n)
    BY DEF Pending, InRange, P!Pending, P!InRange
  <2>5. \A c, n : P(p)!Holders(c, n) = Holders(c, n)
    BY <2>2 DEF Holders, P!Holders
  <2>6. \A seq, x : P(p)!Times(seq, x) = Times(seq, x)
    BY <2>3 DEF Times, P!Times
  <2>7. P(p)!TypeOK <=> TypeOK
    BY <2>2 DEF TypeOK, P!TypeOK, Slots, P!Slots, MapTasks, P!MapTasks
  <2>8. P(p)!OutputsComing
    BY <2>1, <2>3, <2>4, <2>5, <2>7 DEF OutputsComing, P!OutputsComing, Unset, P!Unset
  <2>9. P(p)!Complete
    BY <2>1, <2>2, <2>6 DEF Complete, P!Complete
  <2> QED BY <2>8, <2>9
<1> QED BY <1>1, OutputsComingCorrect, CompleteCorrect, PTL

-----------------------------------------------------------------------------
(* The refinement of Pattern, in a program that drains.                    *)

\* The pattern's life.
LEMMA LifecycleStep == Types /\ Lifecycle /\ [Next]_vars => Lifecycle'
<1> SUFFICES ASSUME Types, Lifecycle, [Next]_vars PROVE Lifecycle'
  OBVIOUS
<1> USE DEF Lifecycle
<1>1. ASSUME NEW c \in Calls, Begin(c) PROVE Lifecycle'
  BY <1>1 DEF Begin, life, threads, Resting, Types, Shape
<1>2. ASSUME NEW c \in Calls, InCall(c) PROVE Lifecycle'
  <2>1. UNCHANGED <<life, threads>> /\ ~Resting
    BY <1>2 DEF InCall, GetInputs, PushMap, PushReduce, Collect, Resting
  <2> QED BY <2>1 DEF life, threads
<1>3. ASSUME NEW x \in Calls \union Inputs, Supply(x) PROVE Lifecycle'
  BY <1>3 DEF Supply, life, threads, calls, Resting
<1>4. CASE InitBegin
  BY <1>4 DEF InitBegin, threads, calls, Resting
<1>5. CASE InitEnd
  <2>1. up = TRUE /\ up' = TRUE /\ initialized' = TRUE /\ owner' = "idle"
    BY <1>5 DEF InitEnd, Types, Shape
  <2> QED BY <2>1
<1>6. CASE DisposeBegin \/ Destroy
  BY <1>6 DEF DisposeBegin, Destroy, threads, calls, Resting
<1>7. CASE DisposeEnd
  BY <1>7 DEF DisposeEnd, calls, Resting
<1>8. ASSUME NEW w \in Workers, Spawn(w) PROVE Lifecycle'
  BY <1>8 DEF Spawn, life, calls, Resting
<1>9. ASSUME NEW w \in Workers, Worker(w) PROVE Lifecycle'
  <2>1. UNCHANGED <<life, calls>> /\ pc[w] # "off"
    BY <1>9 DEF Worker, TestDying, PopFail, PopMap, PopReduce, TakeReduce, Map, Reduce, SetOutput
  <2>2. up
    BY <2>1
  <2> QED BY <2>1, <2>2 DEF life, calls, Resting
<1>10. CASE UNCHANGED vars
  BY <1>10 DEF vars, life, threads, calls, Resting
<1> QED
  BY <1>1, <1>2, <1>3, <1>4, <1>5, <1>6, <1>7, <1>8, <1>9, <1>10 DEF Next, Terminated

\* A step that sets no future.
LEMMA ResultsFrame ==
    ASSUME ResultsWhileUp, UNCHANGED outputs,
           up => up' \/ ~Drains \/ \A c \in Calls : at'[c] = "done" \/ Len(outputs[c]) = 0,
           \A c \in Calls : at[c] = "done" => at'[c] = "done"
    PROVE  ResultsWhileUp'
<1> SUFFICES ASSUME NEW c \in Calls, NEW n \in 1 .. Len(outputs[c]), outputs[c][n] # Unset, Drains
             PROVE  at'[c] = "done" \/ up'
  BY DEF ResultsWhileUp
<1>1. at[c] = "done" \/ up
  BY DEF ResultsWhileUp
<1>2. Len(outputs[c]) # 0
  OBVIOUS
<1> QED BY <1>1, <1>2

\* Futures are set while the pattern is up.
LEMMA ResultsStep ==
    IInv /\ Lifecycle /\ ResultsWhileUp /\ [Next]_vars => ResultsWhileUp'
<1> SUFFICES ASSUME IInv, Lifecycle, ResultsWhileUp, [Next]_vars PROVE ResultsWhileUp'
  OBVIOUS
<1>0. /\ at \in [Calls -> {"idle", "get", "map", "pair", "last", "done"}]
      /\ \A c \in Calls : at[c] = "idle" => Len(outputs[c]) = 0
  BY DEF IInv, Types, Shape, Cursor, CursorOf
<1>1. ASSUME NEW c \in Calls, Begin(c) \/ GetInputs(c) \/ Collect(c) PROVE ResultsWhileUp'
  BY <1>0, <1>1, ResultsFrame DEF Begin, GetInputs, Collect, life
<1>2. ASSUME NEW c \in Calls, PushMap(c) \/ PushReduce(c) PROVE ResultsWhileUp'
  <2>1. PICK t : Pushes(c, t)
    BY <1>2, PushTask DEF IInv
  <2>2. /\ Len(outputs[c]) \in Nat /\ Len(outputs'[c]) = Len(outputs[c]) + 1
        /\ outputs'[c][Len(outputs[c]) + 1] = Unset
        /\ \A n \in 1 .. Len(outputs[c]) : outputs'[c][n] = outputs[c][n]
        /\ \A d \in Calls : d # c => outputs'[d] = outputs[d]
    BY <2>1, PushOutputs DEF Pushes, IInv
  <2>3. up' = up /\ at[c] # "done" /\ \A d \in Calls : d # c => at'[d] = at[d]
    BY <1>0, <1>2 DEF PushMap, PushReduce, life
  <2> SUFFICES ASSUME NEW d \in Calls, NEW n \in 1 .. Len(outputs'[d]), outputs'[d][n] # Unset, Drains
               PROVE  at'[d] = "done" \/ up'
    BY DEF ResultsWhileUp
  <2>4. n \in 1 .. Len(outputs[d]) /\ outputs[d][n] # Unset
    BY <2>2
  <2>5. at[d] = "done" \/ up
    BY <2>4 DEF ResultsWhileUp
  <2> QED BY <2>3, <2>5
<1>3. ASSUME NEW x \in Calls \union Inputs, Supply(x) PROVE ResultsWhileUp'
  BY <1>3, ResultsFrame DEF Supply, life, calls
<1>4. CASE InitBegin \/ InitEnd \/ DisposeBegin \/ Destroy
  BY <1>4, ResultsFrame DEF InitBegin, InitEnd, DisposeBegin, Destroy, calls
<1>5. CASE DisposeEnd
  <2>1. Drains => \A c \in Calls : at[c] \in {"idle", "done"}
    BY <1>5 DEF DisposeEnd, Lifecycle, Resting
  <2> QED BY <1>0, <1>5, <2>1, ResultsFrame DEF DisposeEnd, calls
<1>6. ASSUME NEW w \in Workers, Spawn(w) \/ TestDying(w) \/ PopFail(w) \/ PopMap(w) \/ PopReduce(w)
      PROVE  ResultsWhileUp'
  BY <1>6, ResultsFrame DEF Spawn, TestDying, PopFail, PopMap, PopReduce, TakeReduce, life, calls
<1>7. ASSUME NEW w \in Workers, Map(w) \/ Reduce(w) PROVE ResultsWhileUp'
  <2>1. up /\ up' = up
    BY <1>7 DEF Map, Reduce, SetOutput, Lifecycle, life
  <2> QED BY <2>1 DEF ResultsWhileUp
<1>8. CASE UNCHANGED vars
  BY <1>8, ResultsFrame DEF vars, life, calls
<1> QED
  BY <1>1, <1>2, <1>3, <1>4, <1>5, <1>6, <1>7, <1>8 DEF Next, InCall, Worker, Terminated

\* A step that brings no future and no task, and unsupplies nothing.
LEMMA SuppliedFrame ==
    ASSUME Supplied, UNCHANGED outputs, supplied \subseteq supplied',
           \A t \in Tasks : Live(t)' => Live(t),
           \A c \in Calls : at'[c] \notin {"idle", "get"} => at[c] \notin {"idle", "get"} \/ c \in supplied
    PROVE  Supplied'
<1>1. \A seq : AllSupplied(seq) => AllSupplied(seq)'
  BY DEF AllSupplied
<1>2. \A c \in Calls : at'[c] \notin {"idle", "get"} => c \in supplied'
  BY DEF Supplied
<1>3. \A c \in Calls : \A n \in 1 .. Len(outputs'[c]) : AllSupplied(outputs[c][n])'
  BY <1>1 DEF Supplied
<1>4. \A t \in ReduceTasks : Live(t)' => AllSupplied(t.first)' /\ AllSupplied(t.second)'
  BY <1>1 DEF Supplied, Tasks
<1> QED BY <1>2, <1>3, <1>4 DEF Supplied, AllSupplied

\* Nothing is used that was not supplied.
LEMMA SuppliedStep == IInv /\ Supplied /\ [Next]_vars => Supplied'
<1> SUFFICES ASSUME IInv, Supplied, [Next]_vars PROVE Supplied'
  OBVIOUS
<1>0. /\ at \in [Calls -> {"idle", "get", "map", "pair", "last", "done"}]
      /\ pc \in [Workers -> {"off", "loop", "map", "reduce", "mapping", "reducing", "exited"}]
  BY DEF IInv, Types, Shape
<1>1. ASSUME UNCHANGED <<map_queue, reduce_queue>>,
             \A w \in Workers : \A x : Holding(w, x)' <=> Holding(w, x)
      PROVE  \A t : Live(t)' => Live(t)
  BY <1>1 DEF Live, Queued, Holds
<1>2. ASSUME NEW c \in Calls, Begin(c) \/ GetInputs(c) \/ Collect(c) PROVE Supplied'
  <2>1. /\ UNCHANGED <<map_queue, reduce_queue, outputs, supplied>>
        /\ \A w \in Workers : \A x : Holding(w, x)' <=> Holding(w, x)
    BY <1>2 DEF Begin, GetInputs, Collect, threads, queues, Holding
  <2>2. \A d \in Calls : at'[d] \notin {"idle", "get"} => at[d] \notin {"idle", "get"} \/ d \in supplied
    BY <1>0, <1>2 DEF Begin, GetInputs, Collect
  <2> QED BY <1>1, <2>1, <2>2, SuppliedFrame
<1>3. ASSUME NEW c \in Calls, PushMap(c) \/ PushReduce(c) PROVE Supplied'
  <2>1. PICK t : Pushes(c, t)
    BY <1>3, PushTask DEF IInv
  <2>2. /\ Len(outputs[c]) \in Nat /\ Len(outputs'[c]) = Len(outputs[c]) + 1
        /\ outputs'[c][Len(outputs[c]) + 1] = Unset
        /\ \A n \in 1 .. Len(outputs[c]) : outputs'[c][n] = outputs[c][n]
        /\ \A d \in Calls : d # c => outputs'[d] = outputs[d]
    BY <2>1, PushOutputs DEF Pushes, IInv
  <2>3. supplied' = supplied /\ at[c] \notin {"idle", "get"} /\ \A d \in Calls : d # c => at'[d] = at[d]
    BY <1>0, <1>3 DEF PushMap, PushReduce
  <2>4. \A d \in Calls : at'[d] \notin {"idle", "get"} => d \in supplied
    BY <2>3 DEF Supplied
  <2>5. ASSUME NEW d \in Calls, NEW n \in 1 .. Len(outputs'[d]) PROVE AllSupplied(outputs'[d][n])
    <3>1. CASE d = c /\ n = Len(outputs[c]) + 1
      BY <2>2, <3>1 DEF AllSupplied, Unset
    <3>2. CASE ~(d = c /\ n = Len(outputs[c]) + 1)
      <4>1. n \in 1 .. Len(outputs[d]) /\ outputs'[d][n] = outputs[d][n]
        BY <2>2, <3>2
      <4> QED BY <4>1 DEF Supplied
    <3> QED BY <3>1, <3>2
  <2>6. ASSUME NEW x \in ReduceTasks, Live(x)' PROVE AllSupplied(x.first) /\ AllSupplied(x.second)
    <3>1. Live(x) \/ x = t
      BY <2>1, <2>6 DEF Pushes, Live
    <3>2. CASE Live(x)
      BY <3>2 DEF Supplied
    <3>3. CASE x = t
      <4>1. t \notin MapTasks
        BY <3>3, TaskFacts
      <4>2. /\ 2 * next[c] - 1 \in 1 .. Len(outputs[c]) /\ 2 * next[c] \in 1 .. Len(outputs[c])
            /\ t.first = outputs[c][2 * next[c] - 1] /\ t.second = outputs[c][2 * next[c]]
        BY <2>1, <4>1 DEF Pushes
      <4> QED BY <3>3, <4>2 DEF Supplied
    <3> QED BY <3>1, <3>2, <3>3
  <2>7. \A seq : AllSupplied(seq)' <=> AllSupplied(seq)
    BY <2>3 DEF AllSupplied
  <2> QED BY <2>3, <2>4, <2>5, <2>6 DEF Supplied, AllSupplied
<1>4. ASSUME NEW x \in Calls \union Inputs, Supply(x) PROVE Supplied'
  <2>1. /\ UNCHANGED <<map_queue, reduce_queue, outputs, at>> /\ supplied \subseteq supplied'
        /\ \A w \in Workers : \A y : Holding(w, y)' <=> Holding(w, y)
    BY <1>4 DEF Supply, threads, calls, queues, Holding
  <2> QED BY <1>1, <2>1, SuppliedFrame
<1>5. CASE InitBegin \/ InitEnd \/ DisposeBegin \/ DisposeEnd \/ Destroy
  <2>1. UNCHANGED <<map_queue, reduce_queue, outputs, at, supplied>>
    BY <1>5 DEF InitBegin, InitEnd, DisposeBegin, DisposeEnd, Destroy, calls, queues
  <2>2. \A w \in Workers : \A y : Holding(w, y)' <=> Holding(w, y)
    BY <1>5 DEF InitBegin, InitEnd, DisposeBegin, DisposeEnd, Destroy, threads, Holding
  <2> QED BY <1>1, <2>1, <2>2, SuppliedFrame
<1>6. ASSUME NEW w \in Workers, Spawn(w) \/ TestDying(w) \/ PopFail(w) PROVE Supplied'
  <2>1. UNCHANGED <<map_queue, reduce_queue, outputs, at, supplied>>
    BY <1>6 DEF Spawn, TestDying, PopFail, calls, queues
  <2>2. \A v \in Workers : \A y : Holding(v, y)' <=> Holding(v, y)
    BY <1>0, <1>6 DEF Spawn, TestDying, PopFail, Goes, Holding
  <2> QED BY <1>1, <2>1, <2>2, SuppliedFrame
<1>7. ASSUME NEW w \in Workers, PopMap(w) \/ PopReduce(w) PROVE Supplied'
  <2>1. \A t \in Tasks : Live(t)' => Live(t)
    BY <1>7, PlacesPop DEF IInv
  <2>2. UNCHANGED <<outputs, at, supplied>>
    BY <1>7 DEF PopMap, PopReduce, TakeReduce, calls
  <2> QED BY <2>1, <2>2, SuppliedFrame
<1>8. ASSUME NEW w \in Workers, Map(w) \/ Reduce(w) PROVE Supplied'
  <2>1. PICK t : t = task[w]
    OBVIOUS
  <2>2. t \in Tasks /\ Gives(t) \in Seq(Inputs) /\ SetOutput(w, Gives(t)) /\ pc[w] \in {"mapping", "reducing"}
    BY <1>8, <2>1, SetValue DEF IInv
  <2>3. Live(t) /\ Gives(t) # Unset
    BY <2>1, <2>2, GivesSomething DEF Live, Holding, IInv
  <2>4. \A x \in Tasks : Live(x)' => Live(x)
    BY <2>2, <2>3, PlacesSet DEF IInv
  <2>5. AllSupplied(Gives(t))
    <3>1. CASE Map(w)
      <4>1. t \in MapTasks /\ t.input \in supplied
        BY <2>1, <3>1 DEF Map, IInv, Types, Shape
      <4> QED BY <4>1 DEF Gives, AllSupplied
    <3>2. CASE Reduce(w)
      <4>1. t \in ReduceTasks /\ t \notin MapTasks
        BY <2>1, <3>2, TaskFacts DEF Reduce, IInv, Types, Shape
      <4>2. AllSupplied(t.first) /\ AllSupplied(t.second)
        BY <2>3, <4>1 DEF Supplied
      <4>3. t.first \in Seq(Inputs) /\ t.second \in Seq(Inputs)
        BY <4>1, TaskFacts
      <4>4. AllSupplied(t.first \o t.second)
        <5>1. PICK a \in Seq(Inputs), b \in Seq(Inputs) : a = t.first /\ b = t.second
          BY <4>3
        <5>2. /\ Len(a) \in Nat /\ Len(b) \in Nat /\ Len(a \o b) = Len(a) + Len(b)
              /\ \A i \in 1 .. Len(a) + Len(b) : (a \o b)[i] = IF i <= Len(a) THEN a[i] ELSE b[i - Len(a)]
          BY ConcatProperties, LenProperties
        <5>3. ASSUME NEW i \in 1 .. Len(a) + Len(b) PROVE (a \o b)[i] \in supplied
          <6>1. CASE i <= Len(a)
            <7>1. i \in 1 .. Len(a) /\ (a \o b)[i] = a[i]
              BY <5>2, <6>1
            <7> QED BY <4>2, <5>1, <7>1 DEF AllSupplied
          <6>2. CASE ~(i <= Len(a))
            <7>1. i - Len(a) \in 1 .. Len(b) /\ (a \o b)[i] = b[i - Len(a)]
              BY <5>2, <6>2
            <7> QED BY <4>2, <5>1, <7>1 DEF AllSupplied
          <6> QED BY <6>1, <6>2
        <5> QED BY <5>1, <5>2, <5>3 DEF AllSupplied
      <4> QED BY <4>1, <4>4 DEF Gives
    <3> QED BY <1>8, <3>1, <3>2
  <2>6. UNCHANGED <<at, supplied>>
    BY <2>2 DEF SetOutput, calls
  <2>7. /\ t.slot \in 1 .. Len(outputs[t.call]) /\ t.call \in Calls
        /\ \A d \in Calls : Len(outputs'[d]) = Len(outputs[d])
        /\ \A d \in Calls \ {t.call} : outputs'[d] = outputs[d]
        /\ outputs'[t.call][t.slot] = Gives(t)
        /\ \A k \in 1 .. Len(outputs[t.call]) \ {t.slot} : outputs'[t.call][k] = outputs[t.call][k]
    <3> DEFINE v == Gives(t)
    <3>1. v \in Seq(Inputs) /\ SetOutput(w, v)
      BY <2>2
    <3> HIDE DEF v
    <3>2. Types
      BY DEF IInv
    <3>3. Places
      BY DEF IInv
    <3>4. FutureSet(t, v)
      BY <2>1, <2>2, <3>1, <3>2, <3>3, SetFacts
    <3> QED BY <3>4 DEF FutureSet, v
  <2>8. ASSUME NEW c \in Calls, NEW n \in 1 .. Len(outputs'[c]) PROVE AllSupplied(outputs'[c][n])
    <3>1. CASE c = t.call /\ n = t.slot
      BY <2>5, <2>7, <3>1
    <3>2. CASE ~(c = t.call /\ n = t.slot)
      <4>1. n \in 1 .. Len(outputs[c]) /\ outputs'[c][n] = outputs[c][n]
        BY <2>7, <3>2
      <4> QED BY <4>1 DEF Supplied
    <3> QED BY <3>1, <3>2
  <2> QED BY <2>4, <2>6, <2>8 DEF Supplied, AllSupplied, Tasks
<1>9. CASE UNCHANGED vars
  <2>1. /\ UNCHANGED <<map_queue, reduce_queue, outputs, at, supplied>>
        /\ \A w \in Workers : \A y : Holding(w, y)' <=> Holding(w, y)
    BY <1>9 DEF vars, threads, calls, queues, Holding
  <2> QED BY <1>1, <2>1, SuppliedFrame
<1> QED
  BY <1>2, <1>3, <1>4, <1>5, <1>6, <1>7, <1>8, <1>9 DEF Next, InCall, Worker, Terminated

\* What the refinement rests on, beside the inductive invariant.
LEMMA ContractKept == Spec => []Keeps
<1>1. Init => Keeps
  <2> SUFFICES ASSUME Init PROVE Keeps
    OBVIOUS
  <2>1. Lifecycle
    BY DEF Init, Lifecycle, Resting
  <2>2. \A c \in Calls : Len(outputs[c]) = 0 /\ at[c] = "idle"
    BY EmptySeq DEF Init, Empty
  <2>3. ~\E t : Live(t)
    BY EmptySeq DEF Init, Empty, Live, Queued, Holds, Holding
  <2> QED BY <2>1, <2>2, <2>3 DEF Keeps, ResultsWhileUp, Supplied
<1>2. IInv /\ IInv' /\ Keeps /\ [Next]_vars => Keeps'
  BY LifecycleStep, ResultsStep, SuppliedStep DEF Keeps, IInv
<1> QED BY <1>1, <1>2, Invariance, PTL DEF Spec

\* Setting the promise of a vector, or of an input, makes one call ready at
\* most.
LEMMA SupplyStep ==
    ASSUME NEW x \in Calls \union Inputs, Supply(x)
    PROVE  UNCHANGED Abstract!vars \/ \E c \in Calls : Abstract!Supply(c)
<1> DEFINE R == {c \in Calls : {c} \union InRange(InputsOf[c]) \subseteq supplied}
           R2 == {c \in Calls : {c} \union InRange(InputsOf[c]) \subseteq supplied'}
<1>1. \A c \in Calls : DOMAIN InputsOf[c] = 1 .. Len(InputsOf[c]) /\ InRange(InputsOf[c]) \subseteq Inputs
  BY VectorFacts, LenProperties DEF InRange
<1>2. \A c, d \in Calls : x \in {c} \union InRange(InputsOf[c]) /\ x \in {d} \union InRange(InputsOf[d]) => c = d
  <2>1. CASE x \in Calls
    BY <1>1, <2>1, FuturesAssumption
  <2>2. CASE x \notin Calls
    BY <1>1, <2>2, FuturesAssumption DEF InRange
  <2> QED BY <2>1, <2>2
<1>3. R2 = R \/ \E d \in Calls : d \notin R /\ R2 = R \union {d}
  <2>1. CASE \A c \in Calls : x \notin {c} \union InRange(InputsOf[c])
    <3>1. R2 = R
      BY <2>1 DEF Supply
    <3> QED BY <3>1
  <2>2. ASSUME NEW d \in Calls, x \in {d} \union InRange(InputsOf[d])
        PROVE  R2 = R \/ (d \notin R /\ R2 = R \union {d})
    <3>1. \A c \in Calls : x \in {c} \union InRange(InputsOf[c]) => c = d
      BY <1>2, <2>2
    <3>2. x \notin supplied /\ supplied' = supplied \union {x}
      BY DEF Supply
    <3>3. d \notin R
      BY <2>2, <3>2
    <3>4. \A c \in Calls : c # d => (c \in R2 <=> c \in R)
      BY <3>1, <3>2
    <3>5. R \subseteq Calls /\ R2 \subseteq Calls
      OBVIOUS
    <3> HIDE DEF R, R2
    <3> QED BY <3>3, <3>4, <3>5
  <2> QED BY <2>1, <2>2
<1>4. UNCHANGED <<up, at, owner>>
  BY DEF Supply, life, calls
<1>5. R2 = {c \in Calls : {c} \union InRange(InputsOf[c]) \subseteq supplied}'
  BY DEF InRange
<1> QED BY <1>3, <1>4, <1>5 DEF Abstract!vars, Abstract!Supply

\* When the result is there, every input of the call was supplied.
LEMMA ReadyAtLast ==
    ASSUME IInv, Supplied, NEW c \in Calls, at[c] = "last",
           outputs[c][Len(outputs[c])] # Unset
    PROVE  {c} \union InRange(InputsOf[c]) \subseteq supplied
<1>1. PICK s \in Seq(1 .. Len(InputsOf[c])) :
        /\ outputs[c][Len(outputs[c])] = Read(c, s)
        /\ \A p \in 1 .. Len(InputsOf[c]) : \E k \in 1 .. Len(s) : s[k] = p
  BY ResultOf
<1>2. Len(outputs[c]) \in 1 .. Len(outputs[c])
  <2>1. PICK N \in Nat \ {0} : N = Len(InputsOf[c])
    BY VectorFacts
  <2>2. Len(outputs[c]) = 2 * N - 1
    BY <2>1 DEF IInv, Types, Cursor, CursorOf
  <2> QED BY <2>1, <2>2
<1>3. AllSupplied(Read(c, s)) /\ c \in supplied
  BY <1>1, <1>2 DEF Supplied
<1>4. /\ Len(s) \in Nat /\ DOMAIN Read(c, s) = 1 .. Len(s)
      /\ Len(Read(c, s)) = Len(s)
      /\ \A k \in 1 .. Len(s) : Read(c, s)[k] = InputsOf[c][s[k]]
  BY <1>1, LenProperties DEF Read
<1>5. \A p \in 1 .. Len(InputsOf[c]) : InputsOf[c][p] \in supplied
  BY <1>1, <1>3, <1>4 DEF AllSupplied
<1>6. DOMAIN InputsOf[c] = 1 .. Len(InputsOf[c])
  BY VectorFacts, LenProperties
<1> QED BY <1>3, <1>5, <1>6 DEF InRange

\* Every step is a step of a pattern, or none, in a program that drains.
LEMMA RefinementStep ==
    ASSUME Drains
    PROVE  IInv /\ Keeps /\ [Next]_vars => [Abstract!Next]_Abstract!vars
<1> SUFFICES ASSUME IInv, Keeps, [Next]_vars PROVE [Abstract!Next]_Abstract!vars
  OBVIOUS
<1> USE DEF Abstract!vars, Abstract!Next, InRange
<1>0. at \in [Calls -> {"idle", "get", "map", "pair", "last", "done"}]
  BY DEF IInv, Types, Shape
<1>1. ASSUME NEW c \in Calls, Begin(c) PROVE Abstract!Accept(c)
  BY <1>0, <1>1 DEF Begin, life, Abstract!Accept
<1>2. ASSUME NEW c \in Calls, GetInputs(c) \/ PushMap(c) \/ PushReduce(c)
      PROVE  UNCHANGED Abstract!vars
  <2>1. UNCHANGED <<up, owner, supplied>>
    BY <1>2 DEF GetInputs, PushMap, PushReduce, life
  <2>2. \A d \in Calls : (at'[d] # "idle" <=> at[d] # "idle") /\ (at'[d] = "done" <=> at[d] = "done")
    BY <1>0, <1>2 DEF GetInputs, PushMap, PushReduce
  <2> QED BY <2>1, <2>2
<1>3. ASSUME NEW c \in Calls, Collect(c) PROVE Abstract!Answer(c)
  <2>1. /\ at[c] = "last" /\ at' = [at EXCEPT ![c] = "done"]
        /\ outputs[c][Len(outputs[c])] # Unset
        /\ UNCHANGED <<up, owner, supplied>>
    BY <1>3 DEF Collect, life
  <2>2. up
    <3>1. Len(outputs[c]) \in 1 .. Len(outputs[c])
      <4>1. PICK N \in Nat \ {0} : N = Len(InputsOf[c])
        BY VectorFacts
      <4>2. Len(outputs[c]) = 2 * N - 1
        BY <2>1, <4>1 DEF IInv, Types, Cursor, CursorOf
      <4> QED BY <4>1, <4>2
    <3> QED BY <2>1, <3>1 DEF Keeps, ResultsWhileUp
  <2>3. {c} \union InRange(InputsOf[c]) \subseteq supplied
    BY <2>1, ReadyAtLast DEF Keeps
  <2> DEFINE R == {d \in Calls : {d} \union InRange(InputsOf[d]) \subseteq supplied}
  <2>4. UNCHANGED R /\ \E others \in SUBSET Calls : R' = R \union others
    BY <2>1
  <2>5. {d \in Calls : at'[d] = "done"} = {d \in Calls : at[d] = "done"} \union {c}
    BY <1>0, <2>1
  <2>6. {d \in Calls : at'[d] # "idle"} = {d \in Calls : at[d] # "idle"}
    BY <1>0, <2>1
  <2> QED BY <2>1, <2>2, <2>3, <2>4, <2>5, <2>6 DEF Abstract!Answer
<1>4. ASSUME NEW x \in Calls \union Inputs, Supply(x)
      PROVE  UNCHANGED Abstract!vars \/ \E c \in Calls : Abstract!Supply(c)
  BY <1>4, SupplyStep
<1>5. ASSUME InitBegin PROVE Abstract!Start
  BY <1>5 DEF InitBegin, calls, Abstract!Start, Keeps, Lifecycle
<1>6. CASE InitEnd \/ DisposeBegin
  BY <1>6 DEF InitEnd, DisposeBegin, calls
<1>7. ASSUME DisposeEnd PROVE Abstract!Stop
  BY <1>7 DEF DisposeEnd, calls, Abstract!Stop, Keeps, Lifecycle
<1>8. ASSUME Destroy PROVE Abstract!Destroy
  BY <1>8 DEF Destroy, Resting, calls, Abstract!Destroy, Keeps, Lifecycle
<1>9. ASSUME NEW w \in Workers, Spawn(w) \/ Worker(w) PROVE UNCHANGED Abstract!vars
  <2>1. UNCHANGED <<life, calls, supplied>>
    BY <1>9 DEF Spawn, Worker, TestDying, PopFail, PopMap, PopReduce, TakeReduce, Map, Reduce,
                SetOutput, life
  <2> QED BY <2>1 DEF life, calls
<1>10. CASE UNCHANGED vars
  BY <1>10 DEF vars, life, calls
<1> QED
  BY <1>1, <1>2, <1>3, <1>4, <1>5, <1>6, <1>7, <1>8, <1>9, <1>10 DEF Next, InCall, Terminated

(***************************************************************************)
(* In a program that disposes only when no call is under way, the vertical *)
(* MapReduce implements the safety part of a pattern: it answers only the  *)
(* calls it accepted, once, with all their inputs there and while it is    *)
(* up, and the destructor breaks no promise.                               *)
(***************************************************************************)
THEOREM PatternRefined ==
    ASSUME Drains
    PROVE  Spec => Abstract!SafeSpec
<1>1. Init => Abstract!Init
  <2> SUFFICES ASSUME Init PROVE Abstract!Init
    OBVIOUS
  <2>1. \A c \in Calls : at[c] = "idle"
    BY DEF Init
  <2> QED BY <2>1 DEF Init, Abstract!Init
<1> QED BY <1>1, Invariance, ContractKept, RefinementStep, PTL DEF Spec, Abstract!SafeSpec

=============================================================================
