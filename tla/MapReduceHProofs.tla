-------------------------- MODULE MapReduceHProofs --------------------------
(***************************************************************************)
(* Proofs about MapReduceH, for any calls, inputs, keys and threads: its   *)
(* types, that the keyed collection of a call outlives the shuffles that   *)
(* add to it, that the reduction gets every value once, that the map a     *)
(* shuffle waits for is there, that with more threads than inputs the      *)
(* threads are never all waiting, and, for a program that drains, the      *)
(* safety part of the refinement of Pattern.                               *)
(***************************************************************************)
EXTENDS MapReduceH, StreamLemmas, FiniteSetTheorems, FunctionTheorems

\* What a thread holds, by what it is doing.
Hands ==
    \A w \in Workers :
        /\ pc[w] \in {"mapping", "getting", "adding"} => task[w] \in Inputs
        /\ pc[w] = "reducing" => task[w] \in Calls \X Keys
        /\ pc[w] = "adding" => left[w] \subseteq Emits[task[w]]

\* How far each call is in the vector of its inputs, or in the keys.
Cursor ==
    \A c \in Calls :
        /\ at[c] \in {"idle", "get"} => next[c] = 1
        /\ at[c] \in {"map", "shuffle"} => next[c] \in 1 .. Len(InputsOf[c])
        /\ at[c] = "reduce" => next[c] \in Keys

\* The call has pushed all its maps and shuffles.
Past(c) == at[c] \in {"await", "reduce", "collect", "done"}

\* It has pushed the map, and the shuffle, of its n-th input.
MapPushed(c, n) ==
    \/ Past(c)
    \/ at[c] = "map" /\ n < next[c]
    \/ at[c] = "shuffle" /\ n <= next[c]

ShufflePushed(c, n) ==
    \/ Past(c)
    \/ at[c] \in {"map", "shuffle"} /\ n < next[c]

Mapping(i) == \E w \in Workers : pc[w] = "mapping" /\ task[w] = i

\* A thread holds the shuffle of input i.
Shuffles(w, i) == pc[w] \in {"getting", "adding"} /\ task[w] = i

Shuffling(i) == \E w \in Workers : Shuffles(w, i)

QueuedShuffle(i) == Holds(shuffle_queue, Calls, i)

\* A map that was pushed is queued, in a thread's hands, or over.
MapsKept ==
    \A c \in Calls : \A n \in 1 .. Len(InputsOf[c]) : MapPushed(c, n) =>
        QueuedMap(InputsOf[c][n]) \/ Mapping(InputsOf[c][n]) \/ InputsOf[c][n] \in mapped

\* A shuffle that was pushed, and no other, is in one of three places.
ShufflesKept ==
    \A c \in Calls : \A n \in 1 .. Len(InputsOf[c]) : ShufflePushed(c, n) <=>
        \/ QueuedShuffle(InputsOf[c][n])
        \/ Shuffling(InputsOf[c][n])
        \/ InputsOf[c][n] \in shuffled

\* The places exclude each other.
ShufflesApart ==
    /\ Apart(shuffle_queue, Calls, CallOf)
    /\ \A i \in Inputs : QueuedShuffle(i) => ~Shuffling(i) /\ i \notin shuffled
    /\ \A w \in Workers, i \in Inputs : Shuffles(w, i) =>
        i \notin shuffled /\ \A v \in Workers : Shuffles(v, i) => v = w

\* Values are added after the map, and moved out after all the shuffles.
InTurn ==
    /\ \A w \in Workers : pc[w] = "adding" => task[w] \in mapped
    /\ shuffled \subseteq mapped
    /\ \A c \in Calls : at[c] \in {"reduce", "collect", "done"} => Vec(c) \subseteq shuffled

Added(i, k) ==
    \/ i \in shuffled
    \/ \E w \in Workers : pc[w] = "adding" /\ task[w] = i /\ k \notin left[w]

\* The collection holds what was added, each value once.
ValuesKept ==
    \A c \in Calls, k \in Keys :
        /\ \A m, n \in 1 .. Len(values[c][k]) : values[c][k][m] = values[c][k][n] => m = n
        /\ \A i \in Inputs :
            (\E n \in 1 .. Len(values[c][k]) : values[c][k][n] = i)
                <=> CallOf[i] = c /\ k \in Emits[i] /\ Added(i, k)

\* The inductive invariant, in the layers it is proved in.
Types == TypeOK /\ Hands /\ Cursor

Places == ShufflesKept /\ ShufflesApart /\ InTurn

IInv == Types /\ MapsKept /\ Places /\ ValuesKept

-----------------------------------------------------------------------------
(* For the refinement: the flags, and what a program that drains keeps.    *)

Lifecycle ==
    /\ owner = "spawn" => up /\ ~initialized
    /\ owner = "join" => up /\ initialized /\ (Drains => Resting)
    /\ owner = "idle" => up = initialized
    /\ owner = "gone" => ~up /\ ~initialized /\ Resting
    /\ ~up => \A w \in Workers : pc[w] = "off"

\* Only a call that got that far has keys reduced, and it got there while
\* the pattern was up.
Reducing(c) == at[c] \in {"reduce", "collect", "done"}

Reduced ==
    /\ \A w \in Workers : pc[w] = "reducing" => Reducing(task[w][1])
    /\ \A c \in Calls : reduce_queue[c] # <<>> => Reducing(c)
    /\ \A c \in Calls, k \in Keys : <<c, k>> \in reduced =>
        Reducing(c) /\ (Drains => at[c] = "done" \/ up)

\* Nothing is used before it is supplied.
Supplied ==
    /\ mapped \subseteq supplied
    /\ \A c \in Calls : at[c] \notin {"idle", "get"} => c \in supplied

Contract == Lifecycle /\ Reduced /\ Supplied

-----------------------------------------------------------------------------
\* Every input is at one position of one vector, that of its call.
LEMMA VectorFacts ==
    /\ \A c \in Calls : Len(InputsOf[c]) \in Nat /\ InputsOf[c] \in Seq(Inputs)
    /\ \A c \in Calls : \A n \in 1 .. Len(InputsOf[c]) :
         InputsOf[c][n] \in Inputs /\ CallOf[InputsOf[c][n]] = c
    /\ \A c \in Calls : \A m, n \in 1 .. Len(InputsOf[c]) :
         InputsOf[c][m] = InputsOf[c][n] => m = n
    /\ \A i \in Inputs : \E n \in 1 .. Len(InputsOf[CallOf[i]]) : InputsOf[CallOf[i]][n] = i
<1> DEFINE At(c, i) == {n \in 1 .. Len(InputsOf[c]) : InputsOf[c][n] = i}
<1>1. ASSUME NEW c \in Calls
      PROVE  /\ Len(InputsOf[c]) \in Nat /\ InputsOf[c] \in Seq(Inputs)
             /\ \A n \in 1 .. Len(InputsOf[c]) : InputsOf[c][n] \in Inputs
  BY MapReduceAssumption, LenProperties, ElementOfSeq
<1>2. ASSUME NEW c \in Calls, NEW i \in Inputs
      PROVE  /\ c # CallOf[i] => At(c, i) = {}
             /\ c = CallOf[i] => \E x : At(c, i) = {x}
  <2>1. IsFiniteSet(At(c, i))
    <3>1. IsFiniteSet(1 .. Len(InputsOf[c]))
      BY <1>1, FS_Interval
    <3>2. At(c, i) \subseteq 1 .. Len(InputsOf[c])
      OBVIOUS
    <3> HIDE DEF At
    <3> QED BY <3>1, <3>2, FS_Subset
  <2>2. Cardinality(At(c, i)) = IF c = CallOf[i] THEN 1 ELSE 0
    BY InputsAssumption
  <2> HIDE DEF At
  <2>3. c # CallOf[i] => At(c, i) = {}
    BY <2>1, <2>2, FS_EmptySet
  <2>4. c = CallOf[i] => \E x : At(c, i) = {x}
    BY <2>1, <2>2, FS_Singleton
  <2> QED BY <2>3, <2>4
<1>3. ASSUME NEW c \in Calls, NEW n \in 1 .. Len(InputsOf[c]) PROVE CallOf[InputsOf[c][n]] = c
  <2>1. InputsOf[c][n] \in Inputs /\ n \in At(c, InputsOf[c][n])
    BY <1>1
  <2> HIDE DEF At
  <2> QED BY <1>2, <2>1
<1>4. ASSUME NEW c \in Calls, NEW m \in 1 .. Len(InputsOf[c]), NEW n \in 1 .. Len(InputsOf[c]),
             InputsOf[c][m] = InputsOf[c][n]
      PROVE  m = n
  <2>1. /\ InputsOf[c][n] \in Inputs
        /\ m \in At(c, InputsOf[c][n]) /\ n \in At(c, InputsOf[c][n])
    BY <1>1, <1>4
  <2> HIDE DEF At
  <2>2. PICK x : At(c, InputsOf[c][n]) = {x}
    BY <1>2, <2>1
  <2> QED BY <2>1, <2>2
<1>5. ASSUME NEW i \in Inputs
      PROVE  \E n \in 1 .. Len(InputsOf[CallOf[i]]) : InputsOf[CallOf[i]][n] = i
  <2>1. CallOf[i] \in Calls
    BY MapReduceAssumption
  <2>2. \E n : n \in At(CallOf[i], i)
    BY <1>2, <2>1
  <2> QED BY <2>2
<1> QED BY <1>1, <1>3, <1>4, <1>5

-----------------------------------------------------------------------------
\* Every step keeps the types, what the threads hold, and the cursors.
LEMMA TypesStep == Types /\ [Next]_vars => Types'
<1> SUFFICES ASSUME Types, [Next]_vars PROVE Types'
  OBVIOUS
<1> USE DEF Types, TypeOK, Hands, Cursor
<1>1. ASSUME NEW c \in Calls, Begin(c) PROVE Types'
  BY <1>1 DEF Begin, life, threads, queues, ended
<1>2. ASSUME NEW c \in Calls, GetInputs(c) PROVE Types'
  <2>1. InputsOf[c] # <<>> => 1 \in 1 .. Len(InputsOf[c])
    BY VectorFacts, EmptySeq
  <2> QED BY <1>2, <2>1 DEF GetInputs, life, threads, queues, ended
<1>3. ASSUME NEW c \in Calls, PushMap(c) PROVE Types'
  <2>1. map_queue[c] \in Seq(Inputs) /\ InputsOf[c][next[c]] \in Inputs
    BY <1>3, VectorFacts DEF PushMap
  <2>2. Append(map_queue[c], InputsOf[c][next[c]]) \in Seq(Inputs)
    BY <2>1, AppendProperties
  <2> QED BY <1>3, <2>2 DEF PushMap, life, threads, ended
<1>4. ASSUME NEW c \in Calls, PushShuffle(c) PROVE Types'
  <2>1. shuffle_queue[c] \in Seq(Inputs) /\ InputsOf[c][next[c]] \in Inputs
    BY <1>4, VectorFacts DEF PushShuffle
  <2>2. Append(shuffle_queue[c], InputsOf[c][next[c]]) \in Seq(Inputs)
    BY <2>1, AppendProperties
  <2>3. /\ next[c] + 1 \in Nat
        /\ next[c] < Len(InputsOf[c]) => next[c] + 1 \in 1 .. Len(InputsOf[c])
    BY <1>4, VectorFacts DEF PushShuffle
  <2> QED BY <1>4, <2>2, <2>3 DEF PushShuffle, life, threads, ended
<1>5. ASSUME NEW c \in Calls, Await(c) PROVE Types'
  <2>1. StartReduce(c, Vec(c) \subseteq shuffled) /\ 0 \in Keys
    BY <1>5, MapReduceAssumption DEF Await, Keys
  <2> QED BY <2>1 DEF StartReduce, life, threads, queues, ended
<1>6. ASSUME NEW c \in Calls, PushReduce(c) PROVE Types'
  <2>1. reduce_queue[c] \in Seq(Keys) /\ next[c] \in Keys
    BY <1>6 DEF PushReduce
  <2>2. Append(reduce_queue[c], next[c]) \in Seq(Keys)
    BY <2>1, AppendProperties
  <2>3. next[c] < KeyCount - 1 => next[c] + 1 \in Keys
    BY <2>1, MapReduceAssumption DEF Keys
  <2> QED BY <1>6, <2>2, <2>3 DEF PushReduce, life, threads, ended
<1>7. ASSUME NEW c \in Calls, Collect(c) PROVE Types'
  BY <1>7 DEF Collect, life, threads, queues, ended
<1>8. ASSUME NEW x \in Calls \union Inputs, Supply(x) PROVE Types'
  BY <1>8 DEF Supply, life, threads, calls, queues, ended
<1>9. CASE InitBegin
  BY <1>9 DEF InitBegin, threads, calls, queues, ended
<1>10. CASE InitEnd
  BY <1>10 DEF InitEnd, threads, calls, queues, ended
<1>11. CASE DisposeBegin
  BY <1>11 DEF DisposeBegin, threads, calls, queues, ended
<1>12. CASE DisposeEnd
  BY <1>12 DEF DisposeEnd, calls, queues, ended
<1>13. CASE Destroy
  BY <1>13 DEF Destroy, threads, calls, queues, ended
<1>14. ASSUME NEW w \in Workers, Spawn(w) PROVE Types'
  BY <1>14 DEF Spawn, life, calls, queues, ended
<1>15. ASSUME NEW w \in Workers, TestDying(w) PROVE Types'
  BY <1>15 DEF TestDying, Goes, life, calls, queues, ended
<1>16. ASSUME NEW w \in Workers, PopFail(w) PROVE Types'
  BY <1>16 DEF PopFail, Goes, life, calls, queues, ended
<1>17. ASSUME NEW w \in Workers, PopMap(w) PROVE Types'
  <2>1. PICK c \in Calls :
          /\ map_queue[c] # <<>>
          /\ task' = [task EXCEPT ![w] = Head(map_queue[c])]
          /\ map_queue' = [map_queue EXCEPT ![c] = Tail(@)]
    BY <1>17 DEF PopMap
  <2>2. Head(map_queue[c]) \in Inputs /\ Tail(map_queue[c]) \in Seq(Inputs)
    BY <2>1, HeadTailProperties
  <2> QED BY <1>17, <2>1, <2>2 DEF PopMap, Goes, life, calls, ended
<1>18. ASSUME NEW w \in Workers, PopShuffle(w) PROVE Types'
  <2>1. PICK c \in Calls :
          /\ shuffle_queue[c] # <<>>
          /\ task' = [task EXCEPT ![w] = Head(shuffle_queue[c])]
          /\ shuffle_queue' = [shuffle_queue EXCEPT ![c] = Tail(@)]
    BY <1>18 DEF PopShuffle
  <2>2. Head(shuffle_queue[c]) \in Inputs /\ Tail(shuffle_queue[c]) \in Seq(Inputs)
    BY <2>1, HeadTailProperties
  <2> QED BY <1>18, <2>1, <2>2 DEF PopShuffle, Goes, life, calls, ended
<1>19. ASSUME NEW w \in Workers, PopReduce(w) PROVE Types'
  <2>1. PICK c \in Calls :
          /\ reduce_queue[c] # <<>>
          /\ task' = [task EXCEPT ![w] = <<c, Head(reduce_queue[c])>>]
          /\ reduce_queue' = [reduce_queue EXCEPT ![c] = Tail(@)]
    BY <1>19 DEF PopReduce
  <2>2. Head(reduce_queue[c]) \in Keys /\ Tail(reduce_queue[c]) \in Seq(Keys)
    BY <2>1, HeadTailProperties
  <2> QED BY <1>19, <2>1, <2>2 DEF PopReduce, Goes, life, calls, ended
<1>20. ASSUME NEW w \in Workers, Map(w) PROVE Types'
  BY <1>20 DEF Map, Goes, life, calls, queues
<1>21. ASSUME NEW w \in Workers, Get(w) PROVE Types'
  <2>1. Emits[task[w]] \subseteq Keys
    BY <1>21, MapReduceAssumption DEF Get
  <2> QED BY <1>21, <2>1 DEF Get, Goes, life, calls, queues, ended
<1>22. ASSUME NEW w \in Workers, Add(w) PROVE Types'
  <2>1. PICK k \in Keys : AddTo(w, k, Append(values[CallOf[task[w]]][k], task[w]))
    BY <1>22 DEF Add
  <2>2. task[w] \in Inputs /\ CallOf[task[w]] \in Calls
    BY <2>1, MapReduceAssumption DEF AddTo
  <2>3. values[CallOf[task[w]]][k] \in Seq(Inputs)
    BY <2>2
  <2>4. Append(values[CallOf[task[w]]][k], task[w]) \in Seq(Inputs)
    BY <2>2, <2>3, AppendProperties
  <2> QED BY <2>1, <2>2, <2>4 DEF AddTo, life, calls, queues, ended
<1>23. ASSUME NEW w \in Workers, SetShuffled(w) PROVE Types'
  BY <1>23 DEF SetShuffled, Goes, life, calls, queues
<1>24. ASSUME NEW w \in Workers, Reduce(w) PROVE Types'
  BY <1>24 DEF Reduce, Goes, life, calls, queues
<1>25. CASE UNCHANGED vars
  BY <1>25 DEF vars, life, threads, calls, queues, ended
<1> QED
  BY <1>1, <1>2, <1>3, <1>4, <1>5, <1>6, <1>7, <1>8, <1>9, <1>10, <1>11, <1>12, <1>13,
     <1>14, <1>15, <1>16, <1>17, <1>18, <1>19, <1>20, <1>21, <1>22, <1>23, <1>24, <1>25
  DEF Next, InCall, Worker, PopAny, Terminated

-----------------------------------------------------------------------------
\* A step that takes no map out of its place.
LEMMA MapsFrame ==
    ASSUME MapsKept, UNCHANGED map_queue, mapped \subseteq mapped',
           \A w \in Workers : pc[w] = "mapping" => pc'[w] = "mapping" /\ task'[w] = task[w],
           \A c \in Calls : \A n \in 1 .. Len(InputsOf[c]) : MapPushed(c, n)' => MapPushed(c, n)
    PROVE  MapsKept'
<1>1. \A i : QueuedMap(i) => QueuedMap(i)'
  BY DEF QueuedMap
<1>2. \A i : Mapping(i) => Mapping(i)'
  BY DEF Mapping
<1> QED BY <1>1, <1>2 DEF MapsKept

\* A call pushes a map.
LEMMA MapsPush == ASSUME Types, MapsKept, NEW c \in Calls, PushMap(c) PROVE MapsKept'
<1> DEFINE x == InputsOf[c][next[c]]
<1>1. x \in Inputs /\ map_queue \in [Calls -> Seq(Inputs)] /\ map_queue' = PushOn(map_queue, c, x)
  BY VectorFacts DEF Types, TypeOK, Cursor, PushMap, PushOn
<1>2. \A i : QueuedMap(i)' <=> QueuedMap(i) \/ i = x
  <2> HIDE DEF x
  <2>1. \A i : Holds(map_queue', Calls, i) <=> Holds(map_queue, Calls, i) \/ i = x
    BY <1>1, PushHolds
  <2> QED BY <2>1 DEF Holds, QueuedMap
<1>3. \A i : Mapping(i)' <=> Mapping(i)
  BY DEF Mapping, PushMap, threads
<1>4. \A d \in Calls : \A n \in 1 .. Len(InputsOf[d]) :
        MapPushed(d, n)' => MapPushed(d, n) \/ InputsOf[d][n] = x
  BY VectorFacts DEF PushMap, MapPushed, Past, Types, TypeOK, Cursor
<1>5. mapped' = mapped
  BY DEF PushMap, ended
<1> QED BY <1>2, <1>3, <1>4, <1>5 DEF MapsKept

\* A thread pops a map.
LEMMA MapsPop == ASSUME Types, MapsKept, NEW w \in Workers, PopMap(w) PROVE MapsKept'
<1> USE DEF Types, TypeOK
<1>1. PICK c \in Calls :
        /\ map_queue[c] # <<>>
        /\ task' = [task EXCEPT ![w] = Head(map_queue[c])]
        /\ map_queue' = PopOf(map_queue, c)
  BY DEF PopMap, PopOf
<1>2. PICK x : x = Head(map_queue[c])
  OBVIOUS
<1>3. \A i : QueuedMap(i) /\ i # x => QueuedMap(i)'
  <2>1. \A i : Holds(map_queue, Calls, i) /\ i # Head(map_queue[c]) => Holds(map_queue', Calls, i)
    <3>1. map_queue \in [Calls -> Seq(Inputs)]
      OBVIOUS
    <3> HIDE DEF TypeOK
    <3> QED BY <1>1, <3>1, PopLeaves
  <2> QED BY <1>2, <2>1 DEF Holds, QueuedMap
<1>4. Mapping(x)'
  BY <1>1, <1>2 DEF PopMap, Goes, Mapping
<1>5. \A i : Mapping(i) => Mapping(i)'
  BY <1>1 DEF PopMap, Goes, Mapping
<1>6. /\ mapped' = mapped
      /\ \A d \in Calls : \A n \in 1 .. Len(InputsOf[d]) : MapPushed(d, n)' <=> MapPushed(d, n)
  BY DEF PopMap, ended, calls, MapPushed, Past
<1> QED BY <1>3, <1>4, <1>5, <1>6 DEF MapsKept

\* A thread runs a map.
LEMMA MapsRun == ASSUME Types, MapsKept, NEW w \in Workers, Map(w) PROVE MapsKept'
<1>1. \A i : QueuedMap(i)' <=> QueuedMap(i)
  BY DEF QueuedMap, Map, queues
<1>2. \A i : Mapping(i) => Mapping(i)' \/ i \in mapped'
  BY DEF Map, Goes, Mapping, Types, TypeOK
<1>3. /\ mapped \subseteq mapped'
      /\ \A d \in Calls : \A n \in 1 .. Len(InputsOf[d]) : MapPushed(d, n)' <=> MapPushed(d, n)
  BY DEF Map, calls, MapPushed, Past
<1> QED BY <1>1, <1>2, <1>3 DEF MapsKept

\* No step loses a map.
LEMMA MapsStep == Types /\ MapsKept /\ [Next]_vars => MapsKept'
<1> SUFFICES ASSUME Types, MapsKept, [Next]_vars PROVE MapsKept'
  OBVIOUS
<1> USE DEF Types, TypeOK, Cursor, MapPushed, Past
<1>1. ASSUME NEW c \in Calls, Begin(c) PROVE MapsKept'
  BY <1>1, MapsFrame DEF Begin, life, threads, queues, ended
<1>2. ASSUME NEW c \in Calls, GetInputs(c) PROVE MapsKept'
  <2>1. /\ UNCHANGED <<map_queue, mapped, pc, task, next>>
        /\ at' = [at EXCEPT ![c] = IF InputsOf[c] = <<>> THEN "await" ELSE "map"]
        /\ next[c] = 1
    BY <1>2 DEF GetInputs, threads, queues, ended
  <2>2. InputsOf[c] = <<>> => \A n \in 1 .. Len(InputsOf[c]) : FALSE
    OBVIOUS
  <2>3. \A d \in Calls : \A n \in 1 .. Len(InputsOf[d]) : MapPushed(d, n)' => MapPushed(d, n)
    BY <2>1, <2>2
  <2> QED BY <2>1, <2>3, MapsFrame
<1>3. ASSUME NEW c \in Calls, PushMap(c) PROVE MapsKept'
  BY <1>3, MapsPush
<1>4. ASSUME NEW c \in Calls, PushShuffle(c) PROVE MapsKept'
  <2>1. /\ UNCHANGED <<map_queue, mapped, pc, task>>
        /\ at[c] = "shuffle"
        /\ at' = [at EXCEPT ![c] = IF next[c] < Len(InputsOf[c]) THEN "map" ELSE "await"]
        /\ next' = [next EXCEPT ![c] = @ + 1]
    BY <1>4 DEF PushShuffle, threads, ended
  <2>2. \A d \in Calls : \A n \in 1 .. Len(InputsOf[d]) : MapPushed(d, n)' => MapPushed(d, n)
    BY <2>1, VectorFacts
  <2> QED BY <2>1, <2>2, MapsFrame
<1>5. ASSUME NEW c \in Calls, Await(c) PROVE MapsKept'
  BY <1>5, MapsFrame DEF Await, StartReduce, life, threads, queues, ended
<1>6. ASSUME NEW c \in Calls, PushReduce(c) PROVE MapsKept'
  BY <1>6, MapsFrame DEF PushReduce, life, threads, ended
<1>7. ASSUME NEW c \in Calls, Collect(c) PROVE MapsKept'
  BY <1>7, MapsFrame DEF Collect, life, threads, queues, ended
<1>8. ASSUME NEW x \in Calls \union Inputs, Supply(x) PROVE MapsKept'
  BY <1>8, MapsFrame DEF Supply, life, threads, calls, queues, ended
<1>9. CASE InitBegin \/ InitEnd \/ DisposeBegin \/ Destroy
  BY <1>9, MapsFrame DEF InitBegin, InitEnd, DisposeBegin, Destroy, threads, calls, queues, ended
<1>10. CASE DisposeEnd
  BY <1>10, MapsFrame DEF DisposeEnd, calls, queues, ended
<1>11. ASSUME NEW w \in Workers, Spawn(w) \/ TestDying(w) \/ PopFail(w) PROVE MapsKept'
  BY <1>11, MapsFrame DEF Spawn, TestDying, PopFail, Goes, life, calls, queues, ended
<1>12. ASSUME NEW w \in Workers, PopMap(w) PROVE MapsKept'
  BY <1>12, MapsPop
<1>13. ASSUME NEW w \in Workers, PopShuffle(w) \/ PopReduce(w) PROVE MapsKept'
  BY <1>13, MapsFrame DEF PopShuffle, PopReduce, Goes, life, calls, ended
<1>14. ASSUME NEW w \in Workers, Map(w) PROVE MapsKept'
  BY <1>14, MapsRun
<1>15. ASSUME NEW w \in Workers, Get(w) PROVE MapsKept'
  BY <1>15, MapsFrame DEF Get, Goes, life, calls, queues, ended
<1>16. ASSUME NEW w \in Workers, Add(w) PROVE MapsKept'
  BY <1>16, MapsFrame DEF Add, AddTo, life, calls, queues, ended
<1>17. ASSUME NEW w \in Workers, SetShuffled(w) \/ Reduce(w) PROVE MapsKept'
  BY <1>17, MapsFrame DEF SetShuffled, Reduce, Goes, life, calls, queues
<1>18. CASE UNCHANGED vars
  BY <1>18, MapsFrame DEF vars, life, threads, calls, queues, ended
<1> QED
  BY <1>1, <1>2, <1>3, <1>4, <1>5, <1>6, <1>7, <1>8, <1>9, <1>10, <1>11, <1>12, <1>13,
     <1>14, <1>15, <1>16, <1>17, <1>18
  DEF Next, InCall, Worker, PopAny, Terminated

-----------------------------------------------------------------------------
\* A step that takes no shuffle out of its place.
LEMMA PlacesFrame ==
    ASSUME Places, UNCHANGED <<shuffle_queue, shuffled>>, mapped \subseteq mapped',
           \A w \in Workers, i \in Inputs : Shuffles(w, i)' <=> Shuffles(w, i),
           \A w \in Workers : pc'[w] = "adding" => task'[w] \in mapped,
           \A c \in Calls : \A n \in 1 .. Len(InputsOf[c]) :
               ShufflePushed(c, n)' <=> ShufflePushed(c, n),
           \A c \in Calls : at'[c] \in {"reduce", "collect", "done"} => Vec(c) \subseteq shuffled
    PROVE  Places'
<1> USE DEF Places
<1>1. \A i : QueuedShuffle(i)' <=> QueuedShuffle(i)
  BY DEF QueuedShuffle, Holds
<1>2. \A i \in Inputs : Shuffling(i)' <=> Shuffling(i)
  BY DEF Shuffling
<1>3. ShufflesKept'
  BY <1>1, <1>2, VectorFacts DEF ShufflesKept
<1>4. ShufflesApart'
  <2>1. Apart(shuffle_queue, Calls, CallOf)'
    BY DEF ShufflesApart, Apart, Once, Belongs
  <2> QED BY <1>1, <1>2, <2>1 DEF ShufflesApart
<1>5. InTurn'
  BY DEF InTurn, Vec
<1> QED BY <1>3, <1>4, <1>5

\* A call pushes a shuffle.
LEMMA PlacesPush == ASSUME Types, Places, NEW c \in Calls, PushShuffle(c) PROVE Places'
<1> DEFINE x == InputsOf[c][next[c]]
<1> USE DEF Places
<1>1. /\ next[c] \in 1 .. Len(InputsOf[c]) /\ x \in Inputs /\ CallOf[x] = c
      /\ shuffle_queue \in [Calls -> Seq(Inputs)]
      /\ shuffle_queue' = PushOn(shuffle_queue, c, x)
  BY VectorFacts DEF Types, TypeOK, Cursor, PushShuffle, PushOn
<1>2. ~QueuedShuffle(x) /\ ~Shuffling(x) /\ x \notin shuffled
  <2>1. ~ShufflePushed(c, next[c])
    BY <1>1 DEF PushShuffle, ShufflePushed, Past
  <2> QED BY <1>1, <2>1 DEF ShufflesKept
<1>3. \A i : QueuedShuffle(i)' <=> QueuedShuffle(i) \/ i = x
  <2> HIDE DEF x
  <2>1. \A i : Holds(shuffle_queue', Calls, i) <=> Holds(shuffle_queue, Calls, i) \/ i = x
    BY <1>1, PushHolds
  <2> QED BY <2>1 DEF Holds, QueuedShuffle
<1>4. Apart(shuffle_queue, Calls, CallOf)'
  <2> HIDE DEF x
  <2>1. Apart(shuffle_queue', Calls, CallOf)
    BY <1>1, <1>2, PushApart DEF ShufflesApart, QueuedShuffle
  <2> QED BY <2>1 DEF Apart, Once, Belongs
<1>5. /\ UNCHANGED <<shuffled, mapped, pc, task>>
      /\ \A w \in Workers, i \in Inputs : Shuffles(w, i)' <=> Shuffles(w, i)
      /\ \A i \in Inputs : Shuffling(i)' <=> Shuffling(i)
  BY DEF PushShuffle, Shuffles, Shuffling, threads, ended
<1>6. \A d \in Calls : \A n \in 1 .. Len(InputsOf[d]) :
        ShufflePushed(d, n)' <=> ShufflePushed(d, n) \/ InputsOf[d][n] = x
  <2>1. \A d \in Calls : \A n \in 1 .. Len(InputsOf[d]) :
          InputsOf[d][n] = x <=> d = c /\ n = next[c]
    BY <1>1, VectorFacts
  <2>2. /\ at[c] = "shuffle" /\ at'[c] = IF next[c] < Len(InputsOf[c]) THEN "map" ELSE "await"
        /\ next[c] \in Nat /\ next'[c] = next[c] + 1
        /\ \A d \in Calls \ {c} : at'[d] = at[d] /\ next'[d] = next[d]
    BY DEF PushShuffle, Types, TypeOK
  <2>3. \A n \in 1 .. Len(InputsOf[c]) : ShufflePushed(c, n)' <=> n < next[c] \/ n = next[c]
    BY <1>1, <2>2, VectorFacts DEF ShufflePushed, Past
  <2>4. \A n \in 1 .. Len(InputsOf[c]) : ShufflePushed(c, n) <=> n < next[c]
    BY <2>2 DEF ShufflePushed, Past
  <2>5. \A d \in Calls \ {c}, n \in Nat : ShufflePushed(d, n)' <=> ShufflePushed(d, n)
    BY <2>2 DEF ShufflePushed, Past
  <2> QED BY <2>1, <2>3, <2>4, <2>5, VectorFacts
<1>7. ShufflesKept'
  BY <1>3, <1>5, <1>6, VectorFacts DEF ShufflesKept
<1>8. ShufflesApart'
  BY <1>2, <1>3, <1>4, <1>5 DEF ShufflesApart, Shuffling
<1>9. InTurn'
  BY <1>5 DEF InTurn, Vec, PushShuffle, Types, TypeOK
<1> QED BY <1>7, <1>8, <1>9

\* A thread pops a shuffle.
LEMMA PlacesPop == ASSUME Types, Places, NEW w \in Workers, PopShuffle(w) PROVE Places'
<1> USE DEF Places
<1>1. PICK c \in Calls :
        /\ shuffle_queue[c] # <<>>
        /\ task' = [task EXCEPT ![w] = Head(shuffle_queue[c])]
        /\ shuffle_queue' = PopOf(shuffle_queue, c)
  BY DEF PopShuffle, PopOf
<1>2. PICK x : x = Head(shuffle_queue[c])
  OBVIOUS
<1>3. shuffle_queue \in [Calls -> Seq(Inputs)] /\ Apart(shuffle_queue, Calls, CallOf)
  BY DEF Types, TypeOK, ShufflesApart
<1>4. x \in Inputs /\ QueuedShuffle(x) /\ \A i : QueuedShuffle(i)' <=> QueuedShuffle(i) /\ i # x
  <2>1. /\ x \in Inputs /\ Holds(shuffle_queue, Calls, x)
        /\ \A i : Holds(shuffle_queue', Calls, i) <=> Holds(shuffle_queue, Calls, i) /\ i # x
    BY <1>1, <1>2, <1>3, PopHolds DEF Apart
  <2> QED BY <2>1 DEF Holds, QueuedShuffle
<1>5. Apart(shuffle_queue, Calls, CallOf)'
  <2>1. Apart(shuffle_queue', Calls, CallOf)
    BY <1>1, <1>3, PopApart
  <2> QED BY <2>1 DEF Apart, Once, Belongs
<1>6. /\ x \notin shuffled /\ ~Shuffling(x)
      /\ UNCHANGED <<shuffled, mapped, at, next>>
      /\ pc[w] = "shuffle" /\ pc' = [pc EXCEPT ![w] = "getting"]
  BY <1>4 DEF ShufflesApart, PopShuffle, Goes, ended, calls
<1>7. \A v \in Workers, i \in Inputs : Shuffles(v, i)' <=> Shuffles(v, i) \/ (v = w /\ i = x)
  BY <1>1, <1>2, <1>6 DEF Shuffles, Types, TypeOK
<1>8. \A i \in Inputs : Shuffling(i)' <=> Shuffling(i) \/ i = x
  BY <1>7 DEF Shuffling
<1>9. ShufflesKept'
  BY <1>4, <1>6, <1>8, VectorFacts DEF ShufflesKept, ShufflePushed, Past
<1>10. ShufflesApart'
  BY <1>4, <1>5, <1>6, <1>7, <1>8 DEF ShufflesApart, Shuffling
<1>11. InTurn'
  BY <1>1, <1>6 DEF InTurn, Vec, Types, TypeOK
<1> QED BY <1>9, <1>10, <1>11

\* A thread sets the promise of its shuffle.
LEMMA PlacesSet == ASSUME Types, Places, NEW w \in Workers, SetShuffled(w) PROVE Places'
<1> USE DEF Places
<1>1. PICK x : x = task[w]
  OBVIOUS
<1>2. /\ x \in Inputs /\ Shuffles(w, x) /\ x \in mapped /\ x \notin shuffled
      /\ UNCHANGED <<shuffle_queue, mapped, at, next>>
      /\ pc' = [pc EXCEPT ![w] = "loop"]
      /\ task' = [task EXCEPT ![w] = NoTask]
      /\ shuffled' = shuffled \union {x}
  BY <1>1 DEF SetShuffled, Goes, Shuffles, Types, Hands, InTurn, ShufflesApart, queues, calls
<1>3. ~QueuedShuffle(x) /\ \A v \in Workers : Shuffles(v, x) => v = w
  BY <1>2 DEF ShufflesApart, Shuffling
<1>4. \A v \in Workers, i \in Inputs : Shuffles(v, i)' <=> Shuffles(v, i) /\ v # w
  BY <1>2 DEF Shuffles, Types, TypeOK
<1>5. \A i \in Inputs : Shuffles(w, i) => i = x
  BY <1>1 DEF Shuffles
<1>6. \A i \in Inputs : Shuffling(i)' <=> Shuffling(i) /\ i # x
  BY <1>2, <1>3, <1>4, <1>5 DEF Shuffling
<1>7. \A i : QueuedShuffle(i)' <=> QueuedShuffle(i)
  BY <1>2 DEF QueuedShuffle, Holds
<1>8. ShufflesKept'
  BY <1>2, <1>3, <1>6, <1>7, VectorFacts DEF ShufflesKept, ShufflePushed, Past, Shuffling
<1>9. ShufflesApart'
  <2>1. Apart(shuffle_queue, Calls, CallOf)'
    BY <1>2 DEF ShufflesApart, Apart, Once, Belongs
  <2> QED BY <1>2, <1>3, <1>4, <1>6, <1>7, <2>1 DEF ShufflesApart
<1>10. InTurn'
  BY <1>2 DEF InTurn, Vec, Types, TypeOK
<1> QED BY <1>8, <1>9, <1>10

\* No step loses or doubles a shuffle.
LEMMA PlacesStep == Types /\ Places /\ [Next]_vars => Places'
<1> SUFFICES ASSUME Types, Places, [Next]_vars PROVE Places'
  OBVIOUS
<1> USE DEF Types, TypeOK, Cursor, Hands, ShufflePushed, Past, Shuffles
<1>0. /\ \A w \in Workers : pc[w] = "adding" => task[w] \in mapped
      /\ \A c \in Calls : at[c] \in {"reduce", "collect", "done"} => Vec(c) \subseteq shuffled
  BY DEF Places, InTurn
<1>1. ASSUME NEW c \in Calls, Begin(c) PROVE Places'
  BY <1>0, <1>1, PlacesFrame DEF Begin, threads, queues, ended
<1>2. ASSUME NEW c \in Calls, GetInputs(c) PROVE Places'
  <2>1. /\ UNCHANGED <<shuffle_queue, shuffled, mapped, pc, task, next>> /\ at[c] = "get"
        /\ at' = [at EXCEPT ![c] = IF InputsOf[c] = <<>> THEN "await" ELSE "map"]
        /\ next[c] = 1
    BY <1>2 DEF GetInputs, threads, queues, ended
  <2>2. InputsOf[c] = <<>> => \A n \in 1 .. Len(InputsOf[c]) : FALSE
    OBVIOUS
  <2>3. \A d \in Calls : \A n \in 1 .. Len(InputsOf[d]) : ShufflePushed(d, n)' <=> ShufflePushed(d, n)
    BY <2>1, <2>2
  <2> QED BY <1>0, <2>1, <2>3, PlacesFrame
<1>3. ASSUME NEW c \in Calls, PushMap(c) PROVE Places'
  BY <1>0, <1>3, PlacesFrame DEF PushMap, threads, ended
<1>4. ASSUME NEW c \in Calls, PushShuffle(c) PROVE Places'
  BY <1>4, PlacesPush
<1>5. ASSUME NEW c \in Calls, Await(c) PROVE Places'
  BY <1>0, <1>5, PlacesFrame DEF Await, StartReduce, threads, queues, ended
<1>6. ASSUME NEW c \in Calls, PushReduce(c) PROVE Places'
  BY <1>0, <1>6, PlacesFrame DEF PushReduce, threads, ended
<1>7. ASSUME NEW c \in Calls, Collect(c) PROVE Places'
  BY <1>0, <1>7, PlacesFrame DEF Collect, threads, queues, ended
<1>8. ASSUME NEW x \in Calls \union Inputs, Supply(x) PROVE Places'
  BY <1>0, <1>8, PlacesFrame DEF Supply, threads, calls, queues, ended
<1>9. CASE InitBegin \/ InitEnd \/ DisposeBegin \/ Destroy
  BY <1>0, <1>9, PlacesFrame DEF InitBegin, InitEnd, DisposeBegin, Destroy, threads, calls, queues, ended
<1>10. CASE DisposeEnd
  BY <1>0, <1>10, PlacesFrame DEF DisposeEnd, calls, queues, ended
<1>11. ASSUME NEW w \in Workers, Spawn(w) \/ TestDying(w) \/ PopFail(w) PROVE Places'
  BY <1>0, <1>11, PlacesFrame DEF Spawn, TestDying, PopFail, Goes, calls, queues, ended
<1>12. ASSUME NEW w \in Workers, PopMap(w) \/ PopReduce(w) PROVE Places'
  BY <1>0, <1>12, PlacesFrame DEF PopMap, PopReduce, Goes, calls, ended
<1>13. ASSUME NEW w \in Workers, PopShuffle(w) PROVE Places'
  BY <1>13, PlacesPop
<1>14. ASSUME NEW w \in Workers, Map(w) PROVE Places'
  BY <1>0, <1>14, PlacesFrame DEF Map, Goes, calls, queues
<1>15. ASSUME NEW w \in Workers, Get(w) PROVE Places'
  BY <1>0, <1>15, PlacesFrame DEF Get, Goes, calls, queues, ended
<1>16. ASSUME NEW w \in Workers, Add(w) PROVE Places'
  BY <1>0, <1>16, PlacesFrame DEF Add, AddTo, calls, queues, ended
<1>17. ASSUME NEW w \in Workers, SetShuffled(w) PROVE Places'
  BY <1>17, PlacesSet
<1>18. ASSUME NEW w \in Workers, Reduce(w) PROVE Places'
  BY <1>0, <1>18, PlacesFrame DEF Reduce, Goes, calls, queues
<1>19. CASE UNCHANGED vars
  BY <1>0, <1>19, PlacesFrame DEF vars, threads, calls, queues, ended
<1> QED
  BY <1>1, <1>2, <1>3, <1>4, <1>5, <1>6, <1>7, <1>8, <1>9, <1>10, <1>11, <1>12, <1>13,
     <1>14, <1>15, <1>16, <1>17, <1>18, <1>19
  DEF Next, InCall, Worker, PopAny, Terminated

-----------------------------------------------------------------------------
\* A step that adds no value.
LEMMA ValuesFrame ==
    ASSUME ValuesKept, UNCHANGED values,
           \A i \in Inputs : \A k \in Emits[i] : Added(i, k)' <=> Added(i, k)
    PROVE  ValuesKept'
  BY DEF ValuesKept

\* A step that leaves alone what threads do with the values.
LEMMA ValuesIdle ==
    ASSUME ValuesKept, UNCHANGED <<values, shuffled>>,
           \A w \in Workers : pc[w] = "adding" <=> pc'[w] = "adding",
           \A w \in Workers : pc[w] = "adding" => task'[w] = task[w] /\ left'[w] = left[w]
    PROVE  ValuesKept'
<1>1. \A i, k : Added(i, k)' <=> Added(i, k)
  BY DEF Added
<1> QED BY <1>1, ValuesFrame

\* A thread adds the value of one key.
LEMMA ValuesAdd == ASSUME Types, Places, ValuesKept, NEW w \in Workers, Add(w) PROVE ValuesKept'
<1>0. PICK x : x = task[w]
  OBVIOUS
<1>1. PICK k \in Keys : AddTo(w, k, Append(values[CallOf[x]][k], x))
  BY <1>0 DEF Add
<1>2. PICK c : c = CallOf[x]
  OBVIOUS
<1>3. /\ x \in Inputs /\ c \in Calls /\ k \in Emits[x] /\ k \in left[w] /\ Shuffles(w, x)
      /\ values[c][k] \in Seq(Inputs) /\ values \in [Calls -> [Keys -> Seq(Inputs)]]
      /\ values' = [values EXCEPT ![c][k] = Append(values[c][k], x)]
      /\ left' = [left EXCEPT ![w] = @ \ {k}] /\ left \in [Workers -> SUBSET Keys]
      /\ UNCHANGED <<pc, task, shuffled>> /\ pc[w] = "adding"
  BY <1>0, <1>1, <1>2, MapReduceAssumption DEF AddTo, Types, TypeOK, Hands, Shuffles, ended
<1>4. x \notin shuffled /\ \A v \in Workers : Shuffles(v, x) => v = w
  BY <1>3 DEF Places, ShufflesApart
<1>5. ~Added(x, k)
  BY <1>0, <1>3, <1>4 DEF Added, Shuffles
<1>6. \A i \in Inputs, h \in Keys : Added(i, h)' <=> Added(i, h) \/ (i = x /\ h = k)
  BY <1>0, <1>3 DEF Added
<1> DEFINE vec == values[c][k]
<1>7. \A d \in Calls, h \in Keys : d # c \/ h # k => values'[d][h] = values[d][h]
  BY <1>3
<1>8. /\ values'[c][k] = Append(vec, x) /\ Len(vec) \in Nat
      /\ \A n \in 1 .. Len(vec) : vec[n] \in Inputs /\ vec[n] # x
  <2>1. \A n \in 1 .. Len(vec) : vec[n] # x
    BY <1>3, <1>5 DEF ValuesKept
  <2> QED BY <1>3, <2>1, LenProperties, ElementOfSeq
<1>9. /\ Len(Append(vec, x)) = Len(vec) + 1 /\ Append(vec, x)[Len(vec) + 1] = x
      /\ \A n \in 1 .. Len(vec) : Append(vec, x)[n] = vec[n]
  BY <1>3, AppendProperties
<1>10. \A m, n \in 1 .. Len(Append(vec, x)) : Append(vec, x)[m] = Append(vec, x)[n] => m = n
  <2>1. \A m, n \in 1 .. Len(vec) : vec[m] = vec[n] => m = n
    BY <1>3 DEF ValuesKept
  <2>2. \A m \in 1 .. Len(Append(vec, x)) : m \in 1 .. Len(vec) \/ m = Len(vec) + 1
    BY <1>8, <1>9
  <2> HIDE DEF vec
  <2> QED BY <1>8, <1>9, <2>1, <2>2
<1>11. \A i \in Inputs : (\E n \in 1 .. Len(Append(vec, x)) : Append(vec, x)[n] = i)
                           <=> (\E n \in 1 .. Len(vec) : vec[n] = i) \/ i = x
  <2> HIDE DEF vec
  <2>1. Len(vec) + 1 \in 1 .. Len(Append(vec, x))
    BY <1>8, <1>9
  <2>2. \A n \in 1 .. Len(Append(vec, x)) : n \in 1 .. Len(vec) \/ n = Len(vec) + 1
    BY <1>8, <1>9
  <2>3. \A n \in 1 .. Len(vec) : n \in 1 .. Len(Append(vec, x))
    BY <1>8, <1>9
  <2> QED BY <1>9, <2>1, <2>2, <2>3
<1>12. ASSUME NEW d \in Calls, NEW h \in Keys, d # c \/ h # k
       PROVE  /\ \A m, n \in 1 .. Len(values'[d][h]) : values'[d][h][m] = values'[d][h][n] => m = n
              /\ \A i \in Inputs :
                   (\E n \in 1 .. Len(values'[d][h]) : values'[d][h][n] = i)
                     <=> CallOf[i] = d /\ h \in Emits[i] /\ Added(i, h)'
  BY <1>2, <1>6, <1>7, <1>12 DEF ValuesKept
<1>13. \A i \in Inputs : (\E n \in 1 .. Len(vec) : vec[n] = i)
                           <=> CallOf[i] = c /\ k \in Emits[i] /\ Added(i, k)
  BY <1>3 DEF ValuesKept
<1>14. \A i \in Inputs : (\E n \in 1 .. Len(values'[c][k]) : values'[c][k][n] = i)
                           <=> CallOf[i] = c /\ k \in Emits[i] /\ Added(i, k)'
  <2> HIDE DEF vec
  <2>1. \A i \in Inputs : Added(i, k)' <=> Added(i, k) \/ i = x
    BY <1>6
  <2>2. \A i \in Inputs : (\E n \in 1 .. Len(Append(vec, x)) : Append(vec, x)[n] = i)
                            <=> CallOf[i] = c /\ k \in Emits[i] /\ Added(i, k)'
    BY <1>2, <1>3, <1>11, <1>13, <2>1
  <2> QED BY <1>8, <2>2
<1>15. \A m, n \in 1 .. Len(values'[c][k]) : values'[c][k][m] = values'[c][k][n] => m = n
  <2> HIDE DEF vec
  <2> QED BY <1>8, <1>10
<1> QED BY <1>12, <1>14, <1>15 DEF ValuesKept

\* Every step keeps the collection as complete as the shuffles are.
LEMMA ValuesStep == Types /\ Places /\ ValuesKept /\ [Next]_vars => ValuesKept'
<1> SUFFICES ASSUME Types, Places, ValuesKept, [Next]_vars PROVE ValuesKept'
  OBVIOUS
<1> USE DEF Types, TypeOK
<1>1. ASSUME NEW c \in Calls, Begin(c) \/ InCall(c) PROVE ValuesKept'
  <2>1. UNCHANGED <<values, shuffled, pc, task, left>>
    BY <1>1 DEF Begin, InCall, GetInputs, PushMap, PushShuffle, Await, StartReduce, PushReduce,
                Collect, threads, ended
  <2> QED BY <2>1, ValuesIdle
<1>2. ASSUME NEW x \in Calls \union Inputs, Supply(x) PROVE ValuesKept'
  BY <1>2, ValuesIdle DEF Supply, threads, ended
<1>3. CASE InitBegin \/ InitEnd \/ DisposeBegin \/ Destroy
  BY <1>3, ValuesIdle DEF InitBegin, InitEnd, DisposeBegin, Destroy, threads, ended
<1>4. CASE DisposeEnd
  BY <1>4, ValuesIdle DEF DisposeEnd, ended
<1>5. ASSUME NEW w \in Workers, Spawn(w) \/ TestDying(w) \/ PopFail(w) PROVE ValuesKept'
  BY <1>5, ValuesIdle DEF Spawn, TestDying, PopFail, Goes, ended
<1>6. ASSUME NEW w \in Workers, PopAny(w) PROVE ValuesKept'
  BY <1>6, ValuesIdle DEF PopAny, PopMap, PopShuffle, PopReduce, Goes, ended
<1>7. ASSUME NEW w \in Workers, Map(w) \/ Reduce(w) PROVE ValuesKept'
  BY <1>7, ValuesIdle DEF Map, Reduce, Goes
<1>8. ASSUME NEW w \in Workers, Get(w) PROVE ValuesKept'
  <2>1. \A i \in Inputs : \A k \in Emits[i] : Added(i, k)' <=> Added(i, k)
    BY <1>8 DEF Get, Goes, Added, ended
  <2> QED BY <1>8, <2>1, ValuesFrame DEF Get
<1>9. ASSUME NEW w \in Workers, Add(w) PROVE ValuesKept'
  BY <1>9, ValuesAdd
<1>10. ASSUME NEW w \in Workers, SetShuffled(w) PROVE ValuesKept'
  <2>1. \A i \in Inputs : \A k \in Emits[i] : Added(i, k)' <=> Added(i, k)
    BY <1>10 DEF SetShuffled, Goes, Added
  <2> QED BY <1>10, <2>1, ValuesFrame DEF SetShuffled
<1>11. CASE UNCHANGED vars
  BY <1>11, ValuesIdle DEF vars, threads, ended
<1> QED
  BY <1>1, <1>2, <1>3, <1>4, <1>5, <1>6, <1>7, <1>8, <1>9, <1>10, <1>11
  DEF Next, Worker, Terminated

-----------------------------------------------------------------------------
LEMMA InitIInv == Init => IInv
<1> SUFFICES ASSUME Init PROVE IInv
  OBVIOUS
<1>1. Types
  BY MapReduceAssumption, EmptySeq DEF Init, Types, TypeOK, Hands, Cursor, Empty
<1>2. /\ \A i : ~QueuedShuffle(i)
      /\ \A w \in Workers, i \in Inputs : ~Shuffles(w, i)
      /\ \A c \in Calls : \A n \in 1 .. Len(InputsOf[c]) : ~MapPushed(c, n) /\ ~ShufflePushed(c, n)
  BY DEF Init, Empty, QueuedShuffle, Holds, Shuffles, MapPushed, ShufflePushed, Past
<1>3. MapsKept
  BY <1>2 DEF MapsKept
<1>4. ShufflesKept
  BY <1>2, VectorFacts DEF ShufflesKept, Shuffling, Init
<1>5. ShufflesApart
  <2>1. Apart(shuffle_queue, Calls, CallOf)
    BY DEF Init, Empty, Apart, Once, Belongs
  <2> QED BY <1>2, <2>1 DEF ShufflesApart
<1>6. InTurn
  BY DEF Init, InTurn
<1>7. ValuesKept
  BY DEF Init, ValuesKept, Added
<1> QED BY <1>1, <1>3, <1>4, <1>5, <1>6, <1>7 DEF IInv, Places

\* The types, and where every map, shuffle and value is, hold together.
THEOREM Invariance == Spec => []IInv
<1>1. IInv /\ [Next]_vars => IInv'
  BY TypesStep, MapsStep, PlacesStep, ValuesStep DEF IInv
<1> QED BY <1>1, InitIInv, PTL DEF Spec

\* The call whose input a thread or a queue holds for the shuffle has not
\* gone on to the reduction.
LEMMA StillCollecting ==
    ASSUME IInv, NEW i \in Inputs, QueuedShuffle(i) \/ Shuffling(i)
    PROVE  Collecting(CallOf[i])
<1> USE DEF IInv, Places
<1>1. PICK n \in 1 .. Len(InputsOf[CallOf[i]]) : InputsOf[CallOf[i]][n] = i
  BY VectorFacts
<1>2. CallOf[i] \in Calls
  BY MapReduceAssumption
<1>3. ShufflePushed(CallOf[i], n)
  BY <1>1, <1>2 DEF ShufflesKept
<1>4. i \notin shuffled /\ i \in Vec(CallOf[i])
  BY <1>1 DEF ShufflesApart, Shuffling, Vec
<1>5. at[CallOf[i]] \notin {"reduce", "collect", "done"}
  BY <1>2, <1>4 DEF InTurn
<1> QED BY <1>3, <1>5 DEF ShufflePushed, Past, Collecting

(***************************************************************************)
(* The keyed collection, a local variable of the call, outlives every      *)
(* shuffle task that holds a pointer to it.                                *)
(***************************************************************************)
THEOREM CollectionAliveCorrect == Spec => []CollectionAlive
<1>1. IInv => CollectionAlive
  <2> SUFFICES ASSUME IInv PROVE CollectionAlive
    OBVIOUS
  <2>1. ASSUME NEW w \in Workers, pc[w] \in {"getting", "adding"}
        PROVE  Collecting(CallOf[task[w]])
    BY <2>1, StillCollecting DEF IInv, Types, Hands, Shuffling, Shuffles
  <2>2. ASSUME NEW c \in Calls, shuffle_queue[c] # <<>>
        PROVE  Collecting(c)
    <3> DEFINE x == shuffle_queue[c][1]
    <3>1. shuffle_queue[c] \in Seq(Inputs)
      BY DEF IInv, Types, TypeOK
    <3>2. 1 \in 1 .. Len(shuffle_queue[c])
      BY <2>2, <3>1, EmptySeq, LenProperties
    <3>3. x \in Inputs /\ QueuedShuffle(x)
      BY <3>1, <3>2, ElementOfSeq DEF QueuedShuffle, Holds
    <3>4. CallOf[x] = c
      BY <3>2 DEF IInv, Places, ShufflesApart, Apart, Belongs
    <3> QED BY <3>3, <3>4, StillCollecting
  <2> QED BY <2>1, <2>2 DEF CollectionAlive, IInv, Types
<1> QED BY <1>1, Invariance, PTL

(***************************************************************************)
(* The reduction of a key gets every value the maps of the call's inputs   *)
(* emitted for it, and each of them once.                                  *)
(***************************************************************************)
THEOREM CompleteCorrect == Spec => []Complete
<1>1. IInv => Complete
  <2> SUFFICES ASSUME IInv, NEW c \in Calls, at[c] \in {"reduce", "collect", "done"}, NEW k \in Keys
               PROVE  LET vec  == values[c][k]
                          from == {i \in Vec(c) : k \in Emits[i]}
                      IN  Len(vec) = Cardinality(from) /\ {vec[n] : n \in 1 .. Len(vec)} = from
    BY DEF Complete
  <2> DEFINE vec == values[c][k]
             from == {i \in Vec(c) : k \in Emits[i]}
  <2>1. vec \in Seq(Inputs) /\ Len(vec) \in Nat /\ \A n \in 1 .. Len(vec) : vec[n] \in Inputs
    BY LenProperties, ElementOfSeq DEF IInv, Types, TypeOK
  <2>2. \A i : i \in Vec(c) <=> i \in Inputs /\ CallOf[i] = c
    BY VectorFacts DEF Vec
  <2>3. Vec(c) \subseteq shuffled
    BY DEF IInv, Places, InTurn
  <2>4. \A i \in Inputs : (\E n \in 1 .. Len(vec) : vec[n] = i) <=> i \in from
    BY <2>2, <2>3 DEF IInv, ValuesKept, Added
  <2>5. \A m, n \in 1 .. Len(vec) : vec[m] = vec[n] => m = n
    BY DEF IInv, ValuesKept
  <2>6. from \subseteq Inputs
    BY <2>2
  <2> HIDE DEF vec, from
  <2>7. {vec[n] : n \in 1 .. Len(vec)} = from
    BY <2>1, <2>4, <2>6
  <2>8. ExistsBijection(1 .. Len(vec), from)
    <3> DEFINE f == [n \in 1 .. Len(vec) |-> vec[n]]
    <3>1. f \in [1 .. Len(vec) -> from]
      BY <2>7
    <3>2. \A m, n \in 1 .. Len(vec) : f[m] = f[n] => m = n
      BY <2>5
    <3>3. \A x \in from : \E n \in 1 .. Len(vec) : f[n] = x
      BY <2>7
    <3> HIDE DEF f
    <3>4. f \in Bijection(1 .. Len(vec), from)
      BY <3>1, <3>2, <3>3, Fun_IsBij
    <3> QED BY <3>4 DEF ExistsBijection
  <2>9. IsFiniteSet(1 .. Len(vec)) /\ Cardinality(1 .. Len(vec)) = Len(vec)
    <3>1. PICK m \in Int : m = Len(vec) /\ m >= 0
      BY <2>1
    <3>2. IsFiniteSet(1 .. m) /\ Cardinality(1 .. m) = IF 1 > m THEN 0 ELSE m - 1 + 1
      BY FS_Interval
    <3> QED BY <3>1, <3>2
  <2>10. Cardinality(from) = Len(vec)
    BY <2>8, <2>9, FS_Bijection
  <2> QED BY <2>7, <2>10 DEF vec, from
<1> QED BY <1>1, Invariance, PTL

(***************************************************************************)
(* The map that a shuffle waits for is queued, in a thread's hands, or     *)
(* over.                                                                   *)
(***************************************************************************)
THEOREM MapIsThereCorrect == Spec => []MapIsThere
<1>1. IInv => MapIsThere
  <2> SUFFICES ASSUME IInv, NEW w \in Workers, pc[w] = "getting"
               PROVE  \/ task[w] \in mapped
                      \/ QueuedMap(task[w])
                      \/ \E v \in Workers : pc[v] = "mapping" /\ task[v] = task[w]
    BY DEF MapIsThere
  <2> DEFINE i == task[w]
             c == CallOf[i]
  <2>1. i \in Inputs /\ c \in Calls /\ Shuffling(i)
    BY MapReduceAssumption DEF IInv, Types, Hands, Shuffling, Shuffles
  <2>2. PICK n \in 1 .. Len(InputsOf[c]) : InputsOf[c][n] = i
    BY <2>1, VectorFacts
  <2>3. ShufflePushed(c, n)
    BY <2>1, <2>2 DEF IInv, Places, ShufflesKept
  <2>4. MapPushed(c, n)
    <3>1. next[c] \in Nat /\ n \in Int
      BY <2>1 DEF IInv, Types, TypeOK
    <3> QED BY <2>3, <3>1 DEF ShufflePushed, MapPushed
  <2>5. QueuedMap(i) \/ Mapping(i) \/ i \in mapped
    BY <2>1, <2>2, <2>4 DEF IInv, MapsKept
  <2> QED BY <2>5 DEF Mapping
<1> QED BY <1>1, Invariance, PTL

(***************************************************************************)
(* With more threads than inputs there is always a thread that does not    *)
(* wait for a map in the queue: no two threads hold the same shuffle.  The *)
(* code does not ask for that many.                                        *)
(***************************************************************************)
THEOREM NoStuckCorrect ==
    ASSUME Cardinality(Workers) > Cardinality(Inputs)
    PROVE  Spec => []NoStuck
<1>1. IInv => NoStuck
  <2> SUFFICES ASSUME IInv, \A w \in Workers : pc[w] = "getting" /\ QueuedMap(task[w]) PROVE FALSE
    BY DEF NoStuck
  <2>1. task \in [Workers -> Inputs]
    BY DEF IInv, Types, TypeOK, Hands
  <2>2. IsFiniteSet(Workers) /\ IsFiniteSet(Inputs)
    BY MapReduceAssumption
  <2>3. PICK v \in Workers, w \in Workers : v # w /\ task[v] = task[w]
    BY <2>1, <2>2, FS_PigeonHole
  <2>4. task[v] \in Inputs /\ Shuffles(v, task[v]) /\ Shuffles(w, task[v])
    BY <2>1, <2>3 DEF Shuffles
  <2> QED BY <2>3, <2>4 DEF IInv, Places, ShufflesApart
<1> QED BY <1>1, Invariance, PTL

-----------------------------------------------------------------------------
\* Every step keeps the flags and the threads in step with the owner.
LEMMA LifecycleStep == Types /\ Lifecycle /\ [Next]_vars => Lifecycle'
<1> SUFFICES ASSUME Types, Lifecycle, [Next]_vars PROVE Lifecycle'
  OBVIOUS
<1> USE DEF Lifecycle
<1>1. ASSUME NEW c \in Calls, Begin(c) PROVE Lifecycle'
  BY <1>1 DEF Begin, life, threads, Resting, Types, TypeOK
<1>2. ASSUME NEW c \in Calls, InCall(c) PROVE Lifecycle'
  <2>1. UNCHANGED <<life, threads>> /\ ~Resting
    BY <1>2 DEF InCall, GetInputs, PushMap, PushShuffle, Await, StartReduce, PushReduce, Collect,
                Resting
  <2> QED BY <2>1 DEF life, threads
<1>3. ASSUME NEW x \in Calls \union Inputs, Supply(x) PROVE Lifecycle'
  BY <1>3 DEF Supply, life, threads, calls, Resting
<1>4. CASE InitBegin
  BY <1>4 DEF InitBegin, threads, calls, Resting
<1>5. CASE InitEnd
  <2>1. up = TRUE /\ up' = TRUE /\ initialized' = TRUE /\ owner' = "idle"
    BY <1>5 DEF InitEnd, Types, TypeOK
  <2> QED BY <2>1
<1>6. CASE DisposeBegin \/ Destroy
  BY <1>6 DEF DisposeBegin, Destroy, threads, calls, Resting
<1>7. CASE DisposeEnd
  BY <1>7 DEF DisposeEnd, calls, Resting
<1>8. ASSUME NEW w \in Workers, Spawn(w) PROVE Lifecycle'
  BY <1>8 DEF Spawn, life, calls, Resting
<1>9. ASSUME NEW w \in Workers, Worker(w) PROVE Lifecycle'
  <2>1. UNCHANGED <<life, calls>> /\ pc[w] # "off"
    BY <1>9 DEF Worker, PopAny, TestDying, PopFail, PopMap, PopShuffle, PopReduce, Map, Get,
                Add, AddTo, SetShuffled, Reduce
  <2>2. up
    BY <2>1
  <2> QED BY <2>1, <2>2 DEF life, calls, Resting
<1>10. CASE UNCHANGED vars
  BY <1>10 DEF vars, life, threads, calls, Resting
<1> QED
  BY <1>1, <1>2, <1>3, <1>4, <1>5, <1>6, <1>7, <1>8, <1>9, <1>10 DEF Next, Terminated

\* A call that reduces goes on to reduce, or ends.
LEMMA ReducingStays == Types /\ [Next]_vars => \A c \in Calls : Reducing(c) => Reducing(c)'
<1> SUFFICES ASSUME Types, [Next]_vars, NEW c \in Calls, Reducing(c) PROVE Reducing(c)'
  OBVIOUS
<1> USE DEF Reducing, Types, TypeOK
<1>1. ASSUME NEW d \in Calls, Begin(d) \/ InCall(d) PROVE Reducing(c)'
  BY <1>1 DEF Begin, InCall, GetInputs, PushMap, PushShuffle, Await, StartReduce, PushReduce,
              Collect
<1>2. ASSUME NEW x \in Calls \union Inputs, Supply(x) PROVE UNCHANGED calls
  BY <1>2 DEF Supply
<1>3. ASSUME InitBegin \/ InitEnd \/ DisposeBegin \/ DisposeEnd \/ Destroy PROVE UNCHANGED calls
  BY <1>3 DEF InitBegin, InitEnd, DisposeBegin, DisposeEnd, Destroy
<1>4. ASSUME NEW w \in Workers, Spawn(w) \/ Worker(w) PROVE UNCHANGED calls
  BY <1>4 DEF Spawn, Worker, PopAny, TestDying, PopFail, PopMap, PopShuffle, PopReduce, Map,
              Get, Add, AddTo, SetShuffled, Reduce
<1>5. ASSUME UNCHANGED vars PROVE UNCHANGED calls
  BY <1>5 DEF vars
<1>6. UNCHANGED calls => Reducing(c)'
  BY DEF calls
<1> QED BY <1>1, <1>2, <1>3, <1>4, <1>5, <1>6 DEF Next, Terminated

\* A step that queues, takes and reduces no key.
LEMMA ReducedFrame ==
    ASSUME Types, Types', Reduced, UNCHANGED <<reduce_queue, reduced>>,
           up => up' \/ ~Drains \/ Resting,
           \A w \in Workers : pc'[w] = "reducing" => pc[w] = "reducing" /\ task'[w] = task[w],
           \A c \in Calls : Reducing(c) => Reducing(c)',
           \A c \in Calls : at[c] = "done" => at'[c] = "done"
    PROVE  Reduced'
<1>1. ASSUME NEW w \in Workers, pc'[w] = "reducing" PROVE Reducing(task[w][1])'
  <2>1. pc[w] = "reducing" /\ task'[w] = task[w] /\ Reducing(task[w][1]) /\ task[w][1] \in Calls
    BY <1>1 DEF Reduced, Types, Hands
  <2> QED BY <2>1 DEF Reducing
<1>2. ASSUME NEW c \in Calls, reduce_queue'[c] # <<>> PROVE Reducing(c)'
  BY <1>2 DEF Reduced
<1>3. ASSUME NEW c \in Calls, NEW k \in Keys, <<c, k>> \in reduced'
      PROVE  Reducing(c)' /\ (Drains => at'[c] = "done" \/ up')
  <2>1. Reducing(c) /\ (Drains => at[c] = "done" \/ up)
    BY <1>3 DEF Reduced
  <2>2. Resting => at[c] = "done"
    BY <2>1 DEF Resting, Reducing
  <2> QED BY <2>1, <2>2
<1> QED BY <1>1, <1>2, <1>3 DEF Reduced, Reducing

\* Keys are reduced for the calls that wait for them.
LEMMA ReducedStep == Types /\ Types' /\ Lifecycle /\ Reduced /\ [Next]_vars => Reduced'
<1> SUFFICES ASSUME Types, Types', Lifecycle, Reduced, [Next]_vars PROVE Reduced'
  OBVIOUS
<1>0. \A c \in Calls : Reducing(c) => Reducing(c)'
  BY ReducingStays
<1> USE DEF Types, TypeOK
<1>1. ASSUME NEW c \in Calls, PushReduce(c) PROVE Reduced'
  <2>1. /\ \A d \in Calls : reduce_queue'[d] # <<>> => d = c \/ reduce_queue[d] # <<>>
        /\ Reducing(c) /\ UNCHANGED <<pc, task, reduced, up>>
        /\ \A d \in Calls : at[d] = "done" => at'[d] = "done"
    BY <1>1 DEF PushReduce, life, threads, ended, Reducing
  <2>2. ASSUME NEW w \in Workers, pc'[w] = "reducing" PROVE Reducing(task[w][1])'
    <3>1. Reducing(task[w][1]) /\ task[w][1] \in Calls
      BY <2>1, <2>2 DEF Reduced, Hands
    <3> QED BY <1>0, <2>1, <3>1 DEF Reducing
  <2> QED BY <1>0, <2>1, <2>2 DEF Reduced, Reducing
<1>2. ASSUME NEW c \in Calls, Begin(c) \/ GetInputs(c) \/ PushMap(c) \/ PushShuffle(c)
                                \/ Await(c) \/ Collect(c)
      PROVE  Reduced'
  <2>1. UNCHANGED <<life, threads, reduce_queue, reduced>>
    BY <1>2 DEF Begin, GetInputs, PushMap, PushShuffle, Await, StartReduce, Collect, queues, ended
  <2>2. \A d \in Calls : at[d] = "done" => at'[d] = "done"
    BY <1>2 DEF Begin, GetInputs, PushMap, PushShuffle, Await, StartReduce, Collect
  <2> QED BY <1>0, <2>1, <2>2, ReducedFrame DEF life, threads
<1>3. ASSUME NEW x \in Calls \union Inputs, Supply(x) PROVE Reduced'
  BY <1>0, <1>3, ReducedFrame DEF Supply, life, threads, calls, queues, ended
<1>4. CASE InitBegin \/ InitEnd \/ DisposeBegin \/ Destroy
  BY <1>0, <1>4, ReducedFrame DEF InitBegin, InitEnd, DisposeBegin, Destroy, threads, calls,
                                  queues, ended
<1>5. CASE DisposeEnd
  BY <1>0, <1>5, ReducedFrame DEF DisposeEnd, calls, queues, ended, Lifecycle
<1>6. ASSUME NEW w \in Workers, Spawn(w) \/ TestDying(w) \/ PopFail(w) \/ PopMap(w) \/ PopShuffle(w)
      PROVE  Reduced'
  BY <1>0, <1>6, ReducedFrame DEF Spawn, TestDying, PopFail, PopMap, PopShuffle, Goes, life,
                                  calls, queues, ended
<1>7. ASSUME NEW w \in Workers, PopReduce(w) PROVE Reduced'
  <2>1. PICK c \in Calls :
          /\ reduce_queue[c] # <<>>
          /\ task' = [task EXCEPT ![w] = <<c, Head(reduce_queue[c])>>]
          /\ reduce_queue' = [reduce_queue EXCEPT ![c] = Tail(@)]
    BY <1>7 DEF PopReduce
  <2>2. UNCHANGED <<reduced, up, at>> /\ pc' = [pc EXCEPT ![w] = "reducing"]
    BY <1>7 DEF PopReduce, Goes, life, calls, ended
  <2>3. Reducing(c)
    BY <2>1 DEF Reduced
  <2>4. \A v \in Workers : pc'[v] = "reducing" => Reducing(task'[v][1])
    BY <2>1, <2>2, <2>3 DEF Reduced
  <2>5. \A d \in Calls : reduce_queue'[d] # <<>> => Reducing(d)
    BY <2>1, <2>3 DEF Reduced
  <2> QED BY <2>2, <2>4, <2>5 DEF Reduced, Reducing
<1>8. ASSUME NEW w \in Workers, Map(w) \/ Get(w) \/ Add(w) \/ SetShuffled(w) PROVE Reduced'
  BY <1>0, <1>8, ReducedFrame DEF Map, Get, Add, AddTo, SetShuffled, Goes, life, calls, queues, ended
<1>9. ASSUME NEW w \in Workers, Reduce(w) PROVE Reduced'
  <2>1. /\ up /\ Reducing(task[w][1]) /\ task[w] \in Calls \X Keys
        /\ UNCHANGED <<up, at, reduce_queue>>
        /\ reduced' = reduced \union {task[w]}
        /\ pc' = [pc EXCEPT ![w] = "loop"] /\ task' = [task EXCEPT ![w] = NoTask]
    BY <1>9 DEF Reduce, Goes, Reduced, Lifecycle, Hands, life, calls, queues
  <2>2. \A v \in Workers : pc'[v] = "reducing" => pc[v] = "reducing" /\ task'[v] = task[v]
    BY <2>1
  <2>3. \A c \in Calls, k \in Keys : <<c, k>> \in reduced' => <<c, k>> \in reduced \/ c = task[w][1]
    BY <2>1
  <2> QED BY <2>1, <2>2, <2>3 DEF Reduced, Reducing
<1>10. CASE UNCHANGED vars
  BY <1>0, <1>10, ReducedFrame DEF vars, life, threads, calls, queues, ended
<1> QED
  BY <1>1, <1>2, <1>3, <1>4, <1>5, <1>6, <1>7, <1>8, <1>9, <1>10
  DEF Next, InCall, Worker, PopAny, Terminated

\* Nothing is used that was not supplied.
LEMMA SuppliedStep == Types /\ Supplied /\ [Next]_vars => Supplied'
<1> SUFFICES ASSUME Types, Supplied, [Next]_vars PROVE Supplied'
  OBVIOUS
<1> USE DEF Types, TypeOK, Supplied
<1>1. ASSUME NEW c \in Calls, Begin(c) \/ InCall(c) PROVE Supplied'
  BY <1>1 DEF Begin, InCall, GetInputs, PushMap, PushShuffle, Await, StartReduce, PushReduce,
              Collect, ended
<1>2. ASSUME NEW x \in Calls \union Inputs, Supply(x) PROVE Supplied'
  BY <1>2 DEF Supply, calls, ended
<1>3. CASE InitBegin \/ InitEnd \/ DisposeBegin \/ DisposeEnd \/ Destroy
  BY <1>3 DEF InitBegin, InitEnd, DisposeBegin, DisposeEnd, Destroy, calls, ended
<1>4. ASSUME NEW w \in Workers, Spawn(w) \/ TestDying(w) \/ PopFail(w) \/ PopAny(w) PROVE Supplied'
  BY <1>4 DEF Spawn, TestDying, PopFail, PopAny, PopMap, PopShuffle, PopReduce, calls, ended
<1>5. ASSUME NEW w \in Workers, Map(w) PROVE Supplied'
  BY <1>5 DEF Map, calls
<1>6. ASSUME NEW w \in Workers, Get(w) \/ Add(w) \/ SetShuffled(w) \/ Reduce(w) PROVE Supplied'
  BY <1>6 DEF Get, Add, AddTo, SetShuffled, Reduce, calls, ended
<1>7. CASE UNCHANGED vars
  BY <1>7 DEF vars, calls, ended
<1> QED BY <1>1, <1>2, <1>3, <1>4, <1>5, <1>6, <1>7 DEF Next, Worker, Terminated

\* What the refinement rests on, beside the inductive invariant.
LEMMA ContractKept == Spec => []Contract
<1>1. Init => Contract
  BY DEF Init, Empty, Contract, Lifecycle, Reduced, Supplied, Resting, Reducing
<1>2. IInv /\ IInv' /\ Contract /\ [Next]_vars => Contract'
  BY LifecycleStep, ReducedStep, SuppliedStep DEF Contract, IInv
<1> QED BY <1>1, <1>2, Invariance, PTL DEF Spec

\* Setting the promise of a vector, or of an input, makes one call ready at
\* most.
LEMMA SupplyStep ==
    ASSUME NEW x \in Calls \union Inputs, Supply(x)
    PROVE  UNCHANGED Abstract!vars \/ \E c \in Calls : Abstract!Supply(c)
<1> DEFINE R == {c \in Calls : {c} \union Vec(c) \subseteq supplied}
           R2 == {c \in Calls : {c} \union Vec(c) \subseteq supplied'}
<1>1. \A c \in Calls : \A i : i \in Vec(c) <=> i \in Inputs /\ CallOf[i] = c
  BY VectorFacts DEF Vec
<1>2. PICK d \in Calls : \A c \in Calls : x \in {c} \union Vec(c) <=> c = d
  <2>1. CASE x \in Calls
    BY <1>1, <2>1, MapReduceAssumption
  <2>2. CASE x \in Inputs
    <3>1. CallOf[x] \in Calls /\ x \notin Calls
      BY <2>2, MapReduceAssumption
    <3>2. \A c \in Calls : x \in {c} \union Vec(c) <=> c = CallOf[x]
      BY <1>1, <2>2, <3>1
    <3> QED BY <3>1, <3>2
  <2> QED BY <2>1, <2>2
<1>3. R2 = R \/ (d \notin R /\ R2 = R \union {d})
  BY <1>2 DEF Supply
<1>4. UNCHANGED <<up, at, owner>>
  BY DEF Supply, life, calls
<1>5. R2 = {c \in Calls : {c} \union Vec(c) \subseteq supplied}'
  BY DEF Vec
<1> QED BY <1>3, <1>4, <1>5 DEF Abstract!vars, Abstract!Supply

\* Every step is a step of a pattern, or none, in a program that drains.
LEMMA RefinementStep ==
    ASSUME Drains
    PROVE  IInv /\ Contract /\ [Next]_vars => [Abstract!Next]_Abstract!vars
<1> SUFFICES ASSUME IInv, Contract, [Next]_vars PROVE [Abstract!Next]_Abstract!vars
  OBVIOUS
<1> USE DEF Abstract!vars, Abstract!Next, Vec
<1>1. ASSUME NEW c \in Calls, Begin(c) PROVE Abstract!Accept(c)
  BY <1>1 DEF Begin, life, Abstract!Accept, IInv, Types, TypeOK
<1>2. ASSUME NEW c \in Calls, GetInputs(c) \/ PushMap(c) \/ PushShuffle(c) \/ Await(c) \/ PushReduce(c)
      PROVE  UNCHANGED Abstract!vars
  <2>1. UNCHANGED <<up, owner, supplied>>
    BY <1>2 DEF GetInputs, PushMap, PushShuffle, Await, StartReduce, PushReduce, life
  <2>2. \A d \in Calls : (at'[d] # "idle" <=> at[d] # "idle") /\ (at'[d] = "done" <=> at[d] = "done")
    BY <1>2 DEF GetInputs, PushMap, PushShuffle, Await, StartReduce, PushReduce, IInv, Types, TypeOK
  <2> QED BY <2>1, <2>2
<1>3. ASSUME NEW c \in Calls, Collect(c) PROVE Abstract!Answer(c)
  <2>1. /\ at[c] = "collect" /\ at' = [at EXCEPT ![c] = "done"]
        /\ UNCHANGED <<up, owner, supplied>>
    BY <1>3 DEF Collect, life
  <2>2. up
    <3>1. 0 \in Keys
      BY MapReduceAssumption DEF Keys
    <3>2. <<c, 0>> \in reduced
      BY <1>3, <3>1 DEF Collect
    <3> QED BY <2>1, <3>1, <3>2 DEF Contract, Reduced
  <2>3. {c} \union Vec(c) \subseteq supplied
    BY <2>1 DEF Contract, Supplied, IInv, Places, InTurn
  <2> DEFINE R == {d \in Calls : {d} \union Vec(d) \subseteq supplied}
  <2>4. UNCHANGED R /\ \E others \in SUBSET Calls : R' = R \union others
    BY <2>1
  <2>5. {d \in Calls : at'[d] = "done"} = {d \in Calls : at[d] = "done"} \union {c}
    BY <2>1 DEF IInv, Types, TypeOK
  <2>6. {d \in Calls : at'[d] # "idle"} = {d \in Calls : at[d] # "idle"}
    BY <2>1 DEF IInv, Types, TypeOK
  <2> QED BY <2>1, <2>2, <2>3, <2>4, <2>5, <2>6 DEF Abstract!Answer
<1>4. ASSUME NEW x \in Calls \union Inputs, Supply(x)
      PROVE  UNCHANGED Abstract!vars \/ \E c \in Calls : Abstract!Supply(c)
  BY <1>4, SupplyStep
<1>5. ASSUME InitBegin PROVE Abstract!Start
  BY <1>5 DEF InitBegin, calls, Abstract!Start, Contract, Lifecycle
<1>6. CASE InitEnd \/ DisposeBegin
  BY <1>6 DEF InitEnd, DisposeBegin, calls
<1>7. ASSUME DisposeEnd PROVE Abstract!Stop
  BY <1>7 DEF DisposeEnd, calls, Abstract!Stop, Contract, Lifecycle
<1>8. ASSUME Destroy PROVE Abstract!Destroy
  BY <1>8 DEF Destroy, Resting, calls, Abstract!Destroy, Contract, Lifecycle
<1>9. ASSUME NEW w \in Workers, Spawn(w) \/ Worker(w) PROVE UNCHANGED Abstract!vars
  <2>1. UNCHANGED <<life, calls, supplied>>
    BY <1>9 DEF Spawn, Worker, PopAny, TestDying, PopFail, PopMap, PopShuffle, PopReduce, Map,
                Get, Add, AddTo, SetShuffled, Reduce, life
  <2> QED BY <2>1 DEF life, calls
<1>10. CASE UNCHANGED vars
  BY <1>10 DEF vars, life, calls
<1> QED
  BY <1>1, <1>2, <1>3, <1>4, <1>5, <1>6, <1>7, <1>8, <1>9, <1>10 DEF Next, InCall, Terminated

(***************************************************************************)
(* In a program that disposes only when no call is under way, the          *)
(* horizontal MapReduce implements the safety part of a pattern: it        *)
(* answers only the calls it accepted, once, with all their inputs there   *)
(* and while it is up, and the destructor breaks no promise.               *)
(***************************************************************************)
THEOREM PatternRefined ==
    ASSUME Drains
    PROVE  Spec => Abstract!SafeSpec
<1>1. Init => Abstract!Init
  BY DEF Init, Abstract!Init
<1> QED BY <1>1, Invariance, ContractKept, RefinementStep, PTL DEF Spec, Abstract!SafeSpec

=============================================================================
