----------------------------- MODULE TaskProofs -----------------------------
(***************************************************************************)
(* Proofs about the thread pool and about the sequential code that the     *)
(* tasks and the program around them run.                                  *)
(*                                                                         *)
(* TaskPool, for any callers, threads and jobs: its types, the safety      *)
(* invariants its runs check, and the safety part of the refinement of     *)
(* Pattern.                                                                *)
(*                                                                         *)
(* NestedPools, for chains of any length on any copies of any threads: the *)
(* copies do not wait for each other when the jobs are spread or few.      *)
(*                                                                         *)
(* ExtrapWriter, for any names, sizes and additions: the lists of a line   *)
(* and of the sizes it is paired with grow in step.                        *)
(*                                                                         *)
(* Bitmap, for files of any length: every byte lies in one slice, and its  *)
(* count is in one result of each round of the reduction.                  *)
(*                                                                         *)
(* Quicksort, for arrays of any length: the scans stay in the array, a     *)
(* partition splits its range into two smaller ones in order, the swaps    *)
(* keep the elements, and the array is sorted when the recursion has ended.*)
(***************************************************************************)
EXTENDS MCTaskPool, MCAlgorithms, MCNestedPools, StreamLemmas

-----------------------------------------------------------------------------
(* The pool.                                                               *)

\* A thread holds a job exactly while it is inside executor.Compute.
HoldsWhenBusy == \A w \in Workers : pc[w] \in {"enter", "run"} <=> job[w] # NoJob

\* How the flags, the executor and the owner's position go together.
Lifecycle ==
    /\ owner = "spawn" => up /\ ~initialized /\ ~dying
    /\ owner = "join" => up /\ initialized /\ dying
    /\ owner = "idle" => up = initialized /\ (initialized => ~dying)
    /\ owner = "gone" => ~up /\ ~initialized
    /\ ~up => \A w \in Workers : pc[w] = "off"

\* A caller's jobs are in its own stream, each behind the one it depends on.
StreamsOrdered ==
    /\ \A c \in Callers : \A m \in 1 .. Len(inner_queue[c]) : CallerOf[inner_queue[c][m]] = c
    /\ \A c \in Callers : \A m, n \in 1 .. Len(inner_queue[c]) :
        Dep[inner_queue[c][m]] = inner_queue[c][n] => n < m

\* A job that left the queue left none behind that it depends on.
DepsFirst ==
    \A j \in submitted : Dep[j] # NoJob =>
        Dep[j] \in submitted /\ (Queued(Dep[j]) => Queued(j))

\* The inductive invariant, in the three layers it is proved in.
Types == TypeOK /\ HoldsWhenBusy

Life == Lifecycle /\ QuietWhenDown

Places == OnePlace /\ StreamsOrdered /\ DepsFirst

IInv == Types /\ Life /\ Places

-----------------------------------------------------------------------------
\* The executor sends a job to a copy it has, and its counter stays in range.
LEMMA ExecutorType ==
    ASSUME NEW n \in 0 .. CounterModulus - 1
    PROVE  E!ModIndex(n) \in E!Copies /\ E!NextCounter(n) \in 0 .. CounterModulus - 1
<1>1. Cardinality(Workers) \in Nat \ {0}
  BY PoolAssumption, FS_EmptySet, FS_CardinalityType
<1>2. CounterModulus \in Nat \ {0}
  BY PoolAssumption
<1>3. E!ModIndex(n) \in E!Copies
  BY <1>1, <1>2 DEF E!ModIndex, E!Copies
<1>4. E!NextCounter(n) \in 0 .. CounterModulus - 1
  BY <1>2 DEF E!NextCounter
<1> QED BY <1>3, <1>4

\* The initial states satisfy the two first layers.
LEMMA InitTypesLife == Init => Types /\ Life
<1> SUFFICES ASSUME Init PROVE Types /\ Life
  OBVIOUS
<1> USE DEF Init
<1>1. inner_queue \in [Callers -> Seq(Jobs)]
  BY EmptySeq
<1>2. counter \in 0 .. CounterModulus - 1
  BY PoolAssumption
<1>3. TypeOK
  BY <1>1, <1>2 DEF TypeOK
<1>4. HoldsWhenBusy
  BY DEF HoldsWhenBusy
<1>5. Life
  BY DEF Life, Lifecycle, QuietWhenDown, Alive
<1> QED BY <1>3, <1>4, <1>5 DEF Types

\* Every step keeps the types.
LEMMA TypesStep == Types /\ [Next]_vars => Types'
<1> SUFFICES ASSUME Types, [Next]_vars PROVE Types'
  OBVIOUS
<1> USE DEF Types, TypeOK, HoldsWhenBusy
<1>1. ASSUME NEW j \in Jobs, Submit(j) PROVE Types'
  BY <1>1, ChainAssumption DEF Submit, Push, life, threads, exec, values
<1>2. ASSUME NEW j \in Jobs, Supply(j) PROVE Types'
  BY <1>2 DEF Supply, life, threads, queue, exec
<1>3. ASSUME NEW j \in Jobs, InnerAnswer(j) PROVE Types'
  BY <1>3 DEF InnerAnswer, life, threads, queue
<1>4. CASE InitBegin
  BY <1>4 DEF InitBegin, threads, queue, exec, values
<1>5. CASE InitEnd
  BY <1>5 DEF InitEnd, threads, queue, exec, values
<1>6. CASE DisposeBegin
  BY <1>6 DEF DisposeBegin, threads, queue, exec, values
<1>7. CASE DisposeEnd
  BY <1>7 DEF DisposeEnd, FinishDispose, exec, values
<1>8. CASE Destroy
  BY <1>8 DEF Destroy, Drop, threads, values
<1>9. ASSUME NEW w \in Workers, Spawn(w) PROVE Types'
  BY <1>9 DEF Spawn, life, queue, exec, values
<1>10. ASSUME NEW w \in Workers, TestDying(w) PROVE Types'
  BY <1>10 DEF TestDying, life, queue, exec, values
<1>11. ASSUME NEW w \in Workers, Pop(w) PROVE Types'
  BY <1>11, PoolAssumption DEF Pop, life, exec, values
<1>12. ASSUME NEW w \in Workers, PopFail(w) PROVE Types'
  BY <1>12 DEF PopFail, life, queue, exec, values
<1>13. ASSUME NEW w \in Workers, Enter(w) PROVE Types'
  BY <1>13, ExecutorType DEF Enter, EnterCopy, life, queue, values
<1>14. ASSUME NEW w \in Workers, Execute(w) PROVE Types'
  BY <1>14 DEF Execute, SetValue, life, queue, exec
<1>15. CASE UNCHANGED vars
  BY <1>15 DEF vars, life, threads, queue, exec, values
<1> QED
  BY <1>1, <1>2, <1>3, <1>4, <1>5, <1>6, <1>7, <1>8,
     <1>9, <1>10, <1>11, <1>12, <1>13, <1>14, <1>15
  DEF Next, Worker, Terminated

\* Every reachable state is well typed.
THEOREM TypeCorrect == Spec => []TypeOK
<1>1. Init => Types
  BY InitTypesLife
<1>2. Types => TypeOK
  BY DEF Types
<1> QED BY <1>1, <1>2, TypesStep, PTL DEF Spec

\* Every step keeps the flags and the threads in step with the owner.
LEMMA LifeStep == Types /\ Life /\ [Next]_vars => Life'
<1> SUFFICES ASSUME Types, Life, [Next]_vars PROVE Life'
  OBVIOUS
<1> USE DEF Types, TypeOK, Life, Lifecycle, QuietWhenDown, Alive
<1>1. ASSUME NEW j \in Jobs, Submit(j) PROVE Life'
  BY <1>1 DEF Submit, Push, life, threads, exec, values
<1>2. ASSUME NEW j \in Jobs, Supply(j) PROVE Life'
  BY <1>2 DEF Supply, life, threads, queue, exec
<1>3. ASSUME NEW j \in Jobs, InnerAnswer(j) PROVE Life'
  BY <1>3 DEF InnerAnswer, life, threads, queue
<1>4. CASE InitBegin
  BY <1>4 DEF InitBegin, threads, queue, exec, values
<1>5. CASE InitEnd
  BY <1>5 DEF InitEnd, threads, queue, exec, values
<1>6. CASE DisposeBegin
  BY <1>6 DEF DisposeBegin, threads, queue, exec, values
<1>7. CASE DisposeEnd
  BY <1>7 DEF DisposeEnd, FinishDispose, exec, values
<1>8. CASE Destroy
  BY <1>8 DEF Destroy, Drop, threads, values
<1>9. ASSUME NEW w \in Workers, Spawn(w) PROVE Life'
  BY <1>9 DEF Spawn, life, queue, exec, values
<1>10. ASSUME NEW w \in Workers, TestDying(w) PROVE Life'
  BY <1>10 DEF TestDying, life, queue, exec, values
<1>11. ASSUME NEW w \in Workers, Pop(w) PROVE Life'
  BY <1>11 DEF Pop, life, exec, values
<1>12. ASSUME NEW w \in Workers, PopFail(w) PROVE Life'
  BY <1>12 DEF PopFail, life, queue, exec, values
<1>13. ASSUME NEW w \in Workers, Enter(w) PROVE Life'
  BY <1>13 DEF Enter, EnterCopy, life, queue, values
<1>14. ASSUME NEW w \in Workers, Execute(w) PROVE Life'
  BY <1>14 DEF Execute, SetValue, life, queue, exec
<1>15. CASE UNCHANGED vars
  BY <1>15 DEF vars, life, threads, queue, exec, values
<1> QED
  BY <1>1, <1>2, <1>3, <1>4, <1>5, <1>6, <1>7, <1>8,
     <1>9, <1>10, <1>11, <1>12, <1>13, <1>14, <1>15
  DEF Next, Worker, Terminated

\* No thread runs over an executor that is down.
THEOREM QuietCorrect == Spec => []QuietWhenDown
<1>1. Init => Types /\ Life
  BY InitTypesLife
<1>2. Life => QuietWhenDown
  BY DEF Life
<1> QED BY <1>1, <1>2, TypesStep, LifeStep, PTL DEF Spec

-----------------------------------------------------------------------------
\* What a push adds to the queue.
LEMMA PushQueued ==
    ASSUME TypeOK, NEW j \in Jobs, Submit(j)
    PROVE  \A k : Queued(k)' <=> Queued(k) \/ k = j
<1> DEFINE c0 == CallerOf[j]
           q  == inner_queue[c0]
<1>1. /\ c0 \in Callers
      /\ inner_queue \in [Callers -> Seq(Jobs)]
      /\ q \in Seq(Jobs)
      /\ inner_queue' = [inner_queue EXCEPT ![c0] = Append(q, j)]
  BY ChainAssumption DEF TypeOK, Submit, Push
<1>2. /\ Len(q) \in Nat
      /\ Len(Append(q, j)) = Len(q) + 1
      /\ \A i \in 1 .. Len(q) : Append(q, j)[i] = q[i]
      /\ Append(q, j)[Len(q) + 1] = j
  BY <1>1, AppendProperties, LenProperties
<1>3. \A c \in Callers : inner_queue'[c] = IF c = c0 THEN Append(q, j) ELSE inner_queue[c]
  BY <1>1
<1> HIDE DEF c0
<1>4. ASSUME NEW k, Queued(k)' PROVE Queued(k) \/ k = j
  BY <1>1, <1>2, <1>3, <1>4 DEF Queued
<1>5. ASSUME NEW k, Queued(k) PROVE Queued(k)'
  <2>0. PICK c \in Callers : \E i \in 1 .. Len(inner_queue[c]) : inner_queue[c][i] = k
    BY <1>5 DEF Queued
  <2>1. PICK i \in 1 .. Len(inner_queue[c]) : inner_queue[c][i] = k
    BY <2>0
  <2>2. i \in 1 .. Len(inner_queue'[c]) /\ inner_queue'[c][i] = k
    BY <1>1, <1>2, <1>3, <2>1
  <2> QED BY <2>2 DEF Queued
<1>6. Queued(j)'
  <2>1. Len(q) + 1 \in 1 .. Len(inner_queue'[c0]) /\ inner_queue'[c0][Len(q) + 1] = j
    BY <1>1, <1>2, <1>3
  <2> QED BY <1>1, <2>1 DEF Queued
<1> QED BY <1>4, <1>5, <1>6

\* What a pop takes from the queue, of which QueuedOnce holds.
LEMMA PopQueued ==
    ASSUME TypeOK, QueuedOnce, NEW c0 \in Callers, inner_queue[c0] # <<>>,
           inner_queue' = [inner_queue EXCEPT ![c0] = Tail(@)]
    PROVE  /\ Queued(Head(inner_queue[c0]))
           /\ \A k : Queued(k)' <=> Queued(k) /\ k # Head(inner_queue[c0])
<1> DEFINE q == inner_queue[c0]
<1>1. /\ inner_queue \in [Callers -> Seq(Jobs)]
      /\ q \in Seq(Jobs)
      /\ inner_queue' = [inner_queue EXCEPT ![c0] = Tail(q)]
  BY DEF TypeOK
<1>2. /\ Len(q) \in Nat \ {0}
      /\ Len(Tail(q)) = Len(q) - 1
      /\ \A i \in 1 .. Len(q) - 1 : Tail(q)[i] = q[i + 1]
      /\ Head(q) = q[1]
  BY <1>1, HeadTailProperties, EmptySeq
<1> HIDE DEF q
<1>3. \A c \in Callers : inner_queue'[c] = IF c = c0 THEN Tail(q) ELSE inner_queue[c]
  BY <1>1
<1>4. ASSUME NEW k, Queued(k)' PROVE Queued(k) /\ k # q[1]
  <2>1. PICK c \in Callers : \E i \in 1 .. Len(inner_queue'[c]) : inner_queue'[c][i] = k
    BY <1>4 DEF Queued
  <2>2. PICK i \in 1 .. Len(inner_queue'[c]) : inner_queue'[c][i] = k
    BY <2>1
  <2>3. CASE c = c0
    <3>1. i \in 1 .. Len(Tail(q)) /\ Tail(q)[i] = k
      BY <1>3, <2>2, <2>3
    <3>2. i \in 1 .. Len(q) - 1 /\ i + 1 \in 1 .. Len(q) /\ q[i + 1] = k
      BY <1>2, <3>1
    <3>3. \E n \in 1 .. Len(inner_queue[c0]) : inner_queue[c0][n] = k
      BY <3>2 DEF q
    <3>4. 1 \in 1 .. Len(q) /\ i + 1 # 1
      BY <1>2, <3>2
    <3>5. k # q[1]
      BY <3>2, <3>4 DEF QueuedOnce, q
    <3> QED BY <3>3, <3>5 DEF Queued
  <2>4. CASE c # c0
    BY <1>2, <1>3, <2>2, <2>4 DEF Queued, QueuedOnce, q
  <2> QED BY <2>3, <2>4
<1>5. ASSUME NEW k, Queued(k), k # q[1] PROVE Queued(k)'
  <2>1. PICK c \in Callers : \E i \in 1 .. Len(inner_queue[c]) : inner_queue[c][i] = k
    BY <1>5 DEF Queued
  <2>2. PICK i \in 1 .. Len(inner_queue[c]) : inner_queue[c][i] = k
    BY <2>1
  <2>3. CASE c = c0
    <3>1. i \in 1 .. Len(q) /\ q[i] = k /\ i # 1
      BY <1>5, <2>2, <2>3 DEF q
    <3>2. i - 1 \in 1 .. Len(q) - 1 /\ Tail(q)[i - 1] = k
      BY <1>2, <3>1
    <3>3. i - 1 \in 1 .. Len(inner_queue'[c0]) /\ inner_queue'[c0][i - 1] = k
      BY <1>2, <1>3, <3>2
    <3> QED BY <3>3 DEF Queued
  <2>4. CASE c # c0
    BY <1>3, <2>2, <2>4 DEF Queued
  <2> QED BY <2>3, <2>4
<1>6. Queued(q[1])
  BY <1>1, <1>2 DEF Queued, q
<1> QED BY <1>2, <1>4, <1>5, <1>6 DEF q

\* Steps that move no job.
LEMMA PlacesFrame ==
    ASSUME Places, UNCHANGED <<inner_queue, submitted, job, inner, answered, broken>>
    PROVE  Places'
<1>1. \A k : Queued(k)' <=> Queued(k)
  BY DEF Queued
<1>2. \A k : Held(k)' <=> Held(k)
  BY DEF Held
<1>3. (\A j \in Jobs : OneHome(j))'
  BY <1>1, <1>2 DEF Places, OnePlace, OneHome
<1>4. HeldOnce'
  BY DEF Places, OnePlace, HeldOnce
<1>5. QueuedOnce'
  BY DEF Places, OnePlace, QueuedOnce
<1>6. StreamsOrdered'
  BY DEF Places, StreamsOrdered
<1>7. DepsFirst'
  BY <1>1 DEF Places, DepsFirst
<1> QED BY <1>3, <1>4, <1>5, <1>6, <1>7 DEF Places, OnePlace

\* A submitted job joins the end of its caller's stream.
LEMMA PlacesSubmit ==
    ASSUME Types, Places, NEW j \in Jobs, Submit(j)
    PROVE  Places'
<1> DEFINE c0 == CallerOf[j]
           q  == inner_queue[c0]
<1>1. TypeOK /\ j \notin submitted
  BY DEF Types, Submit, Push
<1>2. \A k : Queued(k)' <=> Queued(k) \/ k = j
  BY <1>1, PushQueued
<1>3. /\ submitted' = submitted \union {j}
      /\ Dep[j] # NoJob => Dep[j] \in submitted
      /\ owner # "gone" /\ broken = {}
      /\ UNCHANGED <<job, inner, answered, owner>>
  BY DEF Submit, Push, threads, exec, values, life, broken
<1>4. \A k : Held(k)' <=> Held(k)
  BY <1>3 DEF Held
<1>5. broken' = {}
  BY <1>3 DEF broken
<1>6. (\A k \in Jobs : OneHome(k))'
  BY <1>1, <1>2, <1>3, <1>4, <1>5 DEF Places, OnePlace, OneHome
<1>7. HeldOnce'
  BY <1>3 DEF Places, OnePlace, HeldOnce
<1>8. \A k \in Jobs : Queued(k) => k \in submitted
  BY DEF Places, OnePlace, OneHome
<1>9. /\ c0 \in Callers /\ q \in Seq(Jobs)
      /\ \A c \in Callers : inner_queue'[c] = IF c = c0 THEN Append(q, j) ELSE inner_queue[c]
  BY <1>1, ChainAssumption DEF TypeOK, Submit, Push
<1>10. /\ Len(q) \in Nat
       /\ Len(Append(q, j)) = Len(q) + 1
       /\ \A i \in 1 .. Len(q) : Append(q, j)[i] = q[i]
       /\ Append(q, j)[Len(q) + 1] = j
  BY <1>9, AppendProperties, LenProperties
\* The new job is at a new place and the others where they were.
<1>11. \A c \in Callers : \A m \in 1 .. Len(inner_queue'[c]) :
         \/ m \in 1 .. Len(inner_queue[c]) /\ inner_queue'[c][m] = inner_queue[c][m]
         \/ c = c0 /\ m = Len(q) + 1 /\ inner_queue'[c][m] = j
  <2> HIDE DEF c0
  <2> TAKE c \in Callers
  <2>1. CASE c = c0
    <3> SUFFICES ASSUME NEW m \in 1 .. Len(Append(q, j))
                 PROVE  \/ m \in 1 .. Len(q) /\ Append(q, j)[m] = q[m]
                        \/ m = Len(q) + 1 /\ Append(q, j)[m] = j
      BY <1>9, <2>1
    <3> QED BY <1>10
  <2>2. CASE c # c0
    BY <1>9, <2>2
  <2> QED BY <2>1, <2>2
<1>12. \A c \in Callers : \A m \in 1 .. Len(inner_queue[c]) :
         inner_queue[c][m] \in submitted /\ inner_queue[c][m] \in Jobs
  <2> TAKE c \in Callers
  <2> TAKE m \in 1 .. Len(inner_queue[c])
  <2>1. inner_queue[c][m] \in Jobs
    BY <1>1, ElementOfSeq DEF TypeOK
  <2>2. Queued(inner_queue[c][m])
    BY DEF Queued
  <2> QED BY <1>8, <2>1, <2>2
<1> HIDE DEF c0, q
<1>13. QueuedOnce'
  <2> SUFFICES ASSUME NEW c \in Callers, NEW d \in Callers,
                      NEW m \in 1 .. Len(inner_queue'[c]), NEW n \in 1 .. Len(inner_queue'[d]),
                      inner_queue'[c][m] = inner_queue'[d][n]
               PROVE  c = d /\ m = n
    BY DEF QueuedOnce
  <2>1. CASE inner_queue'[c][m] = j
    <3>1. /\ c = c0 /\ m = Len(q) + 1
          /\ d = c0 /\ n = Len(q) + 1
      BY <1>1, <1>11, <1>12, <2>1
    <3> QED BY <3>1
  <2>2. CASE inner_queue'[c][m] # j
    <3>1. /\ m \in 1 .. Len(inner_queue[c]) /\ inner_queue'[c][m] = inner_queue[c][m]
          /\ n \in 1 .. Len(inner_queue[d]) /\ inner_queue'[d][n] = inner_queue[d][n]
      BY <1>11, <2>2
    <3>2. inner_queue[c][m] = inner_queue[d][n]
      BY <3>1
    <3> QED BY <3>1, <3>2 DEF Places, OnePlace, QueuedOnce
  <2> QED BY <2>1, <2>2
<1>14. StreamsOrdered'
  <2>1. (\A c \in Callers : \A m \in 1 .. Len(inner_queue[c]) : CallerOf[inner_queue[c][m]] = c)'
    BY <1>11 DEF Places, StreamsOrdered, c0
  <2>2. ASSUME NEW c \in Callers,
               NEW m \in 1 .. Len(inner_queue'[c]), NEW n \in 1 .. Len(inner_queue'[c]),
               Dep[inner_queue'[c][m]] = inner_queue'[c][n]
        PROVE  n < m
    <3>1. CASE inner_queue'[c][n] = inner_queue[c][n] /\ n \in 1 .. Len(inner_queue[c])
      BY <1>10, <1>11, <2>2, <3>1 DEF Places, StreamsOrdered, q
    <3>2. CASE c = c0 /\ n = Len(q) + 1 /\ inner_queue'[c][n] = j
      <4>1. inner_queue'[c][m] \in submitted'
        BY <1>3, <1>11, <1>12
      <4>2. Dep[inner_queue'[c][m]] # j
        BY <1>1, <1>3, <4>1, PoolAssumption DEF Places, DepsFirst
      <4> QED BY <2>2, <3>2, <4>2
    <3> QED BY <1>11, <3>1, <3>2
  <2> QED BY <2>1, <2>2 DEF StreamsOrdered
<1>15. DepsFirst'
  BY <1>1, <1>2, <1>3 DEF Places, DepsFirst
<1> QED BY <1>6, <1>7, <1>13, <1>14, <1>15 DEF Places, OnePlace

\* A job moves from the head of a stream to a thread that held none.
LEMMA PlacesPop ==
    ASSUME Types, Places, NEW w \in Workers, Pop(w)
    PROVE  Places'
<1>1. PICK c0 \in Callers :
        /\ inner_queue[c0] # <<>>
        /\ job' = [job EXCEPT ![w] = Head(inner_queue[c0])]
        /\ inner_queue' = [inner_queue EXCEPT ![c0] = Tail(@)]
  BY DEF Pop
<1> DEFINE q == inner_queue[c0]
           x == Head(q)
<1>2. /\ TypeOK /\ QueuedOnce /\ job \in [Workers -> Jobs \union {NoJob}]
      /\ job[w] = NoJob
      /\ UNCHANGED <<submitted, inner, answered, broken>>
  BY DEF Types, TypeOK, HoldsWhenBusy, Places, OnePlace, Pop, life, exec, values, broken
<1>3. /\ Queued(x)
      /\ \A k : Queued(k)' <=> Queued(k) /\ k # x
  BY <1>1, <1>2, PopQueued
<1>4. /\ q \in Seq(Jobs) /\ x \in Jobs /\ x # NoJob
      /\ Len(q) \in Nat \ {0} /\ Len(Tail(q)) = Len(q) - 1
      /\ \A i \in 1 .. Len(q) - 1 : Tail(q)[i] = q[i + 1]
      /\ x = q[1]
  BY <1>1, <1>2, HeadTailProperties, EmptySeq, PoolAssumption DEF TypeOK
<1>5. \A c \in Callers : inner_queue'[c] = IF c = c0 THEN Tail(q) ELSE inner_queue[c]
  BY <1>1, <1>2 DEF TypeOK
<1>6. ~Held(x) /\ \A v \in Workers : job'[v] = IF v = w THEN x ELSE job[v]
  BY <1>1, <1>2, <1>3, <1>4 DEF Places, OnePlace, OneHome
<1> HIDE DEF q, x
<1>7. \A k \in Jobs : Held(k)' <=> Held(k) \/ k = x
  BY <1>2, <1>4, <1>6, PoolAssumption DEF Held
<1>8. (\A k \in Jobs : OneHome(k))'
  BY <1>2, <1>3, <1>6, <1>7 DEF Places, OnePlace, OneHome
<1>9. HeldOnce'
  BY <1>2, <1>4, <1>6 DEF Places, OnePlace, HeldOnce, Held
\* What is left of the stream keeps its order, one place further on.
<1>10. \A c \in Callers : \A m \in 1 .. Len(inner_queue'[c]) :
         \/ c # c0 /\ m \in 1 .. Len(inner_queue[c]) /\ inner_queue'[c][m] = inner_queue[c][m]
         \/ c = c0 /\ m + 1 \in 1 .. Len(inner_queue[c]) /\ inner_queue'[c][m] = inner_queue[c][m + 1]
  <2> TAKE c \in Callers
  <2>1. CASE c = c0
    <3> SUFFICES ASSUME NEW m \in 1 .. Len(Tail(q))
                 PROVE  m + 1 \in 1 .. Len(q) /\ Tail(q)[m] = q[m + 1]
      BY <1>5, <2>1 DEF q
    <3> QED BY <1>4
  <2>2. CASE c # c0
    BY <1>5, <2>2
  <2> QED BY <2>1, <2>2
<1>11. QueuedOnce'
  <2> SUFFICES ASSUME NEW c \in Callers, NEW d \in Callers,
                      NEW m \in 1 .. Len(inner_queue'[c]), NEW n \in 1 .. Len(inner_queue'[d]),
                      inner_queue'[c][m] = inner_queue'[d][n]
               PROVE  c = d /\ m = n
    BY DEF QueuedOnce
  <2>1. m \in Int /\ n \in Int
    OBVIOUS
  <2> QED BY <1>2, <1>10, <2>1 DEF QueuedOnce
<1>12. StreamsOrdered'
  <2>1. (\A c \in Callers : \A m \in 1 .. Len(inner_queue[c]) : CallerOf[inner_queue[c][m]] = c)'
    BY <1>10 DEF Places, StreamsOrdered
  <2>2. ASSUME NEW c \in Callers,
               NEW m \in 1 .. Len(inner_queue'[c]), NEW n \in 1 .. Len(inner_queue'[c]),
               Dep[inner_queue'[c][m]] = inner_queue'[c][n]
        PROVE  n < m
    <3>1. m \in Int /\ n \in Int
      OBVIOUS
    <3>2. CASE c = c0
      <4>1. /\ m + 1 \in 1 .. Len(inner_queue[c]) /\ inner_queue'[c][m] = inner_queue[c][m + 1]
            /\ n + 1 \in 1 .. Len(inner_queue[c]) /\ inner_queue'[c][n] = inner_queue[c][n + 1]
        BY <1>10, <3>2
      <4>2. n + 1 < m + 1
        BY <2>2, <4>1 DEF Places, StreamsOrdered
      <4> QED BY <3>1, <4>2
    <3>3. CASE c # c0
      <4>1. /\ m \in 1 .. Len(inner_queue[c]) /\ inner_queue'[c][m] = inner_queue[c][m]
            /\ n \in 1 .. Len(inner_queue[c]) /\ inner_queue'[c][n] = inner_queue[c][n]
        BY <1>10, <3>3
      <4> QED BY <2>2, <4>1 DEF Places, StreamsOrdered
    <3> QED BY <3>2, <3>3
  <2> QED BY <2>1, <2>2 DEF StreamsOrdered
\* The job at the head does not depend on one that is left in its stream.
<1>13. DepsFirst'
  <2> SUFFICES ASSUME NEW j \in submitted, Dep[j] # NoJob, Queued(Dep[j])'
               PROVE  Queued(j)'
    BY <1>2 DEF Places, DepsFirst
  <2>1. Queued(j) /\ Queued(Dep[j])
    BY <1>3 DEF Places, DepsFirst
  <2>2. j # x
    <3> SUFFICES ASSUME j = x PROVE FALSE
      OBVIOUS
    <3>1. PICK c \in Callers : \E n \in 1 .. Len(inner_queue[c]) : inner_queue[c][n] = Dep[x]
      BY <2>1 DEF Queued
    <3>2. CallerOf[x] = c0
      BY <1>4 DEF Places, StreamsOrdered, q
    <3>3. c = c0
      BY <1>4, <3>1, <3>2, ChainAssumption DEF Places, StreamsOrdered
    <3> QED BY <1>4, <3>1, <3>3 DEF Places, StreamsOrdered, q
  <2> QED BY <1>3, <2>1, <2>2
<1> QED BY <1>8, <1>9, <1>11, <1>12, <1>13 DEF Places, OnePlace

\* A thread's job goes on to an asynchronous copy, or is answered.
LEMMA PlacesLeave ==
    ASSUME Types, Places, NEW w \in Workers, pc[w] \in {"enter", "run"},
           job' = [job EXCEPT ![w] = NoJob],
           UNCHANGED <<owner, inner_queue, submitted>>,
           \/ inner' = inner \union {job[w]} /\ UNCHANGED answered
           \/ answered' = answered \union {job[w]} /\ UNCHANGED inner
    PROVE  Places'
<1> DEFINE x == job[w]
<1>1. /\ job \in [Workers -> Jobs \union {NoJob}]
      /\ x \in Jobs /\ x # NoJob
  BY DEF Types, TypeOK, HoldsWhenBusy
<1>2. Held(x) /\ \A v \in Workers : job'[v] = IF v = w THEN NoJob ELSE job[v]
  BY <1>1 DEF Held
<1>3. /\ \A k : Queued(k)' <=> Queued(k)
      /\ x \in submitted /\ owner # "gone"
  BY <1>1, <1>2 DEF Places, OnePlace, OneHome, Queued, broken
<1>4. broken = {} /\ broken' = {}
  BY <1>3 DEF broken
<1> HIDE DEF x
<1>5. \A k \in Jobs : Held(k)' <=> Held(k) /\ k # x
  BY <1>1, <1>2, PoolAssumption DEF Places, OnePlace, HeldOnce, Held, x
<1>6. (\A k \in Jobs : OneHome(k))'
  BY <1>2, <1>3, <1>4, <1>5 DEF Places, OnePlace, OneHome, x
<1>7. HeldOnce'
  BY <1>2 DEF Places, OnePlace, HeldOnce
<1>8. QueuedOnce' /\ StreamsOrdered'
  BY DEF Places, OnePlace, QueuedOnce, StreamsOrdered
<1>9. DepsFirst'
  BY <1>3 DEF Places, DepsFirst
<1> QED BY <1>6, <1>7, <1>8, <1>9 DEF Places, OnePlace

\* An asynchronous copy answers a job it holds.
LEMMA PlacesInnerAnswer ==
    ASSUME Types, Places, NEW j \in Jobs, InnerAnswer(j)
    PROVE  Places'
<1>1. /\ j \in inner /\ inner' = inner \ {j} /\ answered' = answered \union {j}
      /\ UNCHANGED <<job, owner, inner_queue, submitted>>
  BY DEF InnerAnswer, life, threads, queue
<1>2. /\ \A k : Queued(k)' <=> Queued(k)
      /\ \A k : Held(k)' <=> Held(k)
  BY <1>1 DEF Queued, Held
<1>3. j \in submitted /\ broken = {} /\ broken' = {}
  BY <1>1 DEF Places, OnePlace, OneHome, broken
<1>4. (\A k \in Jobs : OneHome(k))'
  BY <1>1, <1>2, <1>3 DEF Places, OnePlace, OneHome
<1>5. HeldOnce' /\ QueuedOnce' /\ StreamsOrdered' /\ DepsFirst'
  BY <1>1, <1>2 DEF Places, OnePlace, HeldOnce, QueuedOnce, StreamsOrdered, DepsFirst
<1> QED BY <1>4, <1>5 DEF Places, OnePlace

\* No thread holds a job when the members go; what is left is broken.
LEMMA PlacesDestroy ==
    ASSUME Types, Life, Places, Destroy
    PROVE  Places'
<1>1. /\ owner = "idle" /\ owner' = "gone" /\ ~up
      /\ inner_queue' = [c \in Callers |-> <<>>] /\ inner' = {}
      /\ UNCHANGED <<pc, job, submitted, answered>>
  BY DEF Destroy, Drop, threads, values, Life, Lifecycle
<1>2. \A w \in Workers : job[w] = NoJob
  BY <1>1 DEF Types, HoldsWhenBusy, Life, Lifecycle
<1>3. \A c \in Callers : Len(inner_queue'[c]) = 0
  BY <1>1, EmptySeq
<1>4. /\ \A k : ~Queued(k)'
      /\ \A k \in Jobs : ~Held(k)'
  BY <1>1, <1>2, <1>3, PoolAssumption DEF Queued, Held
<1>5. broken = {} /\ broken' = submitted \ answered
  BY <1>1 DEF broken
<1>6. (\A k \in Jobs : OneHome(k))'
  BY <1>1, <1>4, <1>5 DEF Places, OnePlace, OneHome
<1>7. HeldOnce' /\ QueuedOnce' /\ StreamsOrdered'
  BY <1>1, <1>3 DEF Places, OnePlace, HeldOnce, QueuedOnce, StreamsOrdered
<1>8. DepsFirst'
  BY <1>1, <1>4 DEF Places, DepsFirst
<1> QED BY <1>6, <1>7, <1>8 DEF Places, OnePlace

\* Every step keeps every job in one place.
LEMMA PlacesStep == Types /\ Life /\ Places /\ [Next]_vars => Places'
<1> SUFFICES ASSUME Types, Life, Places, [Next]_vars PROVE Places'
  OBVIOUS
<1> DEFINE Still == UNCHANGED <<inner_queue, submitted, job, inner, answered, broken>>
<1>1. ASSUME NEW j \in Jobs, Submit(j) PROVE Places'
  BY <1>1, PlacesSubmit
<1>2. ASSUME NEW j \in Jobs, Supply(j) PROVE Still
  BY <1>2 DEF Supply, life, threads, queue, exec, broken
<1>3. ASSUME NEW j \in Jobs, InnerAnswer(j) PROVE Places'
  BY <1>3, PlacesInnerAnswer
<1>4. CASE InitBegin
  BY <1>4, PlacesFrame DEF InitBegin, threads, queue, exec, values, broken
<1>5. CASE InitEnd
  BY <1>5, PlacesFrame DEF InitEnd, threads, queue, exec, values, broken
<1>6. CASE DisposeBegin
  BY <1>6, PlacesFrame DEF DisposeBegin, threads, queue, exec, values, broken
<1>7. CASE DisposeEnd
  BY <1>7, PlacesFrame DEF DisposeEnd, FinishDispose, exec, values, broken
<1>8. CASE Destroy
  BY <1>8, PlacesDestroy
<1>9. ASSUME NEW w \in Workers, Spawn(w) \/ TestDying(w) \/ PopFail(w) PROVE Still
  BY <1>9 DEF Spawn, TestDying, PopFail, life, queue, exec, values, broken
<1>10. ASSUME NEW w \in Workers, Pop(w) PROVE Places'
  BY <1>10, PlacesPop
<1>11. ASSUME NEW w \in Workers, Enter(w) PROVE Places'
  <2>1. CASE InnerKind = "async"
    BY <1>11, <2>1, PlacesLeave DEF Enter, EnterCopy, life, queue, values
  <2>2. CASE InnerKind # "async"
    BY <1>11, <2>2, PlacesFrame DEF Enter, EnterCopy, life, queue, values, broken
  <2> QED BY <2>1, <2>2
<1>12. ASSUME NEW w \in Workers, Execute(w) PROVE Places'
  BY <1>12, PlacesLeave DEF Execute, SetValue, life, queue, exec
<1>13. CASE UNCHANGED vars
  BY <1>13, PlacesFrame DEF vars, life, threads, queue, exec, values, broken
<1> QED
  BY <1>1, <1>2, <1>3, <1>4, <1>5, <1>6, <1>7, <1>8, <1>9, <1>10, <1>11, <1>12, <1>13, PlacesFrame
  DEF Next, Worker, Terminated

\* Before the first push no job has a place.
LEMMA InitPlaces == Init => Places
<1> SUFFICES ASSUME Init PROVE Places
  OBVIOUS
<1>1. \A c \in Callers : Len(inner_queue[c]) = 0
  BY EmptySeq DEF Init
<1>2. /\ \A k : ~Queued(k)
      /\ \A k \in Jobs : ~Held(k)
  BY <1>1, PoolAssumption DEF Init, Queued, Held
<1>3. \A k \in Jobs : OneHome(k)
  BY <1>2 DEF Init, OneHome, broken
<1>4. HeldOnce /\ QueuedOnce /\ StreamsOrdered /\ DepsFirst
  BY <1>1 DEF Init, HeldOnce, QueuedOnce, StreamsOrdered, DepsFirst
<1> QED BY <1>3, <1>4 DEF Places, OnePlace

\* The invariant is inductive.
THEOREM Invariance == Spec => []IInv
<1>1. Init => IInv
  BY InitTypesLife, InitPlaces DEF IInv
<1>2. IInv /\ [Next]_vars => IInv'
  BY TypesStep, LifeStep, PlacesStep DEF IInv
<1> QED BY <1>1, <1>2, PTL DEF Spec

\* Every submitted job is in exactly one place, for any number of callers,
\* threads and jobs.
THEOREM OnePlaceCorrect == Spec => []OnePlace
<1>1. IInv => OnePlace
  BY DEF IInv, Places
<1> QED BY <1>1, Invariance, PTL

\* A thread never waits for a job that is still in the queue.
THEOREM NoWaitOnQueuedCorrect == Spec => []NoWaitOnQueued
<1>1. ASSUME IInv PROVE NoWaitOnQueued
  <2> SUFFICES ASSUME NEW w \in Workers, job[w] # NoJob, Dep[job[w]] # NoJob
               PROVE  Dep[job[w]] \in submitted /\ ~Queued(Dep[job[w]])
    BY DEF NoWaitOnQueued
  <2>1. job[w] \in Jobs /\ Held(job[w])
    BY <1>1 DEF IInv, Types, TypeOK, Held
  <2>2. job[w] \in submitted /\ ~Queued(job[w])
    BY <1>1, <2>1 DEF IInv, Places, OnePlace, OneHome
  <2> QED BY <1>1, <2>2 DEF IInv, Places, DepsFirst
<1> QED BY <1>1, Invariance, PTL

-----------------------------------------------------------------------------
\* Answering a job can only make more inputs ready.
LEMMA AnswerStep ==
    ASSUME IInv, NEW j \in Jobs, up, j \in submitted \ answered, InputReady(j),
           answered' = answered \union {j},
           UNCHANGED <<up, submitted, owner, supplied>>
    PROVE  Abstract!Answer(j)
<1> DEFINE Ready == {k \in Jobs : InputReady(k)}
<1>1. Ready' \in SUBSET Jobs /\ Ready' = Ready \union Ready'
  BY DEF InputReady
<1>2. \E others \in SUBSET Jobs : Ready' = Ready \union others
  BY <1>1
<1>3. owner # "gone"
  BY DEF IInv, Life, Lifecycle
<1>4. UNCHANGED broken
  BY <1>3 DEF broken
<1> QED BY <1>2, <1>4 DEF Abstract!Answer

\* Every step of the pool is a step of a pattern, or none.
LEMMA RefinementStep == IInv /\ [Next]_vars => [Abstract!Next]_Abstract!vars
<1> SUFFICES ASSUME IInv, [Next]_vars PROVE [Abstract!Next]_Abstract!vars
  OBVIOUS
<1> USE DEF Abstract!vars, Abstract!Next
<1>1. ASSUME NEW j \in Jobs, Submit(j) PROVE Abstract!Accept(j)
  BY <1>1 DEF Submit, Push, life, values, Abstract!Accept, InputReady, broken
<1>2. ASSUME NEW j \in Jobs, Supply(j) PROVE Abstract!Supply(j)
  BY <1>2 DEF Supply, life, queue, Abstract!Supply, InputReady, broken
<1>3. ASSUME NEW j \in Jobs, InnerAnswer(j) PROVE Abstract!Answer(j)
  <2>1. j \in submitted \ answered
    BY <1>3 DEF InnerAnswer, IInv, Places, OnePlace, OneHome
  <2> QED BY <1>3, <2>1, AnswerStep DEF InnerAnswer, life, queue
<1>4. ASSUME InitBegin PROVE Abstract!Start
  BY <1>4 DEF InitBegin, queue, values, Abstract!Start, InputReady, broken, IInv, Life, Lifecycle
<1>5. CASE InitEnd
  BY <1>5 DEF InitEnd, queue, values, InputReady, broken
<1>6. CASE DisposeBegin
  BY <1>6 DEF DisposeBegin, queue, values, InputReady, broken
<1>7. ASSUME DisposeEnd PROVE Abstract!Stop
  BY <1>7 DEF DisposeEnd, FinishDispose, values, Abstract!Stop, InputReady, broken, IInv, Life, Lifecycle
<1>8. ASSUME Destroy PROVE Abstract!Destroy
  BY <1>8 DEF Destroy, Drop, values, Abstract!Destroy, InputReady, broken, IInv, Life, Lifecycle
<1>9. ASSUME NEW w \in Workers, Spawn(w) \/ TestDying(w) \/ Pop(w) \/ PopFail(w) \/ Enter(w)
      PROVE  UNCHANGED Abstract!vars
  BY <1>9 DEF Spawn, TestDying, Pop, PopFail, Enter, EnterCopy, life, queue, values, InputReady, broken
<1>10. ASSUME NEW w \in Workers, Execute(w) PROVE \E j \in Jobs : Abstract!Answer(j)
  <2>1. job[w] \in Jobs /\ up /\ job[w] \in submitted \ answered
    BY <1>10 DEF Execute, IInv, Types, TypeOK, HoldsWhenBusy, Life, QuietWhenDown, Alive,
                 Places, OnePlace, OneHome, Held
  <2>2. Abstract!Answer(job[w])
    BY <1>10, <2>1, AnswerStep DEF Execute, SetValue, life, queue
  <2> QED BY <2>1, <2>2
<1>11. CASE UNCHANGED vars
  BY <1>11 DEF vars, life, queue, values, InputReady, broken
<1> QED
  BY <1>1, <1>2, <1>3, <1>4, <1>5, <1>6, <1>7, <1>8, <1>9, <1>10, <1>11
  DEF Next, Worker, Terminated

\* The pool implements the safety part of a pattern's contract: it answers
\* only what it accepted, once, with the input there, and while it is up.
THEOREM PatternRefined == Spec => ImplementsPattern
<1>1. Init => Abstract!Init
  BY DEF Init, Abstract!Init, broken
<1> QED BY <1>1, Invariance, RefinementStep, PTL DEF Spec, ImplementsPattern, Abstract!SafeSpec

-----------------------------------------------------------------------------
(* The round robin.                                                        *)

\* Only a job that has left the queue has been sent to a copy, and none is sent twice.
SentOnce ==
    /\ \A j \in Jobs : target[j] # NoCopy => j \in submitted /\ ~Queued(j)
    /\ \A w \in Workers : pc[w] = "enter" => target[job[w]] = NoCopy

Sent == {j \in Jobs : target[j] # NoCopy}

\* The counter is r calls into a rotation; the copies before r have had one job more.
Spread ==
    \E q, turns \in Nat, r \in 0 .. Cardinality(Workers) - 1 :
        /\ counter = q * Cardinality(Workers) + r
        /\ \A k \in 0 .. Cardinality(Workers) - 1 : Load(k) = IF k < r THEN turns + 1 ELSE turns

Robin == SentOnce /\ (~E!HoldsSingle => Spread /\ counter <= Cardinality(Sent))

\* Jobs are sent only by Enter, and only popped ones.
LEMMA SentStep == IInv /\ SentOnce /\ [Next]_vars => SentOnce'
<1> SUFFICES ASSUME IInv, SentOnce, [Next]_vars PROVE SentOnce'
  OBVIOUS
<1>0. TypeOK /\ OnePlace /\ HoldsWhenBusy
  BY DEF IInv, Types, Places
<1>1. ASSUME UNCHANGED <<target, submitted, inner_queue>>,
             \A w \in Workers : pc'[w] = "enter" => pc[w] = "enter" /\ job'[w] = job[w]
      PROVE  SentOnce'
  BY <1>1 DEF SentOnce, Queued
<1>2. ASSUME NEW j \in Jobs, Submit(j) PROVE SentOnce'
  <2>1. /\ \A k : Queued(k)' <=> Queued(k) \/ k = j
        /\ j \notin submitted /\ submitted' = submitted \union {j}
        /\ UNCHANGED <<pc, job, target>>
    BY <1>0, <1>2, PushQueued DEF Submit, Push, threads, exec
  <2> QED BY <2>1 DEF SentOnce
<1>3. ASSUME NEW j \in Jobs, Supply(j) \/ InnerAnswer(j) PROVE SentOnce'
  BY <1>1, <1>3 DEF Supply, InnerAnswer, threads, queue, exec
<1>4. CASE InitBegin \/ InitEnd \/ DisposeBegin
  BY <1>1, <1>4 DEF InitBegin, InitEnd, DisposeBegin, threads, queue, exec
<1>5. CASE DisposeEnd
  BY <1>0, <1>1, <1>5 DEF DisposeEnd, FinishDispose, TypeOK, exec
<1>6. CASE Destroy
  <2>1. UNCHANGED <<pc, job, target, submitted>> /\ \A k : ~Queued(k)'
    BY <1>6 DEF Destroy, Drop, Queued, threads
  <2> QED BY <2>1 DEF SentOnce
<1>7. ASSUME NEW w \in Workers, Spawn(w) \/ TestDying(w) \/ PopFail(w) PROVE SentOnce'
  BY <1>0, <1>1, <1>7 DEF Spawn, TestDying, PopFail, TypeOK, queue, exec
<1>8. ASSUME NEW w \in Workers, Pop(w) PROVE SentOnce'
  <2>1. PICK c \in Callers :
            /\ inner_queue[c] # <<>>
            /\ job' = [job EXCEPT ![w] = Head(inner_queue[c])]
            /\ inner_queue' = [inner_queue EXCEPT ![c] = Tail(@)]
    BY <1>8 DEF Pop
  <2>2. /\ Queued(Head(inner_queue[c]))
        /\ \A k : Queued(k)' <=> Queued(k) /\ k # Head(inner_queue[c])
    BY <1>0, <2>1, PopQueued DEF OnePlace
  <2>3. Head(inner_queue[c]) \in Jobs
    BY <1>0, <2>1 DEF TypeOK
  <2>4. target[Head(inner_queue[c])] = NoCopy
    BY <2>2, <2>3 DEF SentOnce
  <2>5. UNCHANGED <<target, submitted>> /\ pc' = [pc EXCEPT ![w] = "enter"]
    BY <1>8 DEF Pop, exec
  <2>6. \A v \in Workers : pc'[v] = "enter" => target'[job'[v]] = NoCopy
    BY <1>0, <2>1, <2>4, <2>5 DEF SentOnce, TypeOK
  <2> QED BY <2>2, <2>5, <2>6 DEF SentOnce
<1>9. ASSUME NEW w \in Workers, Enter(w) PROVE SentOnce'
  <2>1. /\ pc[w] = "enter" /\ pc' = [pc EXCEPT ![w] = pc'[w]] /\ pc'[w] # "enter"
        /\ \A v \in Workers : v # w => job'[v] = job[v]
        /\ target' = [target EXCEPT ![job[w]] = E!ModIndex(counter)]
        /\ UNCHANGED <<submitted, inner_queue>>
    BY <1>0, <1>9 DEF Enter, EnterCopy, TypeOK, queue
  <2>2. job[w] \in Jobs /\ Held(job[w])
    BY <1>0, <2>1 DEF HoldsWhenBusy, TypeOK, Held
  <2>3. job[w] \in submitted /\ ~Queued(job[w])
    BY <1>0, <2>2 DEF OnePlace, OneHome
  <2>4. ASSUME NEW v \in Workers, pc'[v] = "enter" PROVE target'[job'[v]] = NoCopy
    <3>1. v # w /\ pc[v] = "enter"
      BY <1>0, <2>1, <2>4 DEF TypeOK
    <3>2. job[v] # job[w] /\ job[v] \in Jobs
      BY <1>0, <3>1, <2>2, PoolAssumption DEF OnePlace, HeldOnce, HoldsWhenBusy, TypeOK
    <3> QED BY <1>0, <2>1, <3>1, <3>2 DEF SentOnce, TypeOK
  <2> QED BY <1>0, <2>1, <2>3, <2>4 DEF SentOnce, Queued, TypeOK
<1>10. ASSUME NEW w \in Workers, Execute(w) PROVE SentOnce'
  BY <1>0, <1>1, <1>10 DEF Execute, SetValue, TypeOK, queue, exec
<1>11. CASE UNCHANGED vars
  BY <1>1, <1>11 DEF vars, threads, queue, exec
<1> QED
  BY <1>2, <1>3, <1>4, <1>5, <1>6, <1>7, <1>8, <1>9, <1>10, <1>11 DEF Next, Worker, Terminated

\* Only Enter touches the counter and the targets.
LEMMA SpreadFrame ==
    ASSUME Robin, UNCHANGED <<counter, target>>
    PROVE  (~E!HoldsSingle => Spread /\ counter <= Cardinality(Sent))'
<1>1. \A k : Load(k)' = Load(k)
  BY DEF Load
<1>2. Sent' = Sent /\ (E!HoldsSingle)' = E!HoldsSingle
  BY DEF Sent, E!HoldsSingle
<1>3. Spread => Spread'
  BY <1>1 DEF Spread
<1> QED BY <1>2, <1>3 DEF Robin

\* A quotient and a remainder determine each other.
LEMMA ModUnique ==
    ASSUME NEW n \in Nat \ {0}, NEW q \in Nat, NEW r \in 0 .. n - 1
    PROVE  (q * n + r) % n = r
  OBVIOUS

\* Enter sends its job to the copy whose turn it is.
LEMMA EnterSpread ==
    ASSUME IInv, Robin, CounterFits, ~E!HoldsSingle, NEW w \in Workers, Enter(w)
    PROVE  Spread' /\ counter' <= Cardinality(Sent')
<1> DEFINE n == Cardinality(Workers)
           j == job[w]
<1>1. n \in Nat \ {0} /\ CounterModulus \in Nat \ {0} /\ IsFiniteSet(Jobs)
  BY PoolAssumption, FS_EmptySet, FS_CardinalityType
<1>2. PICK q \in Nat, turns \in Nat, r \in 0 .. n - 1 :
        /\ counter = q * n + r
        /\ \A k \in 0 .. n - 1 : Load(k) = IF k < r THEN turns + 1 ELSE turns
  BY DEF Robin, Spread
<1>3. TypeOK /\ HoldsWhenBusy /\ pc[w] = "enter"
  BY DEF IInv, Types, Enter, EnterCopy
<1>4. j \in Jobs /\ target[j] = NoCopy
  BY <1>3 DEF HoldsWhenBusy, TypeOK, Robin, SentOnce
<1>5. target' = [target EXCEPT ![j] = r] /\ counter' = (counter + 1) % CounterModulus
  BY <1>1, <1>2, ModUnique DEF Enter, EnterCopy, E!ModIndex, E!NextCounter
<1>6. counter \in Nat /\ counter < CounterModulus
  BY <1>1, <1>3 DEF TypeOK
<1> HIDE DEF n, j
<1>7. r # NoCopy /\ target \in [Jobs -> E!Copies \union {NoCopy}]
  <2>1. r # NoCopy
    BY <1>1, <1>2 DEF NoCopy
  <2> QED BY <1>3, <2>1 DEF TypeOK
<1>8. Sent' = Sent \union {j} /\ j \notin Sent /\ Sent \subseteq Jobs
  BY <1>4, <1>5, <1>7 DEF Sent
<1>9. IsFiniteSet(Sent) /\ Cardinality(Sent') = Cardinality(Sent) + 1 /\ Cardinality(Sent) \in Nat
  BY <1>1, <1>8, FS_Subset, FS_AddElement, FS_CardinalityType
<1>10. Cardinality(Sent') <= Cardinality(Jobs) /\ Cardinality(Jobs) \in Nat
  <2>1. Sent' \subseteq Jobs
    BY <1>4, <1>8
  <2> QED BY <1>1, <2>1, FS_Subset, FS_CardinalityType
<1>11. counter <= Cardinality(Sent)
  BY DEF Robin
<1>12. counter' = IF counter + 1 = CounterModulus THEN 0 ELSE counter + 1
  BY <1>1, <1>5, <1>6
<1>13. ASSUME NEW k \in 0 .. n - 1
       PROVE  Load(k)' = IF k = r THEN Load(k) + 1 ELSE Load(k)
  <2> DEFINE mine == {i \in Jobs : target[i] = k}
  <2>1. IsFiniteSet(mine) /\ j \notin mine
    BY <1>1, <1>4, FS_Subset DEF NoCopy
  <2>2. {i \in Jobs : target'[i] = k} = IF k = r THEN mine \union {j} ELSE mine
    BY <1>4, <1>5, <1>7 DEF NoCopy
  <2>3. Cardinality(mine \union {j}) = Cardinality(mine) + 1
    BY <2>1, FS_AddElement
  <2> QED BY <2>2, <2>3 DEF Load
<1>14. CASE r + 1 < n
  <2>1. counter + 1 # CounterModulus
    <3>1. CASE Cardinality(Jobs) < CounterModulus
      BY <1>6, <1>9, <1>10, <1>11, <3>1
    <3>2. CASE CounterModulus % n = 0
      <4>1. (q * n + (r + 1)) % n = r + 1
        BY <1>1, <1>14, ModUnique
      <4>2. counter + 1 = q * n + (r + 1)
        BY <1>1, <1>2
      <4> QED BY <3>2, <4>1, <4>2
    <3> QED BY <3>1, <3>2 DEF CounterFits, n
  <2>2. counter' = q * n + (r + 1) /\ counter' <= Cardinality(Sent')
    BY <1>1, <1>2, <1>6, <1>9, <1>11, <1>12, <2>1
  <2>3. \A k \in 0 .. n - 1 : Load(k)' = IF k < r + 1 THEN turns + 1 ELSE turns
    BY <1>1, <1>2, <1>13
  <2>4. r + 1 \in 0 .. n - 1
    BY <1>1, <1>14
  <2> QED BY <2>2, <2>3, <2>4 DEF Spread, n
<1>15. CASE r + 1 = n
  <2>1. \A k \in 0 .. n - 1 : Load(k)' = IF k < 0 THEN turns + 1 + 1 ELSE turns + 1
    BY <1>1, <1>2, <1>13, <1>15
  <2>2. \E p \in Nat : counter' = p * n + 0
    <3>1. CASE counter + 1 = CounterModulus
      BY <1>1, <1>12, <3>1
    <3>2. CASE counter + 1 # CounterModulus
      <4>1. counter + 1 = (q + 1) * n + 0
        BY <1>1, <1>2, <1>15
      <4> QED BY <1>12, <3>2, <4>1
    <3> QED BY <3>1, <3>2
  <2>3. counter' <= Cardinality(Sent')
    BY <1>6, <1>9, <1>11, <1>12
  <2>4. turns + 1 \in Nat /\ 0 \in 0 .. n - 1
    BY <1>1
  <2> QED BY <2>1, <2>2, <2>3, <2>4 DEF Spread, n
<1> QED BY <1>1, <1>2, <1>14, <1>15

LEMMA RobinStep == CounterFits /\ IInv /\ Robin /\ [Next]_vars => Robin'
<1> SUFFICES ASSUME CounterFits, IInv, Robin, [Next]_vars PROVE Robin'
  OBVIOUS
<1>1. SentOnce'
  BY SentStep DEF Robin
<1>2. CASE \E w \in Workers : Enter(w)
  BY <1>1, <1>2, EnterSpread DEF Robin, E!HoldsSingle
<1>3. CASE ~\E w \in Workers : Enter(w)
  <2>1. UNCHANGED <<counter, target>>
    BY <1>3 DEF Next, Worker, Terminated, vars, exec, Submit, Push, Supply, InnerAnswer, InitBegin,
       InitEnd, DisposeBegin, DisposeEnd, FinishDispose, Destroy, Drop, Spawn, TestDying, Pop, PopFail,
       Execute, SetValue
  <2> QED BY <1>1, <2>1, SpreadFrame DEF Robin
<1> QED BY <1>2, <1>3

\* The loads of two copies differ by at most one, however the threads' calls interleave, for
\* any number of copies, if the counter does not wrap or wraps at the end of a rotation.
THEOREM BalancedCorrect ==
    ASSUME CounterFits
    PROVE  Spec => []Balanced
<1>0. Cardinality(Workers) \in Nat \ {0} /\ IsFiniteSet(Jobs)
  BY PoolAssumption, FS_EmptySet, FS_CardinalityType
<1>1. Init => Robin
  <2> SUFFICES ASSUME Init PROVE Robin
    OBVIOUS
  <2>1. \A k \in 0 .. Cardinality(Workers) - 1 : {j \in Jobs : target[j] = k} = {}
    BY DEF Init, NoCopy
  <2>2. \A k \in 0 .. Cardinality(Workers) - 1 : Load(k) = 0
    BY <2>1, FS_EmptySet DEF Load
  <2>3. 0 \in 0 .. Cardinality(Workers) - 1 /\ counter = 0 * Cardinality(Workers) + 0
    BY <1>0 DEF Init
  <2>4. Spread
    BY <2>2, <2>3 DEF Spread
  <2>5. Sent = {}
    BY DEF Sent, Init
  <2>6. counter <= Cardinality(Sent)
    BY <2>5, FS_EmptySet DEF Init
  <2>7. SentOnce
    BY DEF SentOnce, Init
  <2> QED BY <2>4, <2>6, <2>7 DEF Robin
<1>2. Robin => Balanced
  <2> SUFFICES ASSUME Robin, NEW a \in E!Copies, NEW b \in E!Copies PROVE Load(a) <= Load(b) + 1
    BY DEF Balanced
  <2>1. CASE E!HoldsSingle
    <3>1. a = b
      BY <2>1 DEF E!Copies
    <3>2. IsFiniteSet({j \in Jobs : target[j] = a})
      BY <1>0, FS_Subset
    <3>3. Load(a) \in Nat
      BY <3>2, FS_CardinalityType DEF Load
    <3> QED BY <3>1, <3>3
  <2>2. CASE ~E!HoldsSingle
    <3>1. a \in 0 .. Cardinality(Workers) - 1 /\ b \in 0 .. Cardinality(Workers) - 1
      BY <2>2 DEF E!Copies
    <3>2. PICK turns \in Nat, r \in 0 .. Cardinality(Workers) - 1 :
            \A k \in 0 .. Cardinality(Workers) - 1 : Load(k) = IF k < r THEN turns + 1 ELSE turns
      BY <2>2 DEF Robin, Spread
    <3> QED BY <3>1, <3>2
  <2> QED BY <2>1, <2>2
<1>3. IInv /\ Robin /\ [Next]_vars => Robin'
  BY RobinStep
<1> QED BY <1>1, <1>2, <1>3, Invariance, PTL DEF Spec

(***************************************************************************)
(* The same of the instance of a behaviour, whose kind the variable names: *)
(* what MCTaskPool's run checks for every kind.                            *)
(***************************************************************************)
THEOREM RoundRobinCorrect ==
    ASSUME CounterFits
    PROVE  Spec /\ [](kind = InnerKind) => []RoundRobin
<1>1. Balanced /\ kind = InnerKind => RoundRobin
  <2>1. SUFFICES ASSUME Balanced, NEW k \in Kinds, k = InnerKind PROVE Pool(k)!Balanced
    BY DEF RoundRobin
  <2>2. (k = "wrapper") <=> (InnerKind = "wrapper")
    BY <2>1
  <2>3. \A S : Pool(k)!Cardinality(S) = Cardinality(S)
    BY DEF Cardinality, Pool!Cardinality
  <2>4. Pool(k)!E!Copies = E!Copies
    BY <2>2, <2>3 DEF E!Copies, E!HoldsSingle, Pool!E!Copies, Pool!E!HoldsSingle
  <2>5. \A a : Pool(k)!Load(a) = Load(a)
    BY <2>3 DEF Load, Pool!Load
  <2>6. ASSUME NEW a \in E!Copies, NEW b \in E!Copies PROVE Load(a) <= Load(b) + 1
    BY <2>1, <2>6 DEF Balanced
  <2> QED BY <2>4, <2>5, <2>6 DEF Pool!Balanced
<1> QED BY <1>1, BalancedCorrect, PTL

-----------------------------------------------------------------------------
(* extrap_writer.                                                          *)

Measured(str, t, a) == Writing!Measured(str, t, a)

\* The thread counts, and the sizes, for which a name was measured.
Counts(str) == {t \in Sizes : \E a \in Sizes : Measured(str, t, a) # <<>>}

Points(str, t) == {a \in Sizes : Measured(str, t, a) # <<>>}

\* The maps hold what was added since the last clear, each vector in its place.
WriterInv ==
    /\ log \in Seq(Names \X Sizes \X Sizes \X Vectors)
    /\ Writing!TypeOK
    /\ \A str \in Names, t \in Sizes, a \in Sizes :
            Measured(str, t, a) # <<>> => t \in thread_sizes /\ a \in array_sizes
    /\ \A str \in Names : Writing!At(data_points, str, Writing!Empty) =
            [t \in Counts(str) |-> [a \in Points(str, t) |-> Measured(str, t, a)]]

\* The flattening of the instance is the one of the lemmas above.
LEMMA SameFlatten == ASSUME NEW s PROVE Writing!FlattenSeq(s) = FlattenSeq(s)
BY DEF Writing!FlattenSeq, FlattenSeq

\* What was measured, by the log.
MeasuredIn(l, str, t, a) ==
    FlattenSeq([i \in DOMAIN l |-> IF l[i][1] = str /\ l[i][2] = t /\ l[i][3] = a THEN l[i][4] ELSE <<>>])

LEMMA MeasuredIs ==
    ASSUME NEW str, NEW t, NEW a
    PROVE  /\ Measured(str, t, a) = MeasuredIn(log, str, t, a)
           /\ Measured(str, t, a)' = MeasuredIn(log', str, t, a)
BY SameFlatten DEF Measured, Writing!Measured, MeasuredIn

\* What the log holds of a call.
Additions == Names \X Sizes \X Sizes \X Vectors

\* The log m holds call x after those of l.
Lengthened(l, x, m) == l \in Seq(Additions) /\ x \in Additions /\ m = Append(l, x)

\* The timings of x's name, thread count and size in l, and those of x after them.
Extended(l, x) == MeasuredIn(l, x[1], x[2], x[3]) \o x[4]

\* What a call adds to what was measured.
LEMMA MeasuredGrows ==
    ASSUME NEW l, NEW x, NEW m, Lengthened(l, x, m),
           NEW str, NEW t, NEW a
    PROVE  /\ MeasuredIn(l, str, t, a) \in Seq(Timings)
           /\ x[1] = str /\ x[2] = t /\ x[3] = a => MeasuredIn(m, str, t, a) = Extended(l, x)
           /\ ~(x[1] = str /\ x[2] = t /\ x[3] = a) => MeasuredIn(m, str, t, a) = MeasuredIn(l, str, t, a)
<1> DEFINE P(y) == IF y[1] = str /\ y[2] = t /\ y[3] = a THEN y[4] ELSE <<>>
           s == [i \in DOMAIN l |-> P(l[i])]
           r == [i \in DOMAIN m |-> P(m[i])]
<1>1. \A y \in Additions : P(y) \in Seq(Timings)
  <2>1. \A v \in Vectors : v \in Seq(Timings)
    BY InstancesAssumption DEF Writing!WriterAssumption
  <2>2. <<>> \in Seq(Timings)
    BY EmptySeq
  <2> QED BY <2>1, <2>2 DEF Additions
<1>2. Len(l) \in Nat /\ DOMAIN l = 1 .. Len(l) /\ \A i \in 1 .. Len(l) : l[i] \in Additions
  BY LenProperties, ElementOfSeq DEF Lengthened
<1>9. P(x) = IF x[1] = str /\ x[2] = t /\ x[3] = a THEN x[4] ELSE <<>>
  OBVIOUS
<1>11. x \in Additions
  BY DEF Lengthened
<1>10. l \in Seq(Additions) /\ m = Append(l, x)
  BY DEF Lengthened
<1> HIDE DEF P
<1>3. /\ m \in Seq(Additions) /\ DOMAIN m = 1 .. Len(l) + 1 /\ m[Len(l) + 1] = x
      /\ \A i \in 1 .. Len(l) : m[i] = l[i]
  <2> DEFINE q == Append(l, x)
  <2>2. /\ q \in Seq(Additions) /\ Len(q) = Len(l) + 1 /\ q[Len(l) + 1] = x
        /\ \A i \in 1 .. Len(l) : q[i] = l[i]
    BY <1>10, <1>11, AppendProperties
  <2>3. m = q
    BY <1>10
  <2> HIDE DEF q
  <2>1. /\ m \in Seq(Additions) /\ Len(m) = Len(l) + 1 /\ m[Len(l) + 1] = x
        /\ \A i \in 1 .. Len(l) : m[i] = l[i]
    BY <2>2, <2>3
  <2> QED BY <2>1, LenProperties
<1>4. s \in Seq(Seq(Timings)) /\ Len(s) = Len(l)
  <2>1. \A i \in 1 .. Len(l) : P(l[i]) \in Seq(Timings)
    BY <1>1, <1>2
  <2>2. s = [i \in 1 .. Len(l) |-> P(l[i])]
    BY <1>2
  <2>3. [i \in 1 .. Len(l) |-> P(l[i])] \in Seq(Seq(Timings))
    BY <1>2, <2>1, IsASeq
  <2> QED BY <1>2, <2>2, <2>3
<1>5. P(x) \in Seq(Timings)
  BY <1>1, <1>11
<1>6. r = Append(s, P(x))
  <2>1. \A i \in 1 .. Len(l) + 1 : P(m[i]) \in Seq(Timings)
    BY <1>1, <1>2, <1>3, <1>5
  <2>2. r = [i \in 1 .. Len(l) + 1 |-> P(m[i])]
    BY <1>3
  <2>3. [i \in 1 .. Len(l) + 1 |-> P(m[i])] \in Seq(Seq(Timings))
    <3>1. PICK k \in Nat : k = Len(l) + 1
      BY <1>2
    <3>2. \A i \in 1 .. k : P(m[i]) \in Seq(Timings)
      BY <2>1, <3>1
    <3> DEFINE z == [i \in 1 .. k |-> P(m[i])]
    <3>3. z \in [1 .. k -> Seq(Timings)]
      BY <3>2
    <3> HIDE DEF z
    <3>4. z \in Seq(Seq(Timings))
      BY <3>3, SeqDef
    <3> QED BY <3>1, <3>4 DEF z
  <2>4. r \in Seq(Seq(Timings)) /\ Len(r) = Len(l) + 1
    <3>1. PICK k \in Nat : k = Len(l) + 1
      BY <1>2
    <3>2. r \in Seq(Seq(Timings)) /\ DOMAIN r = 1 .. k
      BY <2>2, <2>3, <3>1
    <3> HIDE DEF r
    <3>3. Len(r) \in Nat /\ 1 .. Len(r) = 1 .. k
      BY <3>2, LenProperties
    <3>4. Len(r) \in 1 .. k \/ Len(r) = 0
      BY <3>3
    <3>5. k \in 1 .. Len(r) \/ k = 0
      BY <3>3
    <3> QED BY <3>1, <3>2, <3>3, <3>4, <3>5
  <2>5. /\ Append(s, P(x)) \in Seq(Seq(Timings)) /\ Len(Append(s, P(x))) = Len(l) + 1
        /\ \A i \in 1 .. Len(l) : Append(s, P(x))[i] = s[i]
        /\ Append(s, P(x))[Len(l) + 1] = P(x)
    BY <1>4, <1>5, AppendProperties
  <2>6. \A i \in 1 .. Len(l) + 1 : r[i] = Append(s, P(x))[i]
    <3> SUFFICES ASSUME NEW i \in 1 .. Len(l) + 1 PROVE r[i] = Append(s, P(x))[i]
      OBVIOUS
    <3>1. r[i] = P(m[i])
      BY <1>3
    <3>2. CASE i = Len(l) + 1
      BY <1>3, <2>5, <3>1, <3>2
    <3>3. CASE i # Len(l) + 1
      <4>1. i \in 1 .. Len(l)
        BY <1>2, <3>3
      <4>2. s[i] = P(l[i])
        BY <1>2, <4>1
      <4> QED BY <1>3, <2>5, <3>1, <4>1, <4>2
    <3> QED BY <3>2, <3>3
  <2> HIDE DEF r, s
  <2> QED BY <2>4, <2>5, <2>6, SeqEqual
<1>7. MeasuredIn(l, str, t, a) = FlattenSeq(s) /\ MeasuredIn(m, str, t, a) = FlattenSeq(r)
  BY DEF P, MeasuredIn
<1> HIDE DEF r, s
<1>8. FlattenSeq(s) \in Seq(Timings) /\ FlattenSeq(r) = FlattenSeq(s) \o P(x)
  BY <1>4, <1>5, <1>6, FlattenAppend
<1> QED BY <1>7, <1>8, <1>9, ConcatEmptySeq DEF Extended

\* Nothing was measured before the first call.
LEMMA NothingMeasured ==
    ASSUME log = <<>>, NEW str, NEW t, NEW a
    PROVE  Measured(str, t, a) = <<>>
<1>1. [i \in DOMAIN log |-> IF log[i][1] = str /\ log[i][2] = t /\ log[i][3] = a
                            THEN log[i][4] ELSE <<>>] = <<>>
  BY EmptySeq
<1> QED BY <1>1, FlattenEmpty, SameFlatten DEF Measured, Writing!Measured

LEMMA NothingAdded ==
    ASSUME log = <<>>, data_points = Writing!Empty,
           thread_sizes = {}, array_sizes = {}, names = {}
    PROVE  WriterInv
<1>1. log \in Seq(Names \X Sizes \X Sizes \X Vectors) /\ DOMAIN log = {}
  BY EmptySeq
<1>2. Writing!TypeOK
  BY <1>1 DEF Writing!TypeOK, Writing!Empty
<1>3. \A str \in Names : Counts(str) = {}
  BY NothingMeasured DEF Counts
<1>4. \A str \in Names : Writing!At(data_points, str, Writing!Empty) = Writing!Empty
  BY DEF Writing!At, Writing!Empty
<1> QED BY <1>1, <1>2, <1>3, <1>4, NothingMeasured DEF WriterInv, Writing!Empty

LEMMA WriterInit == Writing!Init => WriterInv
BY NothingAdded DEF Writing!Init

LEMMA ClearStep == Writing!clear => WriterInv'
<1> SUFFICES ASSUME Writing!clear PROVE WriterInv'
  OBVIOUS
<1>1. /\ log' = <<>> /\ data_points' = Writing!Empty
      /\ thread_sizes' = {} /\ array_sizes' = {} /\ names' = {}
  BY DEF Writing!clear
<1>2. log' \in Seq(Names \X Sizes \X Sizes \X Vectors) /\ DOMAIN log' = {}
  BY <1>1, EmptySeq
<1>3. Writing!TypeOK'
  BY <1>1, <1>2 DEF Writing!TypeOK, Writing!Empty
<1>4. ASSUME NEW str, NEW t, NEW a PROVE Measured(str, t, a)' = <<>>
  <2>1. [i \in DOMAIN log' |-> IF log'[i][1] = str /\ log'[i][2] = t /\ log'[i][3] = a
                               THEN log'[i][4] ELSE <<>>] = <<>>
    BY <1>2, EmptySeq
  <2> QED BY <2>1, FlattenEmpty, SameFlatten DEF Measured, Writing!Measured
<1>5. \A str \in Names : Counts(str)' = {}
  BY <1>4 DEF Counts
<1>6. \A str \in Names : Writing!At(data_points, str, Writing!Empty)' = Writing!Empty
  BY <1>1 DEF Writing!At, Writing!Empty
<1> QED BY <1>2, <1>3, <1>4, <1>5, <1>6 DEF WriterInv, Writing!Empty

\* What a map has after an entry was put in.
LEMMA PutIs ==
    ASSUME NEW map, NEW key, NEW value, NEW other, NEW new
    PROVE  Writing!At(Writing!Put(map, key, value), other, new) =
                IF other = key THEN value ELSE Writing!At(map, other, new)
BY DEF Writing!At, Writing!Put

\* Only entries without points are made.
LEMMA FlushStep == WriterInv /\ Writing!flush => WriterInv'
<1> SUFFICES ASSUME WriterInv, Writing!flush PROVE WriterInv'
  OBVIOUS
<1>1. /\ UNCHANGED <<thread_sizes, array_sizes, names, log>>
      /\ data_points' = [n \in DOMAIN data_points \union names |-> Writing!At(data_points, n, Writing!Empty)]
  BY DEF Writing!flush
<1>2. \A str \in Names : Writing!At(data_points, str, Writing!Empty)' = Writing!At(data_points, str, Writing!Empty)
  BY <1>1 DEF Writing!At, Writing!Empty
<1>3. Writing!TypeOK'
  BY <1>1 DEF WriterInv, Writing!TypeOK
<1>4. \A str, t, a : Measured(str, t, a)' = Measured(str, t, a)
  BY <1>1 DEF Measured, Writing!Measured
<1>5. \A str, t : Counts(str)' = Counts(str) /\ Points(str, t)' = Points(str, t)
  BY <1>4 DEF Counts, Points
<1>6. log' \in Seq(Names \X Sizes \X Sizes \X Vectors)
  BY <1>1 DEF WriterInv
<1>8. \A str \in Names, t \in Sizes, a \in Sizes :
            Measured(str, t, a)' # <<>> => t \in thread_sizes' /\ a \in array_sizes'
  BY <1>1, <1>4 DEF WriterInv
<1>7. \A str \in Names : Writing!At(data_points, str, Writing!Empty)' =
            [t \in Counts(str)' |-> [a \in Points(str, t)' |-> Measured(str, t, a)']]
  BY <1>2, <1>4, <1>5 DEF WriterInv
<1> QED BY <1>3, <1>6, <1>7, <1>8 DEF WriterInv

\* A call without points changes the sets alone.
LEMMA TypesAdd ==
    ASSUME WriterInv, NEW str \in Names, NEW t \in Sizes, NEW a \in Sizes, NEW points \in Vectors,
           Writing!add_data_points(str, t, a, points)
    PROVE  log' \in Seq(Names \X Sizes \X Sizes \X Vectors) /\ Writing!TypeOK'
<1> DEFINE C == Names \X Sizes \X Sizes \X Vectors
           new == <<str, t, a, points>>
<1>1. log \in Seq(C) /\ new \in C /\ log' = Append(log, new)
  BY DEF WriterInv, Writing!add_data_points
<1>2. new[1] = str /\ new[2] = t /\ new[3] = a
  OBVIOUS
<1> HIDE DEF C, new
<1>3. /\ Len(log) \in Nat /\ DOMAIN log = 1 .. Len(log)
      /\ log' \in Seq(C) /\ DOMAIN log' = 1 .. Len(log) + 1
      /\ log'[Len(log) + 1] = new /\ \A i \in 1 .. Len(log) : log'[i] = log[i]
  BY <1>1, AppendProperties, LenProperties
<1>4. DOMAIN log' = DOMAIN log \union {Len(log) + 1}
  BY <1>3
<1>5. /\ {log'[i][1] : i \in DOMAIN log'} = {log[i][1] : i \in DOMAIN log} \union {str}
      /\ {log'[i][2] : i \in DOMAIN log'} = {log[i][2] : i \in DOMAIN log} \union {t}
      /\ {log'[i][3] : i \in DOMAIN log'} = {log[i][3] : i \in DOMAIN log} \union {a}
  <2>1. \A i \in DOMAIN log : log'[i] = log[i]
    BY <1>3
  <2> QED BY <1>2, <1>3, <1>4, <2>1
<1>6. DOMAIN data_points' \subseteq DOMAIN data_points \union {str}
  BY DEF Writing!add_data_points, Writing!Emplaced, Writing!Put
<1>7. /\ thread_sizes' = thread_sizes \union {t} /\ array_sizes' = array_sizes \union {a}
      /\ names' = names \union {str}
  BY DEF Writing!add_data_points
<1> QED BY <1>3, <1>5, <1>6, <1>7 DEF C, WriterInv, Writing!TypeOK

LEMMA AddStep ==
    ASSUME WriterInv, NEW str \in Names, NEW t \in Sizes, NEW a \in Sizes, NEW points \in Vectors,
           Writing!add_data_points(str, t, a, points)
    PROVE  WriterInv'
<1>1. log' \in Seq(Names \X Sizes \X Sizes \X Vectors) /\ Writing!TypeOK'
  BY TypesAdd
<1>2. ASSUME NEW s, NEW u, NEW b
      PROVE  /\ Measured(s, u, b) \in Seq(Timings)
             /\ str = s /\ t = u /\ a = b => Measured(s, u, b)' = Measured(s, u, b) \o points
             /\ ~(str = s /\ t = u /\ a = b) => Measured(s, u, b)' = Measured(s, u, b)
  <2>1. log \in Seq(Additions) /\ log' = Append(log, <<str, t, a, points>>)
    BY DEF Additions, WriterInv, Writing!add_data_points
  <2> DEFINE m == log'
  <2>2. /\ MeasuredIn(log, s, u, b) \in Seq(Timings)
        /\ str = s /\ t = u /\ a = b => MeasuredIn(m, s, u, b) = MeasuredIn(log, s, u, b) \o points
        /\ ~(str = s /\ t = u /\ a = b) => MeasuredIn(m, s, u, b) = MeasuredIn(log, s, u, b)
    <3>5. PICK x \in Additions : x = <<str, t, a, points>>
      BY DEF Additions
    <3>6. x[1] = str /\ x[2] = t /\ x[3] = a /\ x[4] = points
      BY <3>5
    <3>3. Lengthened(log, x, m)
      BY <2>1, <3>5 DEF Lengthened
    <3> HIDE DEF m
    <3>4. MeasuredIn(log, s, u, b) \in Seq(Timings)
      BY <3>3, MeasuredGrows
    <3>7. ASSUME x[1] = s, x[2] = u, x[3] = b PROVE MeasuredIn(m, s, u, b) = Extended(log, x)
      BY <3>3, <3>7, MeasuredGrows
    <3>8. ASSUME ~(x[1] = s /\ x[2] = u /\ x[3] = b) PROVE MeasuredIn(m, s, u, b) = MeasuredIn(log, s, u, b)
      BY <3>3, <3>8, MeasuredGrows
    <3> QED BY <3>4, <3>6, <3>7, <3>8 DEF Extended
  <2> QED BY <2>2, MeasuredIs
<1>3. points \in Seq(Timings)
  BY InstancesAssumption DEF Writing!WriterAssumption
<1>4. \A s, u, b : ~(str = s /\ t = u /\ a = b) => Measured(s, u, b)' = Measured(s, u, b)
  BY <1>2
<1>5. Measured(str, t, a)' = Measured(str, t, a) \o points
  BY <1>2
<1>8. \A s \in Names, u \in Sizes, b \in Sizes :
            Measured(s, u, b)' # <<>> => u \in thread_sizes' /\ b \in array_sizes'
  <2>1. thread_sizes' = thread_sizes \union {t} /\ array_sizes' = array_sizes \union {a}
    BY DEF Writing!add_data_points
  <2> QED BY <1>4, <2>1 DEF WriterInv
<1>6. CASE points = <<>>
  <2>1. \A s, u, b : Measured(s, u, b)' = Measured(s, u, b)
    BY <1>2, <1>4, <1>5, <1>6, ConcatEmptySeq
  <2>2. \A s, u : Counts(s)' = Counts(s) /\ Points(s, u)' = Points(s, u)
    BY <2>1 DEF Counts, Points
  <2>3. data_points' = data_points
    BY <1>6 DEF Writing!add_data_points
  <2>4. \A s \in Names : Writing!At(data_points, s, Writing!Empty)' =
            [u \in Counts(s)' |-> [b \in Points(s, u)' |-> Measured(s, u, b)']]
    BY <2>1, <2>2, <2>3 DEF WriterInv, Writing!At, Writing!Empty
  <2> QED BY <1>1, <1>8, <2>4 DEF WriterInv
<1>7. CASE points # <<>>
  <2> DEFINE regions == Writing!At(data_points, str, Writing!Empty)
             region == Writing!At(regions, t, Writing!Empty)
             vector == Writing!At(region, a, <<>>) \o points
             wider == Writing!Put(region, a, vector)
             more == Writing!Put(regions, t, wider)
  <2>1. data_points' = Writing!Put(data_points, str, more)
    BY <1>7 DEF Writing!add_data_points, Writing!Emplaced
  <2>2. regions = [u \in Counts(str) |-> [b \in Points(str, u) |-> Measured(str, u, b)]]
    BY DEF WriterInv
  <2> HIDE DEF regions
  <2>3. region = [b \in Points(str, t) |-> Measured(str, t, b)]
    <3>1. CASE t \in Counts(str)
      BY <2>2, <3>1 DEF Writing!At
    <3>2. CASE t \notin Counts(str)
      <4>1. Points(str, t) = {}
        BY <3>2 DEF Points, Counts
      <4> QED BY <2>2, <3>2, <4>1 DEF Writing!At, Writing!Empty
    <3> QED BY <3>1, <3>2
  <2> HIDE DEF region
  <2>4. vector = Measured(str, t, a)'
    <3>1. Writing!At(region, a, <<>>) = Measured(str, t, a)
      BY <2>3 DEF Writing!At, Points
    <3> QED BY <1>5, <3>1
  <2> HIDE DEF vector
  <2>5. Measured(str, t, a)' # <<>>
    BY <1>2, <1>3, <1>5, <1>7, ConcatEqualIffEmpty
  <2>6. /\ Points(str, t)' = Points(str, t) \union {a}
        /\ \A s, u : s # str \/ u # t => Points(s, u)' = Points(s, u)
    BY <1>4, <2>5 DEF Points
  <2>7. Counts(str)' = Counts(str) \union {t} /\ \A s : s # str => Counts(s)' = Counts(s)
    <3>1. \A s, u : u \in Counts(s) <=> u \in Sizes /\ Points(s, u) # {}
      BY DEF Counts, Points
    <3>2. \A s, u : u \in Counts(s)' <=> u \in Sizes /\ Points(s, u)' # {}
      BY DEF Counts, Points
    <3>3. \A u : u \in Counts(str)' <=> u \in Counts(str) \/ u = t
      BY <2>6, <3>1, <3>2
    <3>4. \A s, u : s # str => (u \in Counts(s)' <=> u \in Counts(s))
      BY <2>6, <3>1, <3>2
    <3>5. \A s : s # str => Counts(s)' = Counts(s)
      BY <3>4 DEF Counts
    <3>6. Counts(str)' = Counts(str) \union {t}
      BY <3>3 DEF Counts
    <3> QED BY <3>5, <3>6
  <2>8. wider = [b \in Points(str, t)' |-> Measured(str, t, b)']
    BY <1>4, <2>3, <2>4, <2>6 DEF Writing!Put
  <2> HIDE DEF wider
  <2>9. more = [u \in Counts(str)' |-> [b \in Points(str, u)' |-> Measured(str, u, b)']]
    <3>1. more = [u \in Counts(str) \union {t} |-> IF u = t THEN wider ELSE regions[u]]
      BY <2>2 DEF Writing!Put
    <3>2. \A u \in Counts(str) : u # t => regions[u] = [b \in Points(str, u)' |-> Measured(str, u, b)']
      BY <1>4, <2>2, <2>6
    <3> HIDE DEF more
    <3> QED BY <2>7, <2>8, <3>1, <3>2
  <2> HIDE DEF more
  <2>10. ASSUME NEW s \in Names
         PROVE  Writing!At(data_points', s, Writing!Empty) =
                    [u \in Counts(s)' |-> [b \in Points(s, u)' |-> Measured(s, u, b)']]
    <3>1. CASE s = str
      BY <2>1, <2>9, <3>1, PutIs
    <3>2. CASE s # str
      <4>1. Writing!At(data_points', s, Writing!Empty) = Writing!At(data_points, s, Writing!Empty)
        BY <2>1, <3>2, PutIs
      <4>2. /\ Counts(s)' = Counts(s) /\ \A u : Points(s, u)' = Points(s, u)
            /\ \A u, b : Measured(s, u, b)' = Measured(s, u, b)
        BY <1>4, <2>6, <2>7, <3>2
      <4> QED BY <4>1, <4>2 DEF WriterInv
    <3> QED BY <3>1, <3>2
  <2> QED BY <1>1, <1>8, <2>10 DEF WriterInv, Writing!At, Writing!Empty
<1> QED BY <1>6, <1>7

LEMMA WriterStutters == WriterInv /\ UNCHANGED Writing!vars => WriterInv'
<1> SUFFICES ASSUME WriterInv, UNCHANGED Writing!vars PROVE WriterInv'
  OBVIOUS
<1>1. UNCHANGED <<data_points, thread_sizes, array_sizes, names, log>>
  BY DEF Writing!vars
<1>2. \A str, t, a : Measured(str, t, a)' = Measured(str, t, a)
  BY <1>1 DEF Measured, Writing!Measured
<1>3. \A str, t : Counts(str)' = Counts(str) /\ Points(str, t)' = Points(str, t)
  BY <1>2 DEF Counts, Points
<1> QED BY <1>1, <1>2, <1>3 DEF WriterInv, Writing!TypeOK, Writing!At, Writing!Empty

\* The invariant that Aligned rests on.
THEOREM WriterInvariance == Writing!Spec => []WriterInv
<1>1. WriterInv /\ [Writing!Next]_(Writing!vars) => WriterInv'
  BY AddStep, ClearStep, FlushStep, WriterStutters DEF Writing!Next
<1> QED BY <1>1, WriterInit, PTL DEF Writing!Spec

-----------------------------------------------------------------------------
\* The instance's number of elements.
LEMMA SameCardinality == ASSUME NEW S PROVE Writing!Cardinality(S) = Cardinality(S)
BY DEF Writing!Cardinality, Cardinality

\* A finite set of sizes can be put in order.
LEMMA AscendingSizes ==
    ASSUME NEW S \in SUBSET Sizes, IsFiniteSet(S)
    PROVE  /\ DOMAIN Writing!Ascending(S) = 1 .. Cardinality(S)
           /\ {Writing!Ascending(S)[i] : i \in 1 .. Cardinality(S)} = S
<1>1. S \in SUBSET Nat
  BY InstancesAssumption DEF Writing!WriterAssumption
<1>2. Enumerates(S, Writing!Ascending(S))
  <2>1. PICK s : Enumerates(S, s)
    BY <1>1, EnumeratesExists
  <2> QED BY <2>1, SameCardinality DEF Enumerates, Writing!Ascending
<1>3. /\ \A i \in 1 .. Cardinality(S) : Writing!Ascending(S)[i] \in S
      /\ \A k \in S : \E i \in 1 .. Cardinality(S) : Writing!Ascending(S)[i] = k
  BY <1>1, <1>2, EnumeratesIs
<1>4. DOMAIN Writing!Ascending(S) = 1 .. Cardinality(S)
  BY <1>2 DEF Enumerates
<1> QED BY <1>3, <1>4

\* A name has been measured for finitely many thread counts.
LEMMA CountsFinite ==
    ASSUME WriterInv, NEW str \in Names
    PROVE  IsFiniteSet(Counts(str)) /\ Counts(str) \in SUBSET Sizes
<1>1. Len(log) \in Nat /\ DOMAIN log = 1 .. Len(log)
  BY LenProperties DEF WriterInv
<1>2. IsFiniteSet(DOMAIN log)
  BY <1>1, FS_Interval
<1>3. IsFiniteSet(thread_sizes)
  <2> DEFINE f == [i \in DOMAIN log |-> log[i][2]]
  <2>1. thread_sizes = {f[i] : i \in DOMAIN log}
    BY DEF WriterInv, Writing!TypeOK
  <2>2. f \in Surjection(DOMAIN log, thread_sizes)
    BY <2>1 DEF Surjection
  <2> QED BY <1>2, <2>2, FS_Surjection
<1>4. Counts(str) \subseteq thread_sizes /\ Counts(str) \in SUBSET Sizes
  BY DEF Counts, WriterInv
<1> QED BY <1>3, <1>4, FS_Subset

(***************************************************************************)
(* The i-th line of a region is that of the i-th size of the file, and     *)
(* holds the timings of that size in the order of the calls: for any names *)
(* and sizes and any sequence of calls, if the name has a timing of every  *)
(* size for each of its thread counts.                                     *)
(***************************************************************************)
THEOREM AlignedCorrect == Writing!Spec => []Aligned
<1>1. WriterInv => Aligned
  <2> SUFFICES ASSUME WriterInv PROVE Aligned
    OBVIOUS
  <2>1. Writing!TypeOK
    BY DEF WriterInv
  <2> DEFINE Lined(str) ==
               LET file == Writing!Written(str)
                   ts == {t \in Sizes : \E a \in Sizes : Writing!Measured(str, t, a) # <<>>}
               IN  (\A t \in ts, a \in array_sizes : Writing!Measured(str, t, a) # <<>>) =>
                   /\ {file.regions[i].name : i \in DOMAIN file.regions} = ts
                   /\ \A i \in DOMAIN file.regions :
                        file.regions[i].lines =
                            [j \in DOMAIN file.points |->
                                Writing!Measured(str, file.regions[i].name, file.points[j])]
  <2>2. ASSUME NEW str \in names PROVE Lined(str)
    <3> DEFINE regions == Writing!At(data_points, str, Writing!Empty)
               file == Writing!Written(str)
               ts == Writing!Ascending(DOMAIN regions)
               sizes == Writing!Ascending(array_sizes)
               n == Cardinality(Counts(str))
    <3>1. str \in Names
      <4>1. PICK i \in DOMAIN log : str = log[i][1]
        BY <2>1 DEF Writing!TypeOK
      <4>2. log[i] \in Names \X Sizes \X Sizes \X Vectors
        BY <4>1, LenProperties, ElementOfSeq DEF WriterInv
      <4> QED BY <4>1, <4>2
    <3>2. regions = [t \in Counts(str) |-> [a \in Points(str, t) |-> Measured(str, t, a)]]
      BY <3>1 DEF WriterInv
    <3>3. DOMAIN ts = 1 .. n /\ {ts[i] : i \in 1 .. n} = Counts(str)
      BY <3>1, <3>2, CountsFinite, AscendingSizes
    <3>4. /\ file.points = sizes
          /\ file.regions = [i \in DOMAIN ts |-> [name |-> ts[i],
                lines |-> LET as == Writing!Ascending(DOMAIN regions[ts[i]])
                          IN  [j \in DOMAIN as |-> regions[ts[i]][as[j]]]]]
      BY DEF Writing!Written
    <3>5. Counts(str) = {t \in Sizes : \E a \in Sizes : Writing!Measured(str, t, a) # <<>>}
      BY DEF Counts, Measured
    <3> SUFFICES ASSUME \A t \in Counts(str), a \in array_sizes : Measured(str, t, a) # <<>>
                 PROVE  /\ {file.regions[i].name : i \in DOMAIN file.regions} = Counts(str)
                        /\ \A i \in DOMAIN file.regions :
                             file.regions[i].lines =
                                [j \in DOMAIN file.points |->
                                    Measured(str, file.regions[i].name, file.points[j])]
      BY <3>5 DEF Measured
    <3> HIDE DEF regions, file, ts, sizes, n
    <3>6. {file.regions[i].name : i \in DOMAIN file.regions} = Counts(str)
      BY <3>3, <3>4
    <3>7. ASSUME NEW i \in DOMAIN file.regions
          PROVE  file.regions[i].lines =
                    [j \in DOMAIN file.points |-> Measured(str, file.regions[i].name, file.points[j])]
      <4>1. i \in DOMAIN ts /\ ts[i] \in Counts(str) /\ file.regions[i].name = ts[i]
        BY <3>3, <3>4, <3>7
      <4>2. Points(str, ts[i]) = array_sizes
        <5>1. array_sizes \subseteq Sizes
          <6>1. ASSUME NEW m \in DOMAIN log PROVE log[m][3] \in Sizes
            <7>1. log[m] \in Names \X Sizes \X Sizes \X Vectors
              BY <6>1, LenProperties, ElementOfSeq DEF WriterInv
            <7> QED BY <7>1
          <6> QED BY <2>1, <6>1 DEF Writing!TypeOK
        <5>2. \A a \in array_sizes : a \in Points(str, ts[i])
          BY <4>1, <5>1 DEF Points
        <5>3. ts[i] \in Sizes
          BY <4>1 DEF Counts
        <5>4. \A a \in Points(str, ts[i]) : a \in array_sizes
          BY <3>1, <5>3 DEF Points, WriterInv
        <5> QED BY <5>2, <5>4
      <4>3. regions[ts[i]] = [a \in array_sizes |-> Measured(str, ts[i], a)]
        BY <3>2, <4>1, <4>2
      <4>4. IsFiniteSet(array_sizes) /\ array_sizes \in SUBSET Sizes
        <5>1. Len(log) \in Nat /\ DOMAIN log = 1 .. Len(log)
          BY LenProperties DEF WriterInv
        <5> DEFINE f == [m \in DOMAIN log |-> log[m][3]]
        <5>2. array_sizes = {f[m] : m \in DOMAIN log}
          BY <2>1 DEF Writing!TypeOK
        <5>6. IsFiniteSet(DOMAIN log)
          BY <5>1, FS_Interval
        <5>7. f \in Surjection(DOMAIN log, array_sizes)
          BY <5>2 DEF Surjection
        <5>3. f \in Surjection(DOMAIN log, array_sizes) /\ IsFiniteSet(DOMAIN log)
          BY <5>6, <5>7
        <5>4. IsFiniteSet(array_sizes)
          BY <5>3, FS_Surjection
        <5>5. Points(str, ts[i]) \in SUBSET Sizes
          BY DEF Points
        <5> QED BY <4>2, <5>4, <5>5
      <4>5. \A j \in DOMAIN sizes : sizes[j] \in array_sizes
        BY <4>4, AscendingSizes DEF sizes
      <4>6. file.regions[i].lines = [j \in DOMAIN sizes |-> regions[ts[i]][sizes[j]]]
        <5>1. DOMAIN regions[ts[i]] = array_sizes
          BY <4>3
        <5> QED BY <3>4, <4>1, <5>1 DEF sizes
      <4>7. \A j \in DOMAIN sizes : regions[ts[i]][sizes[j]] = Measured(str, ts[i], sizes[j])
        BY <4>3, <4>5
      <4>8. file.regions[i].lines = [j \in DOMAIN sizes |-> Measured(str, ts[i], sizes[j])]
        BY <4>6, <4>7
      <4>9. file.points = sizes
        BY <3>4
      <4> QED BY <4>1, <4>8, <4>9
    <3> QED BY <3>6, <3>7
  <2> HIDE DEF Lined
  <2>3. \A str \in names : Lined(str)
    BY <2>2
  <2> QED BY <2>1, <2>3 DEF Aligned, Writing!Aligned, Lined
<1> QED BY <1>1, WriterInvariance, PTL

-----------------------------------------------------------------------------
(* Sums.                                                                   *)

\* What a sum adds up to, element by element.
Sums(s, n, f) ==
    /\ f \in [0 .. n -> Nat] /\ f[0] = 0
    /\ \A i \in 1 .. n : f[i] = f[i - 1] + s[i]

\* A sequence of numbers can be added up.
LEMMA SumsExists ==
    ASSUME NEW s \in Seq(Nat)
    PROVE  \E f : Sums(s, Len(s), f)
<1> DEFINE T == {n \in Nat : n <= Len(s) /\ ~\E f : Sums(s, n, f)}
<1>0. Len(s) \in Nat /\ \A i \in 1 .. Len(s) : s[i] \in Nat
  BY ElementOfSeq, LenProperties
<1>1. ASSUME NEW n \in T PROVE n - 1 \in T
  <2>0. n \in Nat /\ n <= Len(s) /\ ~\E f : Sums(s, n, f)
    OBVIOUS
  <2> HIDE DEF T
  <2>1. n # 0
    <3>1. Sums(s, 0, [i \in 0 .. 0 |-> 0])
      BY DEF Sums
    <3> QED BY <2>0, <3>1
  <2>2. ASSUME NEW f, Sums(s, n - 1, f) PROVE FALSE
    <3> DEFINE g == [i \in 0 .. n |-> IF i < n THEN f[i] ELSE f[n - 1] + s[n]]
    <3>1. /\ f \in [0 .. n - 1 -> Nat] /\ f[0] = 0
          /\ \A i \in 1 .. n - 1 : f[i] = f[i - 1] + s[i]
      BY <2>2 DEF Sums
    <3>2. f[n - 1] \in Nat /\ s[n] \in Nat
      BY <1>0, <2>0, <2>1, <3>1
    <3>3. \A i \in 0 .. n - 1 : g[i] = f[i] /\ f[i] \in Nat
      BY <2>0, <3>1
    <3>4. g[n] = f[n - 1] + s[n]
      BY <2>0
    <3>5. g \in [0 .. n -> Nat]
      <4>1. \A i \in 0 .. n : i # n => i \in 0 .. n - 1
        BY <2>0
      <4>2. f[n - 1] + s[n] \in Nat
        BY <3>2
      <4>3. g = [i \in 0 .. n |-> g[i]]
        OBVIOUS
      <4> HIDE DEF g
      <4>4. \A i \in 0 .. n : g[i] \in Nat
        BY <3>3, <3>4, <4>1, <4>2
      <4> QED BY <4>3, <4>4
    <3> HIDE DEF g
    <3>6. g[0] = 0
      BY <2>0, <2>1, <3>1, <3>3
    <3>7. ASSUME NEW i \in 1 .. n PROVE g[i] = g[i - 1] + s[i]
      <4>1. i - 1 \in 0 .. n - 1
        BY <2>0
      <4>2. CASE i = n
        BY <3>3, <3>4, <4>1, <4>2
      <4>3. CASE i # n
        <5>1. i \in 1 .. n - 1 /\ i \in 0 .. n - 1
          BY <2>0, <4>3
        <5> QED BY <3>1, <3>3, <4>1, <5>1
      <4> QED BY <4>2, <4>3
    <3> QED BY <2>0, <3>5, <3>6, <3>7 DEF Sums
  <2>3. n - 1 \in Nat /\ n - 1 <= Len(s)
    BY <1>0, <2>0, <2>1
  <2> QED BY <2>2, <2>3 DEF T
<1>2. T = {}
  <2> HIDE DEF T
  <2>1. T \in SUBSET Nat
    BY DEF T
  <2> QED BY <1>1, <2>1, Descent
<1> QED BY <1>0, <1>2

\* Sum is the last of them.
LEMMA SumIs ==
    ASSUME NEW s \in Seq(Nat), NEW f, Sums(s, Len(s), f)
    PROVE  Reducing!Sum(s) = f[Len(s)] /\ f[Len(s)] \in Nat
<1> DEFINE h == CHOOSE g : g = [n \in 0 .. Len(s) |-> IF n = 0 THEN 0 ELSE g[n - 1] + s[n]]
<1>0. Len(s) \in Nat
  BY LenProperties
<1>1. f \in [0 .. Len(s) -> Nat] /\ f[0] = 0 /\ \A i \in 1 .. Len(s) : f[i] = f[i - 1] + s[i]
  BY DEF Sums
<1>2. h = [n \in 0 .. Len(s) |-> IF n = 0 THEN 0 ELSE h[n - 1] + s[n]]
  <2>1. f = [n \in 0 .. Len(s) |-> IF n = 0 THEN 0 ELSE f[n - 1] + s[n]]
    <3>1. \A n \in 0 .. Len(s) : f[n] = IF n = 0 THEN 0 ELSE f[n - 1] + s[n]
      BY <1>0, <1>1
    <3> QED BY <1>1, <3>1
  <2> QED BY <2>1
<1>3. Reducing!Sum(s) = h[Len(s)]
  BY DEF Reducing!Sum
<1> HIDE DEF h
<1> DEFINE T == {i \in 0 .. Len(s) : f[i] # h[i]}
<1>4. ASSUME NEW i \in T PROVE i - 1 \in T
  <2>1. i \in 0 .. Len(s) /\ f[i] # h[i] /\ i \in Nat
    BY <1>0
  <2>2. h[i] = IF i = 0 THEN 0 ELSE h[i - 1] + s[i]
    BY <1>2, <2>1
  <2>3. i # 0
    BY <1>1, <2>1, <2>2
  <2>4. i \in 1 .. Len(s) /\ i - 1 \in 0 .. Len(s)
    BY <1>0, <2>1, <2>3
  <2>5. f[i - 1] # h[i - 1]
    BY <1>1, <2>1, <2>2, <2>3, <2>4
  <2> QED BY <2>4, <2>5
<1>5. T = {}
  <2> HIDE DEF T
  <2>1. T \in SUBSET Nat
    BY <1>0 DEF T
  <2> QED BY <1>4, <2>1, Descent
<1> QED BY <1>0, <1>1, <1>3, <1>5

\* One more number at the end.
LEMMA SumAppend ==
    ASSUME NEW s \in Seq(Nat), NEW x \in Nat
    PROVE  /\ Reducing!Sum(s) \in Nat
           /\ Reducing!Sum(Append(s, x)) = Reducing!Sum(s) + x
<1>1. PICK f : Sums(s, Len(s), f)
  BY SumsExists
<1> DEFINE t == Append(s, x)
<1>2. PICK n \in Nat : n = Len(s)
  BY LenProperties
<1>3. t \in Seq(Nat) /\ Len(t) = n + 1 /\ t[n + 1] = x /\ \A i \in 1 .. n : t[i] = s[i]
  BY <1>2, AppendProperties
<1> HIDE DEF t
<1> DEFINE g == [i \in 0 .. n + 1 |-> IF i <= n THEN f[i] ELSE f[n] + x]
<1>4. f \in [0 .. n -> Nat] /\ f[0] = 0 /\ \A i \in 1 .. n : f[i] = f[i - 1] + s[i]
  BY <1>1, <1>2 DEF Sums
<1>5. \A i \in 0 .. n : g[i] = f[i] /\ f[i] \in Nat
  BY <1>4
<1>6. g[n + 1] = f[n] + x /\ f[n] \in Nat
  BY <1>4
<1>7. g \in [0 .. n + 1 -> Nat]
  <2>1. \A i \in 0 .. n + 1 : i # n + 1 => i \in 0 .. n
    OBVIOUS
  <2>2. x \in Nat /\ f[n] + x \in Nat
    BY <1>6
  <2>3. g = [i \in 0 .. n + 1 |-> g[i]]
    OBVIOUS
  <2> HIDE DEF g
  <2>4. \A i \in 0 .. n + 1 : g[i] \in Nat
    BY <1>5, <1>6, <2>1, <2>2
  <2> QED BY <2>3, <2>4
<1> HIDE DEF g
<1>8. ASSUME NEW i \in 1 .. n + 1 PROVE g[i] = g[i - 1] + t[i]
  <2>1. CASE i = n + 1
    BY <1>3, <1>5, <1>6, <2>1
  <2>2. CASE i # n + 1
    <3>1. i \in 1 .. n /\ i \in 0 .. n /\ i - 1 \in 0 .. n
      BY <2>2
    <3> QED BY <1>3, <1>4, <1>5, <3>1
  <2> QED BY <2>1, <2>2
<1>9. Sums(t, n + 1, g)
  <2>1. g[0] = 0
    BY <1>4, <1>5
  <2> QED BY <1>7, <1>8, <2>1 DEF Sums
<1>10. Reducing!Sum(t) = f[n] + x
  BY <1>3, <1>6, <1>9, SumIs
<1>11. Reducing!Sum(s) = f[n]
  BY <1>1, <1>2, SumIs
<1> QED BY <1>6, <1>10, <1>11 DEF t

\* Nothing.
LEMMA SumEmpty == Reducing!Sum(<<>>) = 0
<1> DEFINE f == [i \in 0 .. 0 |-> 0]
<1>1. Sums(<<>>, 0, f) /\ f[0] = 0
  BY DEF Sums
<1>2. <<>> \in Seq(Nat) /\ Len(<<>>) = 0
  BY EmptySeq
<1> HIDE DEF f
<1> QED BY <1>1, <1>2, SumIs

\* As many ones as there are.
LEMMA SumOnes ==
    ASSUME NEW n \in Nat
    PROVE  /\ [i \in 1 .. n |-> 1] \in Seq(Nat)
           /\ Reducing!Sum([i \in 1 .. n |-> 1]) = n
<1> DEFINE s == [i \in 1 .. n |-> 1]
           f == [i \in 0 .. n |-> i]
<1>1. s \in Seq(Nat) /\ Len(s) = n
  OBVIOUS
<1>2. Sums(s, n, f) /\ f[n] = n
  BY DEF Sums
<1> HIDE DEF s, f
<1>3. Reducing!Sum(s) = n
  BY <1>1, <1>2, SumIs
<1> QED BY <1>1, <1>3 DEF s

\* One number among zeros.
LEMMA SumOne ==
    ASSUME NEW s \in Seq(Nat), NEW j \in 1 .. Len(s), \A i \in 1 .. Len(s) : i # j => s[i] = 0
    PROVE  Reducing!Sum(s) = s[j]
<1>1. PICK n \in Nat : n = Len(s)
  BY LenProperties
<1> DEFINE f == [i \in 0 .. n |-> IF i < j THEN 0 ELSE s[j]]
<1>2. \A i \in 1 .. n : s[i] \in Nat
  BY <1>1, ElementOfSeq
<1>3. j \in 1 .. n /\ s[j] \in Nat
  BY <1>1, <1>2
<1>4. f \in [0 .. n -> Nat] /\ f[0] = 0 /\ f[n] = s[j]
  BY <1>3
<1>5. \A i \in 1 .. n : f[i] = f[i - 1] + s[i]
  BY <1>1, <1>2, <1>3
<1> HIDE DEF f
<1>6. Sums(s, n, f)
  BY <1>4, <1>5 DEF Sums
<1> QED BY <1>1, <1>4, <1>6, SumIs

\* Two sequences, one after the other.
LEMMA SumConcat ==
    ASSUME NEW s \in Seq(Nat), NEW t \in Seq(Nat)
    PROVE  Reducing!Sum(s \o t) = Reducing!Sum(s) + Reducing!Sum(t)
<1>1. PICK f : Sums(s, Len(s), f)
  BY SumsExists
<1>2. PICK g : Sums(t, Len(t), g)
  BY SumsExists
<1>3. PICK m \in Nat : m = Len(s)
  BY LenProperties
<1>4. PICK n \in Nat : n = Len(t)
  BY LenProperties
<1> DEFINE c == s \o t
<1>5. /\ c \in Seq(Nat) /\ Len(c) = m + n
      /\ \A i \in 1 .. m + n : c[i] = IF i <= m THEN s[i] ELSE t[i - m]
  BY <1>3, <1>4, ConcatProperties
<1> HIDE DEF c
<1>6. f \in [0 .. m -> Nat] /\ f[0] = 0 /\ \A i \in 1 .. m : f[i] = f[i - 1] + s[i]
  BY <1>1, <1>3 DEF Sums
<1>7. g \in [0 .. n -> Nat] /\ g[0] = 0 /\ \A i \in 1 .. n : g[i] = g[i - 1] + t[i]
  BY <1>2, <1>4 DEF Sums
<1> DEFINE h == [i \in 0 .. m + n |-> IF i <= m THEN f[i] ELSE f[m] + g[i - m]]
<1>8. \A i \in 0 .. m + n : i <= m => h[i] = f[i] /\ f[i] \in Nat
  BY <1>6
<1>9. ASSUME NEW i \in 0 .. m + n, i >= m PROVE h[i] = f[m] + g[i - m] /\ h[i] \in Nat
  <2>1. f[m] \in Nat
    BY <1>6
  <2>2. i - m \in 0 .. n /\ g[i - m] \in Nat
    BY <1>7, <1>9
  <2>3. CASE i = m
    BY <1>7, <2>1, <2>3
  <2>4. CASE i # m
    BY <1>9, <2>1, <2>2, <2>4
  <2> QED BY <2>3, <2>4
<1>10. h = [i \in 0 .. m + n |-> h[i]]
  OBVIOUS
<1> HIDE DEF h
<1>11. h \in [0 .. m + n -> Nat] /\ h[0] = 0
  <2>1. \A i \in 0 .. m + n : h[i] \in Nat
    <3> SUFFICES ASSUME NEW i \in 0 .. m + n PROVE h[i] \in Nat
      OBVIOUS
    <3>1. CASE i <= m
      BY <1>8, <3>1
    <3>2. CASE ~(i <= m)
      BY <1>9, <3>2
    <3> QED BY <3>1, <3>2
  <2>2. h \in [0 .. m + n -> Nat]
    BY <1>10, <2>1
  <2>3. 0 \in 0 .. m + n /\ 0 <= m
    OBVIOUS
  <2> QED BY <1>6, <1>8, <2>2, <2>3
<1>12. ASSUME NEW i \in 1 .. m + n PROVE h[i] = h[i - 1] + c[i]
  <2>0. i \in 0 .. m + n /\ i - 1 \in 0 .. m + n
    OBVIOUS
  <2>1. CASE i <= m
    <3>1. i \in 1 .. m /\ i - 1 <= m
      BY <2>1
    <3>2. h[i] = f[i] /\ h[i - 1] = f[i - 1] /\ c[i] = s[i]
      BY <1>5, <1>8, <2>0, <2>1, <3>1
    <3> QED BY <1>6, <3>1, <3>2
  <2>2. CASE ~(i <= m)
    <3>1. PICK j \in Nat : j = i - m
      BY <2>2
    <3>2. j \in 1 .. n /\ j \in 0 .. n /\ j - 1 \in 0 .. n /\ i - 1 - m = j - 1
      BY <2>2, <3>1
    <3>3. i >= m /\ i - 1 >= m
      BY <2>2
    <3>4. h[i] = f[m] + g[j] /\ h[i - 1] = f[m] + g[j - 1]
      BY <1>9, <2>0, <3>1, <3>2, <3>3
    <3>5. c[i] = t[j]
      BY <1>5, <2>2, <3>1
    <3>6. f[m] \in Nat /\ g[j - 1] \in Nat /\ g[j] = g[j - 1] + t[j] /\ g[j] \in Nat
      BY <1>6, <1>7, <3>2
    <3>7. t[j] \in Nat
      BY <1>4, <3>2, ElementOfSeq
    <3> QED BY <3>4, <3>5, <3>6, <3>7
  <2> QED BY <2>1, <2>2
<1>13. Sums(c, m + n, h)
  BY <1>11, <1>12 DEF Sums
<1>14. Reducing!Sum(c) = h[m + n]
  BY <1>5, <1>13, SumIs
<1>15. h[m + n] = f[m] + g[n]
  <2>1. m + n \in 0 .. m + n /\ m + n >= m /\ m + n - m = n
    OBVIOUS
  <2> QED BY <1>9, <2>1
<1>16. Reducing!Sum(s) = f[m] /\ Reducing!Sum(t) = g[n]
  BY <1>1, <1>2, <1>3, <1>4, SumIs
<1> QED BY <1>14, <1>15, <1>16 DEF c

\* A sequence without its j-th element.
Without(s, j, t) ==
    /\ Len(t) = Len(s) - 1
    /\ \A i \in 1 .. Len(t) : t[i] = IF i < j THEN s[i] ELSE s[i + 1]

LEMMA SumWithout ==
    ASSUME NEW s \in Seq(Nat), NEW t \in Seq(Nat), NEW j \in 1 .. Len(s), Without(s, j, t)
    PROVE  Reducing!Sum(s) = Reducing!Sum(t) + s[j]
<1>1. PICK f : Sums(s, Len(s), f)
  BY SumsExists
<1>2. PICK n \in Nat : n = Len(s) - 1
  <2>1. Len(s) \in Nat
    BY LenProperties
  <2> QED BY <2>1
<1>3. Len(s) = n + 1 /\ Len(t) = n /\ j \in 1 .. n + 1
  BY <1>2, LenProperties DEF Without
<1>4. /\ \A i \in 1 .. n + 1 : s[i] \in Nat
      /\ \A i \in 1 .. n : t[i] = IF i < j THEN s[i] ELSE s[i + 1]
  BY <1>3, ElementOfSeq DEF Without
<1>5. f \in [0 .. n + 1 -> Nat] /\ f[0] = 0 /\ \A i \in 1 .. n + 1 : f[i] = f[i - 1] + s[i]
  BY <1>1, <1>3 DEF Sums
<1>6. s[j] \in Nat
  BY <1>3, <1>4
<1> DEFINE U == {i \in Nat : i <= n + 1 /\ i >= j /\ f[i] < s[j]}
<1>7. ASSUME NEW i \in U PROVE i - 1 \in U
  <2>1. i \in Nat /\ i <= n + 1 /\ i >= j /\ f[i] < s[j] /\ i \in 1 .. n + 1
    BY <1>3
  <2>2. f[i] = f[i - 1] + s[i] /\ f[i - 1] \in Nat /\ s[i] \in Nat
    BY <1>4, <1>5, <2>1
  <2>3. i # j
    BY <1>6, <2>1, <2>2
  <2>4. i - 1 \in Nat /\ i - 1 <= n + 1 /\ i - 1 >= j
    BY <1>3, <2>1, <2>3
  <2>5. f[i - 1] < s[j]
    BY <1>6, <2>1, <2>2
  <2> QED BY <2>4, <2>5
<1>8. U = {}
  <2> HIDE DEF U
  <2>1. U \in SUBSET Nat
    BY DEF U
  <2> QED BY <1>7, <2>1, Descent
<1>9. ASSUME NEW i \in 0 .. n + 1, i >= j PROVE f[i] - s[j] \in Nat
  <2>1. i \in Nat /\ i <= n + 1 /\ f[i] \in Nat
    BY <1>5
  <2>2. i \notin U
    BY <1>8
  <2>3. ~(f[i] < s[j])
    BY <1>9, <2>1, <2>2
  <2> QED BY <1>6, <2>1, <2>3
<1> DEFINE g == [i \in 0 .. n |-> IF i < j THEN f[i] ELSE f[i + 1] - s[j]]
<1>10. \A i \in 0 .. n : g[i] \in Nat
  <2> SUFFICES ASSUME NEW i \in 0 .. n PROVE (IF i < j THEN f[i] ELSE f[i + 1] - s[j]) \in Nat
    OBVIOUS
  <2>1. i \in 0 .. n + 1 /\ i + 1 \in 0 .. n + 1
    OBVIOUS
  <2>2. CASE i < j
    BY <1>5, <2>1, <2>2
  <2>3. CASE ~(i < j)
    <3>1. i + 1 >= j
      BY <1>3, <2>3
    <3> QED BY <1>9, <2>1, <2>3, <3>1
  <2> QED BY <2>2, <2>3
<1>11. g = [i \in 0 .. n |-> g[i]] /\ g[0] = 0
  BY <1>3, <1>5
<1>12. ASSUME NEW i \in 1 .. n PROVE g[i] = g[i - 1] + t[i]
  <2>7. PICK k \in Nat : k = i + 1
    OBVIOUS
  <2>8. PICK p \in Nat : p = i - 1
    OBVIOUS
  <2>0. i \in 0 .. n /\ p \in 0 .. n /\ i \in 1 .. n + 1 /\ k \in 1 .. n + 1 /\ k - 1 = i
    BY <2>7, <2>8
  <2>1. f[i] = f[p] + s[i] /\ f[k] = f[i] + s[k]
    BY <1>5, <2>0, <2>8
  <2>2. s[i] \in Nat /\ s[k] \in Nat /\ f[i] \in Nat /\ f[p] \in Nat /\ f[k] \in Nat
    <3>1. i \in 0 .. n + 1 /\ p \in 0 .. n + 1 /\ k \in 0 .. n + 1
      BY <2>0
    <3> QED BY <1>4, <1>5, <2>0, <3>1
  <2>6. f[i] \in Nat /\ f[p] \in Nat /\ f[k] \in Nat
    BY <2>2
  <2>3. CASE i < j
    <3>1. g[i] = f[i] /\ g[p] = f[p] /\ t[i] = s[i]
      BY <1>4, <2>0, <2>3, <2>8
    <3> QED BY <2>1, <2>8, <3>1
  <2>4. CASE i = j
    <3>1. g[i] = f[k] - s[i] /\ g[p] = f[p] /\ t[i] = s[k]
      BY <1>4, <2>0, <2>4, <2>7, <2>8
    <3> HIDE DEF g
    <3>6. PICK a \in Nat : a = s[k]
      BY <2>2
    <3>7. PICK b \in Nat : b = s[i]
      BY <2>2
    <3>4. f[i] = f[p] + b /\ f[k] = f[i] + a /\ a \in Nat /\ b \in Nat
      BY <2>1, <3>6, <3>7
    <3>5. f[k] - b = f[p] + a
      BY <2>6, <3>4
    <3>3. g[i] = g[p] + t[i]
      BY <3>1, <3>6, <3>7, <3>5
    <3> QED BY <2>8, <3>3
  <2>5. CASE i > j
    <3>1. g[i] = f[k] - s[j] /\ g[p] = f[i] - s[j] /\ t[i] = s[k]
      BY <1>3, <1>4, <2>0, <2>5, <2>7, <2>8
    <3> HIDE DEF g
    <3>6. PICK a \in Nat : a = s[k]
      BY <2>2
    <3>7. PICK b \in Nat : b = s[j]
      BY <1>6
    <3>4. f[k] = f[i] + a /\ a \in Nat /\ b \in Nat
      BY <2>1, <3>6, <3>7
    <3>5. f[k] - b = f[i] - b + a
      BY <2>6, <3>4
    <3>3. g[i] = g[p] + t[i]
      BY <3>1, <3>6, <3>7, <3>5
    <3> QED BY <2>8, <3>3
  <2> QED BY <1>3, <2>3, <2>4, <2>5
<1>13. f[n + 1] = g[n] + s[j]
  <2>0. n \in 0 .. n /\ n + 1 \in 1 .. n + 1 /\ n + 1 - 1 = n /\ n \in 0 .. n + 1
    OBVIOUS
  <2>1. f[n + 1] = f[n] + s[n + 1] /\ f[n] \in Nat /\ f[n + 1] \in Nat
    BY <1>5, <2>0
  <2>2. CASE n < j
    <3>1. j = n + 1 /\ g[n] = f[n]
      BY <1>3, <2>0, <2>2
    <3> QED BY <2>1, <3>1
  <2>3. CASE ~(n < j)
    <3>1. g[n] = f[n + 1] - s[j]
      BY <2>0, <2>3
    <3> HIDE DEF g
    <3> QED BY <1>6, <2>1, <3>1
  <2> QED BY <2>2, <2>3
<1> HIDE DEF g
<1>14. Sums(t, n, g)
  BY <1>10, <1>11, <1>12 DEF Sums
<1>15. Reducing!Sum(t) = g[n] /\ Reducing!Sum(s) = f[n + 1]
  BY <1>1, <1>3, <1>14, SumIs
<1> QED BY <1>13, <1>15

\* What RemoveAt removes.
LEMMA RemoveAtIs ==
    ASSUME NEW S, NEW s \in Seq(S), NEW j \in 1 .. Len(s)
    PROVE  Reducing!RemoveAt(s, j) \in Seq(S) /\ Without(s, j, Reducing!RemoveAt(s, j))
<1>1. PICK n \in Nat : n = Len(s)
  BY LenProperties
<1> DEFINE a == SubSeq(s, 1, j - 1)
           b == SubSeq(s, j + 1, n)
<1>2. j \in 1 .. n /\ \A i \in 1 .. n : s[i] \in S
  BY <1>1, ElementOfSeq
<1>3. a \in Seq(S) /\ Len(a) = j - 1 /\ \A i \in 1 .. j - 1 : a[i] = s[i]
  <2>1. 1 \in Int /\ j - 1 \in Int /\ \A i \in 1 .. j - 1 : s[i] \in S
    BY <1>2
  <2>2. /\ a \in Seq(S) /\ Len(a) = IF 1 <= j - 1 THEN j - 1 - 1 + 1 ELSE 0
        /\ \A i \in 1 .. j - 1 - 1 + 1 : a[i] = s[1 + i - 1]
    BY <2>1, SubSeqProperties
  <2> HIDE DEF a
  <2> QED BY <1>2, <2>2
<1>4. b \in Seq(S) /\ Len(b) = n - j /\ \A i \in 1 .. n - j : b[i] = s[j + i]
  <2>1. j + 1 \in Int /\ n \in Int /\ \A i \in j + 1 .. n : s[i] \in S
    BY <1>2
  <2>2. /\ b \in Seq(S) /\ Len(b) = IF j + 1 <= n THEN n - (j + 1) + 1 ELSE 0
        /\ \A i \in 1 .. n - (j + 1) + 1 : b[i] = s[j + 1 + i - 1]
    BY <2>1, SubSeqProperties
  <2> HIDE DEF b
  <2> QED BY <1>2, <2>2
<1>5. Reducing!RemoveAt(s, j) = a \o b
  BY <1>1 DEF Reducing!RemoveAt
<1> HIDE DEF a, b
<1> DEFINE t == a \o b
<1>10. PICK p \in Nat : p = j - 1
  BY <1>2
<1>11. PICK q \in Nat : q = n - j
  BY <1>2
<1>12. Len(a) = p /\ Len(b) = q
  BY <1>3, <1>4, <1>10, <1>11
<1>6. t \in Seq(S) /\ Len(t) = p + q /\ \A i \in 1 .. p + q : t[i] = IF i <= p THEN a[i] ELSE b[i - p]
  BY <1>3, <1>4, <1>12, ConcatProperties
<1> HIDE DEF t
<1>7. Len(t) = n - 1 /\ p + q = n - 1
  BY <1>2, <1>6, <1>10, <1>11
<1>8. ASSUME NEW i \in 1 .. n - 1 PROVE t[i] = IF i < j THEN s[i] ELSE s[i + 1]
  <2>1. t[i] = IF i <= j - 1 THEN a[i] ELSE b[i - (j - 1)]
    BY <1>6, <1>7, <1>10
  <2>2. CASE i < j
    <3>1. i \in 1 .. j - 1
      BY <1>2, <2>2
    <3> QED BY <1>3, <2>1, <2>2, <3>1
  <2>3. CASE ~(i < j)
    <3>1. PICK k \in Nat : k = i - (j - 1)
      BY <1>2, <2>3
    <3>2. k \in 1 .. n - j /\ j + k = i + 1 /\ ~(i <= j - 1)
      BY <1>2, <2>3, <3>1
    <3> QED BY <1>4, <2>1, <2>3, <3>1, <3>2
  <2> QED BY <2>2, <2>3
<1>9. Without(s, j, t)
  BY <1>1, <1>7, <1>8 DEF Without
<1> QED BY <1>5, <1>6, <1>9 DEF t

\* With the constants of the program ReduceAddVector adds up its vector.
LEMMA AddVectorIs ==
    ASSUME NEW vals \in Seq(Nat), REPEATS_REDUCE = 1, def_val = 0
    PROVE  Reducing!ReduceAddVector(vals) = Reducing!Sum(vals)
<1>1. CASE vals = <<>>
  BY <1>1, SumEmpty DEF Reducing!ReduceAddVector
<1>2. CASE vals # <<>>
  <2> DEFINE t == Tail(vals)
  <2>1. Len(vals) \in Nat \ {0}
    BY <1>2, EmptySeq
  <2>2. t \in Seq(Nat) /\ Len(t) = Len(vals) - 1 /\ \A i \in 1 .. Len(t) : t[i] = vals[i + 1]
    BY <1>2, HeadTailProperties
  <2>5. Reducing!ReduceAddVector(vals) = vals[1] + 1 * Reducing!Sum(t)
    BY <1>2 DEF Reducing!ReduceAddVector
  <2> HIDE DEF t
  <2>3. 1 \in 1 .. Len(vals) /\ Without(vals, 1, t)
    <3>1. \A i \in 1 .. Len(t) : ~(i < 1)
      BY <2>1, <2>2
    <3> QED BY <2>1, <2>2, <3>1 DEF Without
  <2>4. Reducing!Sum(vals) = Reducing!Sum(t) + vals[1]
    BY <2>2, <2>3, SumWithout
  <2>6. Reducing!Sum(t) \in Nat /\ vals[1] \in Nat
    BY <2>2, <2>3, SumAppend, ElementOfSeq
  <2> QED BY <2>4, <2>5, <2>6
<1> QED BY <1>1, <1>2

-----------------------------------------------------------------------------
(* Histograms.                                                             *)

\* The instance's number of elements.
LEMMA NumberOf == ASSUME NEW S PROVE Reducing!Cardinality(S) = Cardinality(S)
BY DEF Reducing!Cardinality, Cardinality

LEMMA ShadesPositive ==
    /\ Shades \in Nat \ {0} /\ 3 * Shades \in Nat \ {0}
    /\ Reducing!Bytes = 0 .. Shades - 1 /\ Reducing!Index = 0 .. 3 * Shades - 1
<1>1. Shades \in Nat \ {0}
  BY InstancesAssumption DEF Reducing!FilesAssumption
<1> QED BY <1>1 DEF Reducing!Bytes, Reducing!Index

\* An index is one of a colour and a shade.
LEMMA ColourAndShade ==
    ASSUME NEW k \in Reducing!Index
    PROVE  /\ k \in Nat /\ k \div Shades \in 0 .. 2 /\ k % Shades \in Reducing!Bytes
           /\ k = (k % Shades) + Shades * (k \div Shades)
<1>1. k \in Nat /\ k < 3 * Shades /\ Shades \in Nat /\ Shades > 0
  BY ShadesPositive
<1>2. /\ k % Shades \in Nat /\ k % Shades < Shades /\ k \div Shades \in Int
      /\ k = (k % Shades) + Shades * (k \div Shades)
  BY <1>1
<1>3. PICK q \in Int : q = k \div Shades
  BY <1>2
<1>4. PICK r \in Nat : r = k % Shades
  BY <1>2
<1>5. k = r + Shades * q /\ r < Shades
  BY <1>2, <1>3, <1>4
<1>6. ~(q < 0)
  <2>1. ASSUME q < 0 PROVE FALSE
    <3>1. Shades * q <= 0 - Shades
      BY <1>1, <2>1
    <3> QED BY <1>1, <1>5, <3>1
  <2> QED BY <2>1
<1>7. ~(q > 2)
  <2>1. ASSUME q > 2 PROVE FALSE
    <3>1. Shades * q >= 3 * Shades
      BY <1>1, <2>1
    <3> QED BY <1>1, <1>5, <3>1
  <2> QED BY <2>1
<1>8. q \in 0 .. 2 /\ r \in Reducing!Bytes
  BY <1>1, <1>5, <1>6, <1>7, ShadesPositive
<1> QED BY <1>1, <1>2, <1>3, <1>4, <1>8

\* What a result of each variant looks like.
Shapes ==
    CASE variant = "map"    -> [Reducing!Index -> Nat]
      [] variant = "keyed"  -> {p \in [1 .. 3 * Shades -> Nat \X Nat] : \A i \in 1 .. 3 * Shades : p[i][2] = i - 1}
      [] variant = "vector" -> [Reducing!Index -> Seq(Nat)]
      [] variant = "colour" -> [1 .. 3 -> [Reducing!Bytes -> Nat]]

\* What a result has counted for an index.
LEMMA KeyedValue ==
    ASSUME variant = "keyed", NEW p \in Shapes, NEW k \in Reducing!Index
    PROVE  Reducing!Value(p, k) = p[k + 1][1] /\ p[k + 1][1] \in Nat
<1> DEFINE n == 3 * Shades
           s == [i \in 1 .. n |-> IF p[i][2] = k THEN p[i][1] ELSE 0]
<1>1. p \in [1 .. n -> Nat \X Nat] /\ \A i \in 1 .. n : p[i][2] = i - 1
  BY DEF Shapes
<1>2. n \in Nat /\ k \in Nat /\ k + 1 \in 1 .. n /\ (k + 1) - 1 = k
  BY ShadesPositive
<1> HIDE DEF n
<1>3. \A i \in 1 .. n : p[i][1] \in Nat /\ p[i][2] \in Nat
  BY <1>1
<1>4. s \in Seq(Nat) /\ Len(s) = n
  BY <1>2, <1>3
<1>5. PICK j \in 1 .. n : j = k + 1
  BY <1>2
<1>6. \A i \in 1 .. n : s[i] = IF i = j THEN p[i][1] ELSE 0
  BY <1>1, <1>2, <1>5
<1>7. Reducing!Value(p, k) = Reducing!Sum(s)
  <2>1. DOMAIN p = 1 .. n
    BY <1>1
  <2> QED BY <2>1 DEF Reducing!Value
<1> HIDE DEF s
<1>8. Reducing!Sum(s) = s[j]
  BY <1>4, <1>5, <1>6, SumOne
<1> QED BY <1>3, <1>5, <1>6, <1>7, <1>8

LEMMA VectorValue ==
    ASSUME variant = "vector", REPEATS_REDUCE = 1, def_val = 0, NEW p \in Shapes, NEW k \in Reducing!Index
    PROVE  Reducing!Value(p, k) = Reducing!Sum(p[k]) /\ p[k] \in Seq(Nat)
<1>1. p[k] \in Seq(Nat)
  BY DEF Shapes
<1>2. Reducing!Value(p, k) = Reducing!ReduceAddVector(p[k])
  BY DEF Reducing!Value
<1> QED BY <1>1, <1>2, AddVectorIs

LEMMA MapValue ==
    ASSUME variant = "map", NEW p \in Shapes, NEW k \in Reducing!Index
    PROVE  Reducing!Value(p, k) = p[k] /\ p[k] \in Nat
BY DEF Shapes, Reducing!Value

LEMMA ColourValue ==
    ASSUME variant = "colour", NEW p \in Shapes, NEW k \in Reducing!Index
    PROVE  /\ Reducing!Value(p, k) = p[(k \div Shades) + 1][k % Shades]
           /\ p[(k \div Shades) + 1][k % Shades] \in Nat
<1>1. (k \div Shades) + 1 \in 1 .. 3 /\ k % Shades \in Reducing!Bytes
  <2>1. PICK q \in 0 .. 2 : q = k \div Shades
    BY ColourAndShade
  <2> QED BY <2>1, ColourAndShade
<1>2. p \in [1 .. 3 -> [Reducing!Bytes -> Nat]]
  BY DEF Shapes
<1>3. Reducing!Value(p, k) = p[(k \div Shades) + 1][k % Shades]
  BY DEF Reducing!Value
<1> QED BY <1>1, <1>2, <1>3

\* The variants.
Variants == {"map", "keyed", "vector", "colour"}

LEMMA ValueType ==
    ASSUME variant \in Variants, REPEATS_REDUCE = 1, def_val = 0, NEW p \in Shapes, NEW k \in Reducing!Index
    PROVE  Reducing!Value(p, k) \in Nat
<1>1. CASE variant = "map"
  BY <1>1, MapValue
<1>2. CASE variant = "keyed"
  BY <1>2, KeyedValue
<1>3. CASE variant = "vector"
  <2>1. Reducing!Value(p, k) = Reducing!Sum(p[k]) /\ p[k] \in Seq(Nat)
    BY <1>3, VectorValue
  <2>2. 0 \in Nat
    OBVIOUS
  <2> QED BY <2>1, <2>2, SumAppend
<1>4. CASE variant = "colour"
  BY <1>4, ColourValue
<1> QED BY <1>1, <1>2, <1>3, <1>4 DEF Variants

\* A reduction has the shape of what it reduces, and counts what both have counted.
Adds(a, b, c) == c \in Shapes /\ \A k \in Reducing!Index :
                     Reducing!Value(c, k) = Reducing!Value(a, k) + Reducing!Value(b, k)

LEMMA ReductionAdds ==
    ASSUME variant \in Variants, REPEATS_REDUCE = 1, def_val = 0, NEW a \in Shapes, NEW b \in Shapes
    PROVE  Adds(a, b, Reducing!Reduction(a, b))
<1> DEFINE c == Reducing!Reduction(a, b)
<1>1. CASE variant = "map"
  <2>1. a \in [Reducing!Index -> Nat] /\ b \in [Reducing!Index -> Nat]
    BY <1>1 DEF Shapes
  <2>2. c = Reducing!ReduceHistogramMap(a, b)
    BY <1>1 DEF Reducing!Reduction
  <2>3. c = [k \in Reducing!Index |-> a[k] + b[k]]
    BY <2>1, <2>2 DEF Reducing!ReduceHistogramMap
  <2> HIDE DEF c
  <2>4. c \in Shapes
    BY <1>1, <2>1, <2>3 DEF Shapes
  <2>5. \A k \in Reducing!Index : c[k] = a[k] + b[k]
    BY <2>3
  <2>6. \A k \in Reducing!Index : Reducing!Value(c, k) = Reducing!Value(a, k) + Reducing!Value(b, k)
    BY <1>1, <2>4, <2>5, MapValue
  <2> QED BY <2>4, <2>6 DEF Adds, c
<1>2. CASE variant = "keyed"
  <2> DEFINE n == 3 * Shades
  <2>1. /\ a \in [1 .. n -> Nat \X Nat] /\ \A i \in 1 .. n : a[i][2] = i - 1
        /\ b \in [1 .. n -> Nat \X Nat] /\ \A i \in 1 .. n : b[i][2] = i - 1
    BY <1>2 DEF Shapes
  <2>2. c = Reducing!ReduceHistogramKeyed(a, b)
    BY <1>2 DEF Reducing!Reduction
  <2>3. c = [i \in 1 .. n |-> <<a[i][1] + 1 * b[i][1], a[i][2]>>]
    BY <2>1, <2>2 DEF Reducing!ReduceHistogramKeyed
  <2> HIDE DEF c
  <2>4. ASSUME NEW i \in 1 .. n
        PROVE  c[i][1] = a[i][1] + b[i][1] /\ c[i][2] = i - 1 /\ c[i] \in Nat \X Nat
    <3>1. a[i] \in Nat \X Nat /\ b[i] \in Nat \X Nat
      BY <2>1
    <3>2. a[i][1] \in Nat /\ b[i][1] \in Nat /\ a[i][2] \in Nat /\ a[i][2] = i - 1
      BY <2>1, <3>1
    <3>3. c[i] = <<a[i][1] + 1 * b[i][1], a[i][2]>>
      BY <2>3
    <3> QED BY <3>2, <3>3
  <2>5. c \in Shapes
    <3>1. c \in [1 .. n -> Nat \X Nat]
      BY <2>3, <2>4
    <3> QED BY <1>2, <2>4, <3>1 DEF Shapes
  <2>6. ASSUME NEW k \in Reducing!Index
        PROVE  Reducing!Value(c, k) = Reducing!Value(a, k) + Reducing!Value(b, k)
    <3>1. k + 1 \in 1 .. n
      BY ShadesPositive
    <3> QED BY <1>2, <2>4, <2>5, <3>1, KeyedValue
  <2> QED BY <2>5, <2>6 DEF Adds, c
<1>3. CASE variant = "vector"
  <2>1. a \in [Reducing!Index -> Seq(Nat)] /\ b \in [Reducing!Index -> Seq(Nat)]
    BY <1>3 DEF Shapes
  <2>2. c = [k \in Reducing!Index |-> a[k] \o b[k]]
    BY <1>3 DEF Reducing!Reduction
  <2> HIDE DEF c
  <2>3. \A k \in Reducing!Index : c[k] = a[k] \o b[k] /\ c[k] \in Seq(Nat)
    BY <2>1, <2>2, ConcatProperties
  <2>4. c \in Shapes
    BY <1>3, <2>2, <2>3 DEF Shapes
  <2>5. ASSUME NEW k \in Reducing!Index
        PROVE  Reducing!Value(c, k) = Reducing!Value(a, k) + Reducing!Value(b, k)
    <3>1. Reducing!Sum(c[k]) = Reducing!Sum(a[k]) + Reducing!Sum(b[k])
      BY <2>1, <2>3, SumConcat
    <3> QED BY <1>3, <2>4, <3>1, VectorValue
  <2> QED BY <2>4, <2>5 DEF Adds, c
<1>4. CASE variant = "colour"
  <2>1. a \in [1 .. 3 -> [Reducing!Bytes -> Nat]] /\ b \in [1 .. 3 -> [Reducing!Bytes -> Nat]]
    BY <1>4 DEF Shapes
  <2>2. c = [x \in 1 .. 3 |-> Reducing!ReduceHistogram(a[x], b[x])]
    BY <1>4 DEF Reducing!Reduction
  <2> HIDE DEF c
  <2>3. \A x \in 1 .. 3 : c[x] = [y \in Reducing!Bytes |-> a[x][y] + b[x][y]]
    BY <2>1, <2>2 DEF Reducing!ReduceHistogram
  <2>4. \A x \in 1 .. 3 : c[x] \in [Reducing!Bytes -> Nat]
    BY <2>1, <2>3
  <2>5. c \in Shapes
    BY <1>4, <2>2, <2>4 DEF Shapes
  <2>6. ASSUME NEW k \in Reducing!Index
        PROVE  Reducing!Value(c, k) = Reducing!Value(a, k) + Reducing!Value(b, k)
    <3>1. PICK x \in 1 .. 3 : x = (k \div Shades) + 1
      <4>1. PICK q \in 0 .. 2 : q = k \div Shades
        BY ColourAndShade
      <4> QED BY <4>1
    <3>2. PICK y \in Reducing!Bytes : y = k % Shades
      BY ColourAndShade
    <3>3. c[x][y] = a[x][y] + b[x][y]
      BY <2>3
    <3>4. /\ Reducing!Value(c, k) = c[x][y] /\ Reducing!Value(a, k) = a[x][y]
          /\ Reducing!Value(b, k) = b[x][y]
      BY <1>4, <2>5, <3>1, <3>2, ColourValue
    <3> QED BY <3>3, <3>4
  <2> QED BY <2>5, <2>6 DEF Adds, c
<1> QED BY <1>1, <1>2, <1>3, <1>4 DEF Variants

-----------------------------------------------------------------------------
(* Decomposing.                                                            *)

\* The bytes of a piece at which index k is to be counted.
Within(bytes, start, size, k) == Reducing!Addresses(bytes, k) \cap (start + 1 .. start + size)

\* A piece of whole pixels.
Whole(bytes, start, size) ==
    /\ start \in Nat /\ size \in Nat /\ start % 3 = 0 /\ size % 3 = 0
    /\ start + size <= Len(bytes)

LEMMA AddressesFinite ==
    ASSUME NEW bytes \in Seq(Reducing!Bytes), NEW k
    PROVE  IsFiniteSet(Reducing!Addresses(bytes, k)) /\ Reducing!Addresses(bytes, k) \subseteq 1 .. Len(bytes)
<1>1. Len(bytes) \in Nat /\ DOMAIN bytes = 1 .. Len(bytes)
  BY LenProperties
<1>2. Reducing!Addresses(bytes, k) \in SUBSET (1 .. Len(bytes))
  BY <1>1 DEF Reducing!Addresses
<1>3. IsFiniteSet(1 .. Len(bytes))
  BY <1>1, FS_Interval
<1> QED BY <1>2, <1>3, FS_Subset

\* Every turn of the loop that counts index k is at a byte of its own.
LEMMA HitsAre ==
    ASSUME NEW bytes \in Seq(Reducing!Bytes), NEW start, NEW size, Whole(bytes, start, size), NEW k
    PROVE  LET H == Reducing!Hits(bytes, start, size, k)
               f == [h \in H |-> start + h[1] + h[2] + 1]
           IN  f \in Bijection(H, Within(bytes, start, size, k))
<1> DEFINE H == Reducing!Hits(bytes, start, size, k)
           W == Within(bytes, start, size, k)
           f == [h \in H |-> start + h[1] + h[2] + 1]
<1>1. PICK p \in Nat : start = 3 * p
  BY DEF Whole
<1>2. PICK q \in Nat : size = 3 * q
  BY DEF Whole
<1>3. Len(bytes) \in Nat /\ DOMAIN bytes = 1 .. Len(bytes) /\ start + size <= Len(bytes)
  BY LenProperties DEF Whole
<1>4. ASSUME NEW h \in H
      PROVE  \E x \in Nat, y \in 0 .. 2 :
                /\ h = <<3 * x, y>> /\ x < q /\ f[h] = 3 * p + 3 * x + y + 1
                /\ bytes[f[h]] + (Shades * y) = k
  <2>1. /\ h \in {i \in 0 .. size - 1 : i % 3 = 0} \X (0 .. 2)
        /\ bytes[start + h[1] + h[2] + 1] + (Shades * h[2]) = k
    BY DEF Reducing!Hits
  <2>2. PICK i \in 0 .. size - 1, y \in 0 .. 2 : h = <<i, y>> /\ i % 3 = 0
    BY <2>1
  <2>3. PICK x \in Nat : i = 3 * x
    BY <1>2, <2>2
  <2>4. x < q
    BY <1>2, <2>2, <2>3
  <2>5. f[h] = start + h[1] + h[2] + 1
    OBVIOUS
  <2>6. h[1] = i /\ h[2] = y
    BY <2>2
  <2> HIDE DEF f
  <2>7. f[h] = 3 * p + 3 * x + y + 1
    BY <1>1, <2>3, <2>5, <2>6
  <2>8. bytes[f[h]] + (Shades * y) = k
    BY <2>1, <2>5, <2>6
  <2> QED BY <2>2, <2>3, <2>4, <2>7, <2>8
<1>5. \A a : a \in W <=> /\ a \in 1 .. Len(bytes) /\ bytes[a] + (Shades * ((a - 1) % 3)) = k
                         /\ 3 * p + 1 <= a /\ a <= 3 * p + 3 * q
  BY <1>1, <1>2, <1>3 DEF Within, Reducing!Addresses
<1>6. ASSUME NEW h \in H PROVE f[h] \in W
  <2>1. PICK x \in Nat, y \in 0 .. 2 :
            /\ h = <<3 * x, y>> /\ x < q /\ f[h] = 3 * p + 3 * x + y + 1
            /\ bytes[f[h]] + (Shades * y) = k
    BY <1>4
  <2>2. PICK a \in Nat : a = f[h]
    BY <2>1
  <2> HIDE DEF f, H, W
  <2>3. a = 3 * p + 3 * x + y + 1
    BY <2>1, <2>2
  <2>4. a <= 3 * p + 3 * q /\ 3 * p + 1 <= a
    BY <2>1, <2>3
  <2>5. (a - 1) % 3 = y
    BY <2>3
  <2>6. a \in 1 .. Len(bytes)
    BY <1>1, <1>2, <1>3, <2>4
  <2> QED BY <1>5, <2>1, <2>2, <2>4, <2>5, <2>6
<1>7. ASSUME NEW h \in H, NEW g \in H, f[h] = f[g] PROVE h = g
  <2>1. PICK x \in Nat, y \in 0 .. 2 : h = <<3 * x, y>> /\ f[h] = 3 * p + 3 * x + y + 1
    BY <1>4
  <2>2. PICK u \in Nat, v \in 0 .. 2 : g = <<3 * u, v>> /\ f[g] = 3 * p + 3 * u + v + 1
    BY <1>4
  <2> HIDE DEF f, H
  <2>3. 3 * p + 3 * x + y + 1 = 3 * p + 3 * u + v + 1
    BY <1>7, <2>1, <2>2
  <2>4. x = u /\ y = v
    BY <2>3
  <2> QED BY <2>1, <2>2, <2>4
<1>8. ASSUME NEW a \in W PROVE \E h \in H : f[h] = a
  <2>1. /\ a \in 1 .. Len(bytes) /\ bytes[a] + (Shades * ((a - 1) % 3)) = k
        /\ 3 * p + 1 <= a /\ a <= 3 * p + 3 * q
    BY <1>5
  <2>2. a \in Nat
    BY <2>1
  <2> HIDE DEF W
  <2>3. PICK y \in 0 .. 2 : y = (a - 1) % 3
    BY <2>1, <2>2
  <2>4. PICK x \in Nat : a - 1 - 3 * p = 3 * x + y
    <3>1. PICK c \in Nat : c = a - 1
      BY <2>1, <2>2
    <3>2. PICK z \in Nat : c = 3 * z + y
      BY <2>3, <3>1
    <3>3. c >= 3 * p
      BY <2>1, <2>2, <3>1
    <3>4. PICK x \in Nat : x = z - p
      BY <3>2, <3>3
    <3>5. c - 3 * p = 3 * x + y
      BY <3>2, <3>4
    <3> QED BY <3>1, <3>5
  <2>5. x < q
    BY <2>1, <2>2, <2>4
  <2> DEFINE h == <<3 * x, y>>
  <2>6. 3 * x \in 0 .. size - 1 /\ (3 * x) % 3 = 0
    BY <1>2, <2>5
  <2>7. start + 3 * x + y + 1 = a
    BY <1>1, <2>2, <2>4
  <2>8. h \in {i \in 0 .. size - 1 : i % 3 = 0} \X (0 .. 2) /\ h[1] = 3 * x /\ h[2] = y
    BY <2>6
  <2> HIDE DEF h
  <2>9. bytes[start + h[1] + h[2] + 1] + (Shades * h[2]) = k
    BY <2>1, <2>3, <2>7, <2>8
  <2>10. h \in H
    BY <2>8, <2>9 DEF Reducing!Hits
  <2>11. f[h] = a
    BY <2>7, <2>8, <2>10
  <2> QED BY <2>10, <2>11
<1>9. f = [h \in H |-> f[h]]
  OBVIOUS
<1> HIDE DEF f, H, W
<1>10. f \in Bijection(H, W)
  <2>1. f \in [H -> W]
    BY <1>6, <1>9
  <2>2. f \in Injection(H, W)
    BY <1>7, <2>1 DEF Injection, IsInjective
  <2>3. f \in Surjection(H, W)
    BY <1>8, <2>1 DEF Surjection
  <2> QED BY <2>2, <2>3 DEF Bijection
<1> QED BY <1>10 DEF f, H, W

LEMMA CountIs ==
    ASSUME NEW bytes \in Seq(Reducing!Bytes), NEW start, NEW size, Whole(bytes, start, size), NEW k
    PROVE  /\ Reducing!Count(bytes, <<start, size>>, k) = Cardinality(Within(bytes, start, size, k))
           /\ Reducing!Count(bytes, <<start, size>>, k) \in Nat
<1> DEFINE H == Reducing!Hits(bytes, start, size, k)
           W == Within(bytes, start, size, k)
<1>1. IsFiniteSet(H)
  <2>1. size \in Nat
    BY DEF Whole
  <2>2. IsFiniteSet((0 .. size - 1) \X (0 .. 2))
    <3>2. 0 \in Int /\ 2 \in Int /\ size - 1 \in Int
      BY <2>1
    <3>1. IsFiniteSet(0 .. size - 1) /\ IsFiniteSet(0 .. 2)
      BY <3>2, FS_Interval
    <3> QED BY <3>1, FS_Product
  <2>3. H \in SUBSET ((0 .. size - 1) \X (0 .. 2))
    BY DEF Reducing!Hits
  <2> HIDE DEF H
  <2> QED BY <2>2, <2>3, FS_Subset
<1>2. \E f : f \in Bijection(H, W)
  BY HitsAre
<1>3. Reducing!Count(bytes, <<start, size>>, k) = Cardinality(H)
  <2>1. <<start, size>>[1] = start /\ <<start, size>>[2] = size
    OBVIOUS
  <2> QED BY <2>1, NumberOf DEF Reducing!Count
<1> HIDE DEF H, W
<1>5. Cardinality(H) = Cardinality(W) /\ Cardinality(H) \in Nat
  BY <1>1, <1>2, FS_Bijection, FS_CardinalityType DEF ExistsBijection
<1> QED BY <1>3, <1>5 DEF W

\* Pieces that can be decomposed: slices of whole pixels, or files.
Piece(piece) ==
    IF variant = "colour" THEN piece \in Files
    ELSE \E start, size : piece = <<start, size>> /\ Whole(pixels, start, size)

\* The keys of a histogram are listed in their order.
LEMMA ListedIs ==
    ASSUME NEW m \in [Reducing!Index -> Nat]
    PROVE  Reducing!Listed(m) = [i \in 1 .. 3 * Shades |-> <<m[i - 1], i - 1>>]
<1>1. PICK n \in Nat : n = 3 * Shades
  BY ShadesPositive
<1>2. DOMAIN m = 0 .. n - 1
  BY <1>1, ShadesPositive
<1> DEFINE key(i) == CHOOSE k \in DOMAIN m : Reducing!Cardinality({j \in DOMAIN m : j <= k}) = i
<1>3. ASSUME NEW k \in 0 .. n - 1 PROVE Reducing!Cardinality({j \in DOMAIN m : j <= k}) = k + 1
  <2>1. {j \in DOMAIN m : j <= k} = 0 .. k
    BY <1>2
  <2>2. k \in Nat /\ 0 \in Int /\ k \in Int
    OBVIOUS
  <2>3. Cardinality(0 .. k) = IF 0 > k THEN 0 ELSE k - 0 + 1
    BY <2>2, FS_Interval
  <2>4. (IF 0 > k THEN 0 ELSE k - 0 + 1) = k + 1
    BY <2>2
  <2>5. Reducing!Cardinality({j \in DOMAIN m : j <= k}) = Cardinality({j \in DOMAIN m : j <= k})
    BY NumberOf
  <2> HIDE DEF key
  <2> QED BY <2>1, <2>3, <2>4, <2>5
<1>4. ASSUME NEW i \in 1 .. n PROVE key(i) = i - 1
  <2>1. i - 1 \in 0 .. n - 1 /\ i - 1 + 1 = i
    OBVIOUS
  <2>2. \A k \in DOMAIN m : Reducing!Cardinality({j \in DOMAIN m : j <= k}) = i <=> k = i - 1
    <3>1. \A k \in 0 .. n - 1 : k + 1 = i <=> k = i - 1
      BY <2>1
    <3> QED BY <1>2, <1>3, <3>1
  <2> QED BY <1>2, <2>1, <2>2
<1>5. Reducing!Cardinality(DOMAIN m) = n
  <2>1. 0 \in Int /\ n - 1 \in Int
    OBVIOUS
  <2>2. Cardinality(0 .. n - 1) = IF 0 > n - 1 THEN 0 ELSE n - 1 - 0 + 1
    BY <2>1, FS_Interval
  <2>3. (IF 0 > n - 1 THEN 0 ELSE n - 1 - 0 + 1) = n
    OBVIOUS
  <2> QED BY <1>2, <2>2, <2>3, NumberOf
<1>6. Reducing!Listed(m) = [i \in 1 .. n |-> <<m[key(i)], key(i)>>]
  BY <1>5 DEF Reducing!Listed
<1> HIDE DEF key
<1>7. \A i \in 1 .. n : <<m[key(i)], key(i)>> = <<m[i - 1], i - 1>>
  BY <1>4
<1> QED BY <1>1, <1>6, <1>7

\* What a result has to tell of its piece.
Counts1(r, piece) ==
    /\ r \in Shapes
    /\ \A k \in Reducing!Index : Reducing!Value(r, k) = Cardinality(Reducing!Covers(piece, k))

LEMMA SliceCounts ==
    ASSUME variant \in Variants, variant # "colour", REPEATS_REDUCE = 1, def_val = 0,
           pixels \in Seq(Reducing!Bytes), NEW piece, Piece(piece)
    PROVE  /\ Reducing!Result(piece) # <<>> /\ Counts1(Reducing!Result(piece), piece)
           /\ \A k : IsFiniteSet(Reducing!Covers(piece, k))
<1>1. PICK start, size : piece = <<start, size>> /\ Whole(pixels, start, size)
  BY DEF Piece
<1> DEFINE r == Reducing!Result(piece)
           N(k) == Cardinality(Reducing!Covers(piece, k))
<1>2. ASSUME NEW k
      PROVE  /\ IsFiniteSet(Reducing!Covers(piece, k)) /\ N(k) \in Nat
             /\ Reducing!Count(pixels, piece, k) = N(k)
  <2>1. Reducing!Covers(piece, k) = Within(pixels, start, size, k)
    <3>1. piece[1] = start /\ piece[2] = size
      BY <1>1
    <3> QED BY <3>1 DEF Reducing!Covers, Within
  <2>2. Reducing!Covers(piece, k) \in SUBSET Reducing!Addresses(pixels, k)
    BY <2>1 DEF Within
  <2>3. IsFiniteSet(Reducing!Covers(piece, k))
    BY <2>2, AddressesFinite, FS_Subset
  <2>4. Reducing!Count(pixels, piece, k) = N(k)
    BY <1>1, <2>1, CountIs
  <2> QED BY <2>3, <2>4, FS_CardinalityType
<1> DEFINE m == Reducing!BitmapDecomposerRaw(piece)
<1>3. m \in [Reducing!Index -> Nat] /\ \A k \in Reducing!Index : m[k] = N(k)
  BY <1>2 DEF Reducing!BitmapDecomposerRaw
<1>4. 0 \in Reducing!Index /\ 3 * Shades \in Nat /\ 1 \in 1 .. 3 * Shades
  BY ShadesPositive
<1>5. CASE variant = "map"
  <2>1. r = m
    BY <1>5 DEF Reducing!Result
  <2> HIDE DEF m, r, N
  <2>2. r # <<>>
    BY <1>3, <1>4, <2>1
  <2>3. r \in Shapes
    BY <1>3, <1>5, <2>1 DEF Shapes
  <2>4. \A k \in Reducing!Index : Reducing!Value(r, k) = N(k)
    BY <1>3, <1>5, <2>1, <2>3, MapValue
  <2> QED BY <1>2, <2>2, <2>3, <2>4 DEF Counts1, N, r
<1>6. CASE variant = "keyed"
  <2>1. r = Reducing!Listed(m)
    BY <1>6 DEF Reducing!Result
  <2> HIDE DEF m, r, N
  <2>2. r = [i \in 1 .. 3 * Shades |-> <<m[i - 1], i - 1>>]
    BY <1>3, <2>1, ListedIs
  <2>3. r # <<>>
    BY <1>4, <2>2
  <2>4. \A i \in 1 .. 3 * Shades : i - 1 \in Reducing!Index /\ i - 1 \in Nat
    BY <1>4, ShadesPositive
  <2>5. ASSUME NEW i \in 1 .. 3 * Shades
        PROVE  r[i] \in Nat \X Nat /\ r[i][1] = N(i - 1) /\ r[i][2] = i - 1
    <3>1. r[i] = <<m[i - 1], i - 1>>
      BY <2>2
    <3>2. m[i - 1] \in Nat /\ m[i - 1] = N(i - 1)
      BY <1>3, <2>4
    <3> QED BY <2>4, <3>1, <3>2
  <2>6. r \in Shapes
    <3>1. r \in [1 .. 3 * Shades -> Nat \X Nat]
      BY <2>2, <2>5
    <3> QED BY <1>6, <2>5, <3>1 DEF Shapes
  <2>7. ASSUME NEW k \in Reducing!Index PROVE Reducing!Value(r, k) = N(k)
    <3>1. PICK i \in 1 .. 3 * Shades : i = k + 1 /\ i - 1 = k
      BY <1>4, ShadesPositive
    <3>2. Reducing!Value(r, k) = r[k + 1][1]
      BY <1>6, <2>6, KeyedValue
    <3>3. r[i][1] = N(i - 1)
      BY <2>5
    <3> QED BY <3>1, <3>2, <3>3
  <2> QED BY <1>2, <2>3, <2>6, <2>7 DEF Counts1, N, r
<1>7. CASE variant = "vector"
  <2>1. r = [k \in Reducing!Index |-> [n \in 1 .. N(k) |-> 1]]
    <3>1. r = Reducing!BitmapDecomposerRawVector(piece)
      BY <1>7 DEF Reducing!Result
    <3> HIDE DEF r, N
    <3> QED BY <1>2, <3>1 DEF Reducing!BitmapDecomposerRawVector
  <2> HIDE DEF m, r, N
  <2>2. r # <<>>
    BY <1>4, <2>1
  <2>3. ASSUME NEW k \in Reducing!Index PROVE r[k] \in Seq(Nat) /\ Reducing!Sum(r[k]) = N(k)
    <3>1. r[k] = [n \in 1 .. N(k) |-> 1]
      BY <2>1
    <3> QED BY <1>2, <3>1, SumOnes
  <2>4. r \in Shapes
    BY <1>7, <2>1, <2>3 DEF Shapes
  <2>5. \A k \in Reducing!Index : Reducing!Value(r, k) = N(k)
    BY <1>7, <2>3, <2>4, VectorValue
  <2> QED BY <1>2, <2>2, <2>4, <2>5 DEF Counts1, N, r
<1> QED BY <1>5, <1>6, <1>7 DEF Variants

LEMMA FileCounts ==
    ASSUME variant = "colour", NEW piece, Piece(piece)
    PROVE  /\ Reducing!Result(piece) # <<>> => Counts1(Reducing!Result(piece), piece)
           /\ Reducing!Result(piece) = <<>> => \A k : Reducing!Covers(piece, k) = {}
           /\ \A k : IsFiniteSet(Reducing!Covers(piece, k))
<1> DEFINE r == Reducing!Result(piece)
           bytes == piece.pixels
<1>1. r = Reducing!BitmapDecomposer(piece) /\ (Reducing!Acceptable(piece) <=> r # <<>>)
  BY DEF Reducing!Result, Reducing!Acceptable
<1>2. bytes \in Seq(Reducing!Bytes) /\ Len(bytes) % 3 = 0
  <2>1. piece \in Files
    BY DEF Piece
  <2>2. piece.pixels \in Seq(Reducing!Bytes) /\ Len(piece.pixels) % 3 = 0
    BY <2>1, InstancesAssumption DEF Reducing!FilesAssumption
  <2> QED BY <2>2
<1>3. Whole(bytes, 0, Len(bytes))
  <2> HIDE DEF bytes
  <2>1. PICK n \in Nat : n = Len(bytes)
    BY <1>2, LenProperties
  <2>2. n % 3 = 0
    BY <1>2, <2>1
  <2>3. Whole(bytes, 0, n)
    BY <2>1, <2>2 DEF Whole
  <2> QED BY <2>1, <2>3
<1>4. CASE r = <<>>
  <2>1. \A k : Reducing!Covers(piece, k) = {}
    BY <1>1, <1>4 DEF Reducing!Covers
  <2> QED BY <1>4, <2>1, FS_EmptySet
<1>5. CASE r # <<>>
  <2> HIDE DEF bytes
  <2>1. ASSUME NEW k
        PROVE  /\ Reducing!Covers(piece, k) = Within(bytes, 0, Len(bytes), k)
               /\ IsFiniteSet(Reducing!Covers(piece, k))
    <3>1. Reducing!Covers(piece, k) = Reducing!Addresses(bytes, k)
      BY <1>1, <1>5 DEF Reducing!Covers, bytes
    <3>2. IsFiniteSet(Reducing!Addresses(bytes, k)) /\ Reducing!Addresses(bytes, k) \subseteq 1 .. Len(bytes)
      BY <1>2, AddressesFinite
    <3>3. Within(bytes, 0, Len(bytes), k) = Reducing!Addresses(bytes, k)
      <4>1. 0 + 1 .. 0 + Len(bytes) = 1 .. Len(bytes)
        BY <1>2, LenProperties
      <4> QED BY <3>2, <4>1 DEF Within
    <3> QED BY <3>1, <3>2, <3>3
  <2>2. \A k : /\ Reducing!Count(bytes, <<0, Len(bytes)>>, k) = Cardinality(Reducing!Covers(piece, k))
               /\ Reducing!Count(bytes, <<0, Len(bytes)>>, k) \in Nat
    BY <1>2, <1>3, <2>1, CountIs
  <2>3. r = [c \in 1 .. 3 |-> [b \in Reducing!Bytes |->
                Reducing!Count(bytes, <<0, Len(bytes)>>, b + (Shades * (c - 1)))]]
    BY <1>1, <1>5 DEF Reducing!BitmapDecomposer, bytes
  <2> HIDE DEF r
  <2>4. r \in Shapes
    BY <2>2, <2>3 DEF Shapes
  <2>5. ASSUME NEW k \in Reducing!Index
        PROVE  Reducing!Value(r, k) = Cardinality(Reducing!Covers(piece, k))
    <3>1. PICK q \in 0 .. 2 : q = k \div Shades
      BY ColourAndShade
    <3>2. PICK b \in Reducing!Bytes : b = k % Shades
      BY ColourAndShade
    <3>3. k = b + Shades * q
      BY <3>1, <3>2, ColourAndShade
    <3>4. q + 1 \in 1 .. 3 /\ q + 1 - 1 = q
      BY <3>1
    <3>5. r[q + 1][b] = Reducing!Count(bytes, <<0, Len(bytes)>>, b + (Shades * (q + 1 - 1)))
      BY <2>3, <3>2, <3>4
    <3>6. Reducing!Value(r, k) = r[q + 1][b]
      BY <2>4, <3>1, <3>2, ColourValue
    <3>7. Reducing!Value(r, k) = Reducing!Count(bytes, <<0, Len(bytes)>>, k)
      BY <3>3, <3>4, <3>5, <3>6
    <3> QED BY <2>2, <3>7
  <2> QED BY <1>5, <2>1, <2>4, <2>5 DEF Counts1, r
<1> QED BY <1>4, <1>5

-----------------------------------------------------------------------------
(* What pieces have left to count, and what results have counted.          *)

LEMMA LeftIs ==
    ASSUME NEW set, NEW k, NEW x
    PROVE  x \in Reducing!Left(set, k) <=> \E piece \in set : \E a \in Reducing!Covers(piece, k) : x = <<piece, a>>
BY DEF Reducing!Left

LEMMA LeftFinite ==
    ASSUME NEW set, IsFiniteSet(set), NEW k, \A piece \in set : IsFiniteSet(Reducing!Covers(piece, k))
    PROVE  IsFiniteSet(Reducing!Left(set, k)) /\ Cardinality(Reducing!Left(set, k)) \in Nat
<1> DEFINE f == [piece \in set |-> {piece} \X Reducing!Covers(piece, k)]
           T == {{piece} \X Reducing!Covers(piece, k) : piece \in set}
<1>1. f \in Surjection(set, T)
  BY DEF Surjection
<1>2. IsFiniteSet(T)
  BY <1>1, FS_Surjection
<1>3. \A piece \in set : IsFiniteSet({piece} \X Reducing!Covers(piece, k))
  BY FS_Singleton, FS_Product
<1>4. \A t \in T : IsFiniteSet(t)
  BY <1>3
<1> HIDE DEF f, T
<1>5. IsFiniteSet(UNION T)
  BY <1>2, <1>4, FS_UNION
<1> QED BY <1>5, FS_CardinalityType DEF T, Reducing!Left

LEMMA LeftRemove ==
    ASSUME NEW set, IsFiniteSet(set), NEW k, \A piece \in set : IsFiniteSet(Reducing!Covers(piece, k)),
           NEW gone \in set
    PROVE  /\ Cardinality(Reducing!Left(set, k)) =
                  Cardinality(Reducing!Left(set \ {gone}, k)) + Cardinality(Reducing!Covers(gone, k))
           /\ Cardinality(Reducing!Left(set \ {gone}, k)) \in Nat
           /\ Cardinality(Reducing!Covers(gone, k)) \in Nat
<1> DEFINE L == Reducing!Left(set \ {gone}, k)
           C == Reducing!Covers(gone, k)
           P == {gone} \X C
<1>1. IsFiniteSet(set \ {gone}) /\ \A piece \in set \ {gone} : IsFiniteSet(Reducing!Covers(piece, k))
  BY FS_RemoveElement
<1>2. IsFiniteSet(L) /\ Cardinality(L) \in Nat
  BY <1>1, LeftFinite
<1>3. IsFiniteSet(C) /\ Cardinality(C) \in Nat
  BY FS_CardinalityType
<1>4. IsFiniteSet(P) /\ Cardinality(P) = Cardinality(C)
  <2>1. IsFiniteSet({gone}) /\ Cardinality({gone}) = 1
    BY FS_Singleton
  <2> HIDE DEF C
  <2>2. IsFiniteSet(P) /\ Cardinality(P) = 1 * Cardinality(C)
    BY <1>3, <2>1, FS_Product
  <2> HIDE DEF P
  <2> QED BY <1>3, <2>2
<1>5. Reducing!Left(set, k) = L \cup P
  <2>1. \A x : x \in Reducing!Left(set, k) <=> x \in L \/ x \in P
    BY LeftIs
  <2> HIDE DEF L, P
  <2> QED BY <2>1
<1>6. L \cap P = {}
  <2>1. ASSUME NEW x \in L, x \in P PROVE FALSE
    <3>1. PICK piece \in set \ {gone} : \E a \in Reducing!Covers(piece, k) : x = <<piece, a>>
      BY <2>1, LeftIs
    <3> QED BY <2>1, <3>1
  <2> QED BY <2>1
<1> HIDE DEF L, P, C
<1>7. Cardinality(L \cup P) = Cardinality(L) + Cardinality(P) - Cardinality(L \cap P)
  BY <1>2, <1>4, FS_Union
<1>8. Cardinality(L \cap P) = 0
  BY <1>6, FS_EmptySet
<1>9. Cardinality(L \cup P) = Cardinality(L) + Cardinality(C)
  BY <1>2, <1>3, <1>4, <1>7, <1>8
<1> QED BY <1>2, <1>3, <1>5, <1>9 DEF L, C

\* What the results have counted for an index.
ValuesOf(parts, k) == [n \in DOMAIN parts |-> Reducing!Value(parts[n], k)]

Total(parts, k) == Reducing!Sum(ValuesOf(parts, k))

\* The constants of the program.
OfProgram == variant \in Variants /\ REPEATS_REDUCE = 1 /\ def_val = 0

LEMMA ValuesAre ==
    ASSUME OfProgram, NEW parts \in Seq(Shapes), NEW k \in Reducing!Index
    PROVE  /\ ValuesOf(parts, k) \in Seq(Nat) /\ Len(ValuesOf(parts, k)) = Len(parts)
           /\ \A n \in 1 .. Len(parts) : ValuesOf(parts, k)[n] = Reducing!Value(parts[n], k)
<1>1. PICK n \in Nat : n = Len(parts) /\ DOMAIN parts = 1 .. n
  BY LenProperties
<1>2. \A i \in 1 .. n : Reducing!Value(parts[i], k) \in Nat
  BY <1>1, ElementOfSeq, ValueType DEF OfProgram
<1>3. ValuesOf(parts, k) = [i \in 1 .. n |-> Reducing!Value(parts[i], k)]
  BY <1>1 DEF ValuesOf
<1>4. ValuesOf(parts, k) \in Seq(Nat) /\ Len(ValuesOf(parts, k)) = n
  <2> DEFINE v == [i \in 1 .. n |-> Reducing!Value(parts[i], k)]
  <2>1. v \in [1 .. n -> Nat]
    BY <1>2
  <2> HIDE DEF v
  <2>2. v \in Seq(Nat) /\ DOMAIN v = 1 .. n
    BY <2>1, SeqDef
  <2>3. Len(v) = n
    BY <2>1
  <2> QED BY <1>3, <2>2, <2>3 DEF v
<1> QED BY <1>1, <1>3, <1>4

LEMMA TotalAppend ==
    ASSUME OfProgram, NEW parts \in Seq(Shapes), NEW r \in Shapes, NEW k \in Reducing!Index
    PROVE  /\ Total(parts, k) \in Nat /\ Reducing!Value(r, k) \in Nat
           /\ Total(Append(parts, r), k) = Total(parts, k) + Reducing!Value(r, k)
<1> DEFINE v == ValuesOf(parts, k)
           x == Reducing!Value(r, k)
           more == Append(parts, r)
           w == ValuesOf(more, k)
<1>1. PICK n \in Nat : n = Len(parts)
  BY LenProperties
<1>2. /\ more \in Seq(Shapes) /\ Len(more) = n + 1 /\ more[n + 1] = r
      /\ \A i \in 1 .. n : more[i] = parts[i]
  BY <1>1, AppendProperties
<1>3. x \in Nat
  BY ValueType DEF OfProgram
<1> HIDE DEF more
<1>4. v \in Seq(Nat) /\ Len(v) = n /\ \A i \in 1 .. n : v[i] = Reducing!Value(parts[i], k)
  BY <1>1, ValuesAre
<1>5. w \in Seq(Nat) /\ Len(w) = n + 1 /\ \A i \in 1 .. n + 1 : w[i] = Reducing!Value(more[i], k)
  <2>1. w \in Seq(Nat) /\ Len(w) = Len(more) /\ \A i \in 1 .. Len(more) : w[i] = Reducing!Value(more[i], k)
    BY <1>2, ValuesAre
  <2> HIDE DEF w
  <2> QED BY <1>2, <2>1
<1> HIDE DEF v, w
<1>6. w[n + 1] = x /\ \A i \in 1 .. n : w[i] = v[i]
  <2>1. n + 1 \in 1 .. n + 1 /\ \A i \in 1 .. n : i \in 1 .. n + 1
    OBVIOUS
  <2> QED BY <1>2, <1>4, <1>5, <2>1
<1> HIDE DEF x
<1>7. w = Append(v, x)
  <2> DEFINE u == Append(v, x)
  <2>1. u \in Seq(Nat) /\ Len(u) = n + 1 /\ u[n + 1] = x /\ \A i \in 1 .. n : u[i] = v[i]
    BY <1>3, <1>4, AppendProperties
  <2> HIDE DEF u
  <2>2. ASSUME NEW i \in 1 .. n + 1 PROVE w[i] = u[i]
    <3>1. i = n + 1 \/ i \in 1 .. n
      OBVIOUS
    <3> QED BY <1>6, <2>1, <3>1
  <2>3. w = u
    BY <1>5, <2>1, <2>2, SeqEqual
  <2> QED BY <2>3 DEF u
<1>8. Reducing!Sum(v) \in Nat /\ Reducing!Sum(w) = Reducing!Sum(v) + x
  BY <1>3, <1>4, <1>7, SumAppend
<1> QED BY <1>3, <1>8 DEF Total, v, w, x, more

LEMMA TotalWithout ==
    ASSUME OfProgram, NEW parts \in Seq(Shapes), NEW t \in Seq(Shapes), NEW j \in 1 .. Len(parts),
           Without(parts, j, t), NEW k \in Reducing!Index
    PROVE  Total(parts, k) = Total(t, k) + Reducing!Value(parts[j], k)
<1> DEFINE v == ValuesOf(parts, k)
           w == ValuesOf(t, k)
<1>1. PICK n \in Nat : n = Len(parts)
  BY LenProperties
<1>2. PICK m \in Nat : m = Len(t)
  BY LenProperties
<1>3. m = n - 1 /\ j \in 1 .. n /\ \A i \in 1 .. m : t[i] = IF i < j THEN parts[i] ELSE parts[i + 1]
  BY <1>1, <1>2 DEF Without
<1>4. v \in Seq(Nat) /\ Len(v) = n /\ \A i \in 1 .. n : v[i] = Reducing!Value(parts[i], k)
  BY <1>1, ValuesAre
<1>5. w \in Seq(Nat) /\ Len(w) = m /\ \A i \in 1 .. m : w[i] = Reducing!Value(t[i], k)
  BY <1>2, ValuesAre
<1> HIDE DEF v, w
<1>6. ASSUME NEW i \in 1 .. m PROVE w[i] = IF i < j THEN v[i] ELSE v[i + 1]
  <2>1. i \in 1 .. n /\ i + 1 \in 1 .. n
    BY <1>3
  <2> QED BY <1>3, <1>4, <1>5, <2>1
<1>7. Without(v, j, w)
  BY <1>3, <1>4, <1>5, <1>6 DEF Without
<1>8. Reducing!Sum(v) = Reducing!Sum(w) + v[j]
  BY <1>3, <1>4, <1>5, <1>7, SumWithout
<1>9. v[j] = Reducing!Value(parts[j], k)
  BY <1>3, <1>4
<1> QED BY <1>8, <1>9 DEF Total, v, w

\* A reduction in pairs loses nothing and adds nothing.
Reduced2(parts, i, j) ==
    Append(Reducing!RemoveAt(Reducing!RemoveAt(parts, IF i > j THEN i ELSE j), IF i > j THEN j ELSE i),
           Reducing!Reduction(parts[i], parts[j]))

LEMMA TotalReduced ==
    ASSUME OfProgram, NEW parts \in Seq(Shapes), NEW i \in 1 .. Len(parts), NEW j \in 1 .. Len(parts), i # j
    PROVE  /\ Reduced2(parts, i, j) \in Seq(Shapes)
           /\ \A k \in Reducing!Index : Total(Reduced2(parts, i, j), k) = Total(parts, k)
<1>1. PICK n \in Nat : n = Len(parts)
  BY LenProperties
<1>2. i \in 1 .. n /\ j \in 1 .. n
  BY <1>1
<1>3. PICK hi \in 1 .. n : hi = IF i > j THEN i ELSE j
  BY <1>2
<1>4. PICK lo \in 1 .. n : lo = IF i > j THEN j ELSE i
  BY <1>2
<1>5. lo < hi /\ ((lo = i /\ hi = j) \/ (lo = j /\ hi = i))
  BY <1>2, <1>3, <1>4
<1> DEFINE r == Reducing!Reduction(parts[i], parts[j])
<1>6. parts[i] \in Shapes /\ parts[j] \in Shapes
  BY ElementOfSeq
<1>7. Adds(parts[i], parts[j], r)
  BY <1>6, ReductionAdds DEF OfProgram
<1> HIDE DEF r
<1>8. PICK t : t = Reducing!RemoveAt(parts, hi)
  OBVIOUS
<1>9. t \in Seq(Shapes) /\ Without(parts, hi, t)
  <2>1. hi \in 1 .. Len(parts)
    BY <1>1
  <2> QED BY <1>8, <2>1, RemoveAtIs
<1>10. Len(t) = n - 1 /\ lo \in 1 .. Len(t) /\ t[lo] = parts[lo]
  BY <1>1, <1>3, <1>4, <1>5, <1>9 DEF Without
<1>11. PICK u : u = Reducing!RemoveAt(t, lo)
  OBVIOUS
<1>12. u \in Seq(Shapes) /\ Without(t, lo, u)
  BY <1>9, <1>10, <1>11, RemoveAtIs
<1>13. Reduced2(parts, i, j) = Append(u, r)
  BY <1>3, <1>4, <1>8, <1>11 DEF Reduced2, r
<1>14. r \in Shapes
  BY <1>7 DEF Adds
<1>15. Append(u, r) \in Seq(Shapes)
  BY <1>12, <1>14, AppendProperties
<1>16. ASSUME NEW k \in Reducing!Index PROVE Total(Append(u, r), k) = Total(parts, k)
  <2>1. Total(parts, k) = Total(t, k) + Reducing!Value(parts[hi], k)
    <3>1. hi \in 1 .. Len(parts)
      BY <1>1
    <3> QED BY <1>9, <3>1, TotalWithout
  <2>2. Total(t, k) = Total(u, k) + Reducing!Value(parts[lo], k)
    BY <1>9, <1>10, <1>12, TotalWithout
  <2>3. Total(Append(u, r), k) = Total(u, k) + Reducing!Value(r, k) /\ Total(u, k) \in Nat
    BY <1>12, <1>14, TotalAppend
  <2>4. Reducing!Value(r, k) = Reducing!Value(parts[i], k) + Reducing!Value(parts[j], k)
    BY <1>7 DEF Adds
  <2>5. Reducing!Value(parts[i], k) \in Nat /\ Reducing!Value(parts[j], k) \in Nat
    BY <1>6, ValueType DEF OfProgram
  <2>6. CASE lo = i /\ hi = j
    BY <2>1, <2>2, <2>3, <2>4, <2>5, <2>6
  <2>7. CASE lo = j /\ hi = i
    BY <2>1, <2>2, <2>3, <2>4, <2>5, <2>7
  <2> QED BY <1>5, <2>6, <2>7
<1> QED BY <1>13, <1>15, <1>16

-----------------------------------------------------------------------------
(* Cutting.                                                                *)

\* Where slices end and begin.
SliceEnds(bounds) == bounds \union {Len(pixels)}

Starts(bounds) == (bounds \union {0}) \ {Len(pixels)}

NextEnd(bounds, s) == CHOOSE e \in SliceEnds(bounds) : e > s /\ \A d \in SliceEnds(bounds) : d > s => e <= d

Slices(bounds) == {<<s, NextEnd(bounds, s) - s>> : s \in Starts(bounds)}

\* Boundaries of pixels.
Boundaries == SUBSET {b \in 1 .. Len(pixels) - 1 : b % 3 = 0}

LEMMA NextEndIs ==
    ASSUME pixels \in Seq(Reducing!Bytes), NEW bounds \in Boundaries, NEW s \in Starts(bounds)
    PROVE  /\ NextEnd(bounds, s) \in SliceEnds(bounds) /\ NextEnd(bounds, s) > s
           /\ \A d \in SliceEnds(bounds) : d > s => NextEnd(bounds, s) <= d
           /\ s \in Nat /\ s < Len(pixels) /\ (s = 0 \/ s \in bounds)
           /\ \A d \in SliceEnds(bounds) : d \in Nat /\ d <= Len(pixels)
<1>1. Len(pixels) \in Nat
  BY LenProperties
<1>2. \A b \in bounds : b \in 1 .. Len(pixels) - 1
  BY DEF Boundaries
<1>3. s \in Nat /\ s < Len(pixels) /\ (s = 0 \/ s \in bounds)
  <2>1. (s \in bounds \/ s = 0) /\ s # Len(pixels)
    BY DEF Starts
  <2> QED BY <1>1, <1>2, <2>1
<1>4. \A d \in SliceEnds(bounds) : d \in Nat /\ d <= Len(pixels)
  BY <1>1, <1>2 DEF SliceEnds
<1> DEFINE T == {d \in SliceEnds(bounds) : d > s}
<1>5. T \in SUBSET Nat /\ T # {}
  <2>1. Len(pixels) \in T
    BY <1>1, <1>3 DEF SliceEnds
  <2> QED BY <1>4, <2>1
<1>6. PICK e \in T : \A d \in T : e <= d
  <2> HIDE DEF T
  <2> QED BY <1>5, Smallest
<1>7. e \in SliceEnds(bounds) /\ e > s /\ \A d \in SliceEnds(bounds) : d > s => e <= d
  BY <1>6
<1> QED BY <1>3, <1>4, <1>7 DEF NextEnd

\* Slices are of whole pixels.
LEMMA SlicesWhole ==
    ASSUME pixels \in Seq(Reducing!Bytes), Len(pixels) % 3 = 0, NEW bounds \in Boundaries
    PROVE  /\ IsFiniteSet(Slices(bounds))
           /\ \A piece \in Slices(bounds) : \E start, size : piece = <<start, size>> /\ Whole(pixels, start, size)
<1>1. IsFiniteSet(Slices(bounds))
  <2>1. Len(pixels) \in Nat /\ 0 \in Int /\ Len(pixels) \in Int
    BY LenProperties
  <2>2. IsFiniteSet(0 .. Len(pixels))
    BY <2>1, FS_Interval
  <2>3. Starts(bounds) \in SUBSET (0 .. Len(pixels))
    <3>1. PICK n \in Nat : n = Len(pixels)
      BY <2>1
    <3>2. \A s \in Starts(bounds) : s \in Nat /\ s < n
      BY <3>1, NextEndIs
    <3>3. \A s \in Starts(bounds) : s \in 0 .. n
      BY <3>2
    <3> QED BY <3>1, <3>3
  <2>4. IsFiniteSet(Starts(bounds))
    BY <2>2, <2>3, FS_Subset
  <2> DEFINE f == [s \in Starts(bounds) |-> <<s, NextEnd(bounds, s) - s>>]
  <2>5. f \in Surjection(Starts(bounds), Slices(bounds))
    BY DEF Surjection, Slices
  <2> QED BY <2>4, <2>5, FS_Surjection
<1>2. ASSUME NEW s \in Starts(bounds) PROVE Whole(pixels, s, NextEnd(bounds, s) - s)
  <2>1. PICK e : e = NextEnd(bounds, s)
    OBVIOUS
  <2>2. /\ e \in SliceEnds(bounds) /\ e > s /\ s \in Nat /\ (s = 0 \/ s \in bounds)
        /\ e \in Nat /\ e <= Len(pixels)
    BY <2>1, NextEndIs
  <2>3. s % 3 = 0
    BY <2>2 DEF Boundaries
  <2>4. e % 3 = 0
    BY <2>2 DEF SliceEnds, Boundaries
  <2>5. PICK n \in Nat : n = Len(pixels)
    BY LenProperties
  <2>6. /\ e - s \in Nat /\ (e - s) % 3 = 0 /\ s + (e - s) <= n
    <3>1. PICK a \in Nat : s = 3 * a
      BY <2>2, <2>3
    <3>2. PICK b \in Nat : e = 3 * b
      BY <2>2, <2>4
    <3>3. PICK c \in Nat : c = b - a
      BY <2>2, <3>1, <3>2
    <3>4. e - s = 3 * c
      BY <3>1, <3>2, <3>3
    <3> QED BY <2>2, <2>5, <3>4
  <2> QED BY <2>1, <2>2, <2>3, <2>5, <2>6 DEF Whole
<1> QED BY <1>1, <1>2 DEF Slices

\* Every byte is in one slice.
LEMMA SlicesCover ==
    ASSUME pixels \in Seq(Reducing!Bytes), Len(pixels) % 3 = 0, NEW bounds \in Boundaries,
           variant \in Variants, variant # "colour", NEW k
    PROVE  Cardinality(Reducing!Left(Slices(bounds), k)) = Cardinality(Reducing!Addresses(pixels, k))
<1> DEFINE A == Reducing!Addresses(pixels, k)
           L == Reducing!Left(Slices(bounds), k)
           g == [x \in L |-> x[2]]
<1>1. IsFiniteSet(A) /\ \A a \in A : a \in 1 .. Len(pixels)
  BY AddressesFinite
<1>2. PICK n \in Nat : n = Len(pixels)
  BY LenProperties
<1> HIDE DEF A
<1>3. \A piece \in Slices(bounds) : IsFiniteSet(Reducing!Covers(piece, k))
  <2> SUFFICES ASSUME NEW piece \in Slices(bounds) PROVE IsFiniteSet(Reducing!Covers(piece, k))
    OBVIOUS
  <2>1. Reducing!Covers(piece, k) \in SUBSET A
    BY DEF Reducing!Covers, A
  <2> QED BY <1>1, <2>1, FS_Subset
<1>4. IsFiniteSet(L)
  BY <1>3, SlicesWhole, LeftFinite
<1>5. ASSUME NEW x
      PROVE  x \in L <=> \E s \in Starts(bounds) : \E a \in A :
                            x = <<<<s, NextEnd(bounds, s) - s>>, a>> /\ s + 1 <= a /\ a <= NextEnd(bounds, s)
  <2>1. ASSUME NEW s \in Starts(bounds), NEW a
        PROVE  a \in Reducing!Covers(<<s, NextEnd(bounds, s) - s>>, k)
                    <=> a \in A /\ s + 1 <= a /\ a <= NextEnd(bounds, s)
    <3>1. PICK e \in Nat : e = NextEnd(bounds, s)
      BY NextEndIs
    <3>2. s \in Nat /\ s + (e - s) = e
      BY <3>1, NextEndIs
    <3> DEFINE p == <<s, e - s>>
    <3>3. p[1] = s /\ p[2] = e - s
      OBVIOUS
    <3> HIDE DEF p
    <3>4. Reducing!Covers(p, k) = A \cap (s + 1 .. e)
      BY <3>2, <3>3 DEF Reducing!Covers, A
    <3>5. \A b \in A : b \in Int
      BY <1>1
    <3>6. a \in A \cap (s + 1 .. e) <=> a \in A /\ s + 1 <= a /\ a <= e
      BY <3>2, <3>5
    <3> QED BY <3>1, <3>4, <3>6 DEF p
  <2>2. x \in L <=> \E piece \in Slices(bounds) : \E a \in Reducing!Covers(piece, k) : x = <<piece, a>>
    BY LeftIs
  <2> HIDE DEF L
  <2>3. x \in L <=> \E s \in Starts(bounds) : \E a \in Reducing!Covers(<<s, NextEnd(bounds, s) - s>>, k) :
                        x = <<<<s, NextEnd(bounds, s) - s>>, a>>
    BY <2>2 DEF Slices
  <2> QED BY <2>1, <2>3
<1>6. g \in [L -> A]
  <2>1. \A x \in L : x[2] \in A
    BY <1>5
  <2> HIDE DEF L
  <2> QED BY <2>1
<1>7. ASSUME NEW x \in L, NEW y \in L, x[2] = y[2] PROVE x = y
  <2>1. PICK s \in Starts(bounds) : \E a \in A :
            x = <<<<s, NextEnd(bounds, s) - s>>, a>> /\ s + 1 <= a /\ a <= NextEnd(bounds, s)
    BY <1>5
  <2>2. PICK t \in Starts(bounds) : \E a \in A :
            y = <<<<t, NextEnd(bounds, t) - t>>, a>> /\ t + 1 <= a /\ a <= NextEnd(bounds, t)
    BY <1>5
  <2> HIDE DEF L
  <2>3. PICK a \in A : /\ x = <<<<s, NextEnd(bounds, s) - s>>, a>> /\ y = <<<<t, NextEnd(bounds, t) - t>>, a>>
                       /\ s + 1 <= a /\ a <= NextEnd(bounds, s) /\ t + 1 <= a /\ a <= NextEnd(bounds, t)
    BY <1>7, <2>1, <2>2
  <2>4. /\ s \in Nat /\ t \in Nat /\ a \in Nat
        /\ NextEnd(bounds, s) \in Nat /\ NextEnd(bounds, t) \in Nat
        /\ (s = 0 \/ s \in bounds) /\ (t = 0 \/ t \in bounds)
        /\ \A d \in SliceEnds(bounds) : d > s => NextEnd(bounds, s) <= d
        /\ \A d \in SliceEnds(bounds) : d > t => NextEnd(bounds, t) <= d
    BY <1>1, NextEndIs
  <2>5. ~(s < t)
    <3>1. ASSUME s < t PROVE FALSE
      <4>1. t \in SliceEnds(bounds)
        BY <2>4, <3>1 DEF SliceEnds
      <4>2. NextEnd(bounds, s) <= t
        BY <2>4, <3>1, <4>1
      <4> QED BY <2>3, <2>4, <4>2
    <3> QED BY <3>1
  <2>6. ~(t < s)
    <3>1. ASSUME t < s PROVE FALSE
      <4>1. s \in SliceEnds(bounds)
        BY <2>4, <3>1 DEF SliceEnds
      <4>2. NextEnd(bounds, t) <= s
        BY <2>4, <3>1, <4>1
      <4> QED BY <2>3, <2>4, <4>2
    <3> QED BY <3>1
  <2>7. s = t
    BY <2>4, <2>5, <2>6
  <2> QED BY <2>3, <2>7
<1>8. ASSUME NEW a \in A PROVE \E x \in L : x[2] = a
  <2>1. a \in 1 .. n
    BY <1>1, <1>2
  <2> DEFINE T == {s \in Starts(bounds) : s < a}
  <2>2. 0 \in T
    BY <1>2, <2>1 DEF Starts
  <2>3. T \in SUBSET (0 .. n)
    BY <1>2, NextEndIs
  <2>4. IsFiniteSet(T)
    <3>1. IsFiniteSet(0 .. n)
      <4>1. 0 \in Int /\ n \in Int
        OBVIOUS
      <4> QED BY <4>1, FS_Interval
    <3> HIDE DEF T
    <3> QED BY <2>3, <3>1, FS_Subset
  <2>5. PICK s \in T : \A t \in T : t <= s
    <3> HIDE DEF T
    <3>1. T \in SUBSET Nat /\ T # {}
      BY <2>2, <2>3
    <3> QED BY <2>4, <3>1, Largest
  <2>6. PICK e : e = NextEnd(bounds, s)
    OBVIOUS
  <2>7. s \in Starts(bounds) /\ s \in Nat /\ s < a
    BY <2>3, <2>5
  <2>8. e \in SliceEnds(bounds) /\ e > s /\ e \in Nat /\ e <= n
    BY <1>2, <2>6, <2>7, NextEndIs
  <2>9. a <= e
    <3>1. ASSUME e < a PROVE FALSE
      <4>1. e # n
        BY <2>1, <3>1
      <4>2. e \in Starts(bounds)
        BY <1>2, <2>8, <4>1 DEF SliceEnds, Starts
      <4>3. e \in T
        BY <3>1, <4>2
      <4> QED BY <2>5, <2>7, <2>8, <4>3
    <3> QED BY <2>1, <2>8, <3>1
  <2> DEFINE x == <<<<s, NextEnd(bounds, s) - s>>, a>>
  <2>10. s + 1 <= a
    BY <2>1, <2>7
  <2>11. x \in L
    BY <1>5, <2>6, <2>7, <2>9, <2>10
  <2>12. x[2] = a
    OBVIOUS
  <2> QED BY <2>11, <2>12
<1> HIDE DEF L
<1>9. g \in Bijection(L, A)
  <2>1. \A x \in L : g[x] = x[2]
    OBVIOUS
  <2> HIDE DEF g
  <2>2. g \in Injection(L, A)
    BY <1>6, <1>7, <2>1 DEF Injection, IsInjective
  <2>3. g \in Surjection(L, A)
    BY <1>6, <1>8, <2>1 DEF Surjection
  <2> QED BY <2>2, <2>3 DEF Bijection
<1> HIDE DEF g
<1>10. Cardinality(A) = Cardinality(L)
  BY <1>4, <1>9, FS_Bijection DEF ExistsBijection
<1> QED BY <1>10 DEF A, L

-----------------------------------------------------------------------------
(* The invariant.                                                          *)

\* The files that both readers accept.
LEMMA AcceptableIs ==
    ASSUME NEW f \in Files
    PROVE  /\ Reducing!Acceptable(f) <=> Reducing!getFileData(f) # {}
           /\ Reducing!getFileData(f) # {} => Reducing!getFileData(f) = {f.pixels}
           /\ f.pixels \in Seq(Reducing!Bytes) /\ Len(f.pixels) % 3 = 0
<1> DEFINE refused == ~f.good \/ f.position < 0 \/ f.magic # "BM" \/ f.bpp # 24 \/ f.comp # 0
           H == [c \in 1 .. 3 |-> [b \in Reducing!Bytes |->
                    Reducing!Count(f.pixels, <<0, Len(f.pixels)>>, b + (Shades * (c - 1)))]]
<1>1. /\ f.good \in BOOLEAN /\ f.position \in Int
      /\ f.pixels \in Seq(Reducing!Bytes) /\ Len(f.pixels) % 3 = 0
  BY InstancesAssumption DEF Reducing!FilesAssumption
<1>2. f.position >= 0 <=> ~(f.position < 0)
  BY <1>1
<1>3. (f.good /\ f.position >= 0 /\ f.magic = "BM" /\ f.bpp = 24 /\ f.comp = 0) <=> ~refused
  BY <1>1, <1>2
<1>4. H # <<>>
  <2>1. DOMAIN H = 1 .. 3
    OBVIOUS
  <2> HIDE DEF H
  <2>2. DOMAIN H # {}
    BY <2>1
  <2>3. ASSUME H = <<>> PROVE FALSE
    <3>1. DOMAIN <<>> = {}
      OBVIOUS
    <3> QED BY <2>2, <2>3, <3>1
  <2> QED BY <2>3
<1>5. Reducing!BitmapDecomposer(f) = IF refused THEN <<>> ELSE H
  BY DEF Reducing!BitmapDecomposer
<1> HIDE DEF H, refused
<1>6. Reducing!Acceptable(f) <=> ~refused
  BY <1>4, <1>5 DEF Reducing!Acceptable
<1>7. Reducing!getFileData(f) = IF ~refused THEN {f.pixels} ELSE {}
  <2> DEFINE taken == f.good /\ f.position >= 0 /\ f.magic = "BM" /\ f.bpp = 24 /\ f.comp = 0
  <2>1. Reducing!getFileData(f) = IF taken THEN {f.pixels} ELSE {}
    BY DEF Reducing!getFileData
  <2>2. taken <=> ~refused
    BY <1>3
  <2> HIDE DEF taken
  <2> QED BY <2>1, <2>2
<1> QED BY <1>1, <1>6, <1>7

\* The directory is read before the pixels are cut, and these are cut before the work begins.
HistogramInv ==
    /\ variant \in Variants /\ phase \in {"load", "cut", "work", "nothing"}
    /\ variant = "colour" => phase = "work"
    /\ path \in SUBSET Files /\ dir \in SUBSET path
    /\ pixels \in Seq(Reducing!Bytes) /\ Len(pixels) % 3 = 0
    /\ IsFiniteSet(pieces) /\ \A piece \in pieces : Piece(piece)
    /\ partials \in Seq(Shapes)
    /\ phase # "work" => pieces = {} /\ partials = <<>>
    /\ phase \in {"load", "nothing"} => \A f \in path \ dir : ~Reducing!Acceptable(f)
    /\ phase = "nothing" => dir = {}
    /\ phase = "cut" => \E f \in path : Reducing!Acceptable(f) /\ pixels = f.pixels
    /\ phase = "work" => \A k \in Reducing!Index :
          Total(partials, k) + Cardinality(Reducing!Left(pieces, k)) =
              Cardinality(IF variant = "colour" THEN Reducing!Left(path, k) ELSE Reducing!Addresses(pixels, k))

\* No results add up to nothing.
LEMMA TotalEmpty == ASSUME NEW k PROVE Total(<<>>, k) = 0
<1>1. ValuesOf(<<>>, k) = <<>>
  BY DEF ValuesOf
<1> QED BY <1>1, SumEmpty DEF Total

LEMMA HistogramInit == Reducing!Init => HistogramInv
<1> SUFFICES ASSUME Reducing!Init PROVE HistogramInv
  OBVIOUS
<1> USE DEF Reducing!Init
<1>1. /\ variant \in Variants /\ phase \in {"load", "cut", "work", "nothing"}
      /\ variant = "colour" => phase = "work"
      /\ path \in SUBSET Files /\ dir \in SUBSET path
      /\ phase # "work" => pieces = {}
      /\ phase \in {"load", "nothing"} => path \ dir = {}
      /\ phase # "nothing" /\ phase # "cut" /\ partials = <<>>
  BY DEF Variants
<1>2. pixels \in Seq(Reducing!Bytes) /\ Len(pixels) % 3 = 0
  <2>1. pixels = <<>>
    OBVIOUS
  <2>2. pixels \in Seq(Reducing!Bytes) /\ Len(pixels) = 0
    BY <2>1, EmptySeq
  <2> QED BY <2>2
<1>3. IsFiniteSet(path)
  <2>1. IsFiniteSet(Files)
    BY InstancesAssumption DEF Reducing!FilesAssumption, Reducing!IsFiniteSet, IsFiniteSet
  <2> QED BY <1>1, <2>1, FS_Subset
<1>4. IsFiniteSet(pieces) /\ \A piece \in pieces : Piece(piece)
  BY <1>1, <1>3, FS_EmptySet DEF Piece
<1>5. partials \in Seq(Shapes)
  <2>1. partials = <<>>
    OBVIOUS
  <2> QED BY <2>1, EmptySeq
<1>6. ASSUME phase = "work", NEW k \in Reducing!Index
      PROVE  Total(partials, k) + Cardinality(Reducing!Left(pieces, k)) =
              Cardinality(IF variant = "colour" THEN Reducing!Left(path, k) ELSE Reducing!Addresses(pixels, k))
  <2>1. variant = "colour" /\ pieces = path
    BY <1>6
  <2>2. \A piece \in pieces : IsFiniteSet(Reducing!Covers(piece, k))
    BY <1>4, <2>1, FileCounts
  <2>3. Cardinality(Reducing!Left(pieces, k)) \in Nat
    BY <1>4, <2>2, LeftFinite
  <2>4. Total(partials, k) = 0
    BY <1>1, TotalEmpty
  <2> QED BY <2>1, <2>3, <2>4
<1> QED BY <1>1, <1>2, <1>3, <1>4, <1>5, <1>6 DEF HistogramInv

\* What the totals are made of changes with the variant and the pixels only.
Steady == variant' = variant /\ pixels' = pixels /\ path' = path

LEMMA SteadyTotals ==
    ASSUME Steady, Shapes' = Shapes
    PROVE  \A k : /\ Total(partials, k)' = Total(partials', k)
                  /\ Reducing!Left(pieces, k)' = Reducing!Left(pieces', k)
                  /\ Reducing!Left(path, k)' = Reducing!Left(path, k)
                  /\ Reducing!Addresses(pixels, k)' = Reducing!Addresses(pixels, k)
<1> USE DEF Steady
<1>1. \A k : Total(partials, k)' = Total(partials', k)
  BY DEF Total, ValuesOf, Reducing!Value
<1>2. \A k : Reducing!Left(pieces, k)' = Reducing!Left(pieces', k)
  BY DEF Reducing!Left, Reducing!Covers
<1>3. \A k : Reducing!Left(path, k)' = Reducing!Left(path, k)
  BY DEF Reducing!Left, Reducing!Covers
<1>4. \A k : Reducing!Addresses(pixels, k)' = Reducing!Addresses(pixels, k)
  OBVIOUS
<1> QED BY <1>1, <1>2, <1>3, <1>4

\* What the rest of the invariant comes to in such a step.
LEMMA SteadyInv ==
    ASSUME HistogramInv, Steady, dir' = dir, phase' = "work", IsFiniteSet(pieces'),
           \A piece \in pieces' : Piece(piece), partials' \in Seq(Shapes),
           \A k \in Reducing!Index :
                Total(partials', k) + Cardinality(Reducing!Left(pieces', k)) =
                    Cardinality(IF variant = "colour" THEN Reducing!Left(path, k) ELSE Reducing!Addresses(pixels, k))
    PROVE  HistogramInv'
<1>1. Shapes' = Shapes
  BY DEF Steady, Shapes
<1>2. \A piece \in pieces' : Piece(piece)'
  BY DEF Steady, Piece
<1>3. /\ variant' \in Variants /\ phase' \in {"load", "cut", "work", "nothing"}
      /\ variant' = "colour" => phase' = "work"
      /\ path' \in SUBSET Files /\ dir' \in SUBSET path'
      /\ pixels' \in Seq(Reducing!Bytes) /\ Len(pixels') % 3 = 0
  BY DEF Steady, HistogramInv
<1>4. \A k \in Reducing!Index :
        Total(partials, k)' + Cardinality(Reducing!Left(pieces, k)') =
            Cardinality(IF variant' = "colour" THEN Reducing!Left(path, k)' ELSE Reducing!Addresses(pixels, k)')
  BY <1>1, SteadyTotals DEF Steady
<1> QED BY <1>1, <1>2, <1>3, <1>4 DEF HistogramInv

\* Every piece counts the bytes it covers, if any.
LEMMA PieceCounts ==
    ASSUME OfProgram, pixels \in Seq(Reducing!Bytes), NEW piece, Piece(piece)
    PROVE  /\ Reducing!Result(piece) # <<>> => Counts1(Reducing!Result(piece), piece)
           /\ Reducing!Result(piece) = <<>> => \A k : Reducing!Covers(piece, k) = {}
           /\ \A k : IsFiniteSet(Reducing!Covers(piece, k))
<1>1. CASE variant = "colour"
  BY <1>1, FileCounts
<1>2. CASE variant # "colour"
  BY <1>2, SliceCounts DEF OfProgram
<1> QED BY <1>1, <1>2

LEMMA DecomposeStep ==
    ASSUME HistogramInv, OfProgram, NEW piece \in pieces, Reducing!Decompose(piece)
    PROVE  HistogramInv'
<1> DEFINE r == Reducing!Result(piece)
           rest == pieces \ {piece}
           all(k) == Cardinality(IF variant = "colour" THEN Reducing!Left(path, k) ELSE Reducing!Addresses(pixels, k))
<1>1. /\ phase = "work" /\ phase' = "work" /\ Steady /\ dir' = dir
      /\ pieces' = rest /\ partials' = IF r = <<>> THEN partials ELSE Append(partials, r)
  BY DEF Reducing!Decompose, Steady
<1>2. /\ pixels \in Seq(Reducing!Bytes) /\ IsFiniteSet(pieces) /\ partials \in Seq(Shapes)
      /\ \A p \in pieces : Piece(p)
      /\ \A k \in Reducing!Index : Total(partials, k) + Cardinality(Reducing!Left(pieces, k)) = all(k)
  BY <1>1 DEF HistogramInv
<1>3. \A p \in pieces : \A k : IsFiniteSet(Reducing!Covers(p, k))
  BY <1>2, PieceCounts
<1>4. /\ r # <<>> => Counts1(r, piece)
      /\ r = <<>> => \A k : Reducing!Covers(piece, k) = {}
  BY <1>2, PieceCounts
<1>5. IsFiniteSet(rest) /\ \A p \in rest : Piece(p)
  BY <1>2, FS_RemoveElement
<1> HIDE DEF r, rest, all
<1>6. partials' \in Seq(Shapes)
  <2>1. CASE r = <<>>
    BY <1>1, <1>2, <2>1
  <2>2. CASE r # <<>>
    BY <1>1, <1>2, <1>4, <2>2, AppendProperties DEF Counts1
  <2> QED BY <2>1, <2>2
<1>7. ASSUME NEW k \in Reducing!Index
      PROVE  Total(partials', k) + Cardinality(Reducing!Left(rest, k)) = all(k)
  <2>1. /\ Cardinality(Reducing!Left(pieces, k)) =
              Cardinality(Reducing!Left(rest, k)) + Cardinality(Reducing!Covers(piece, k))
        /\ Cardinality(Reducing!Left(rest, k)) \in Nat /\ Cardinality(Reducing!Covers(piece, k)) \in Nat
    BY <1>2, <1>3, LeftRemove DEF rest
  <2>2. CASE r = <<>>
    <3>1. Cardinality(Reducing!Covers(piece, k)) = 0
      BY <1>4, <2>2, FS_EmptySet
    <3>2. partials' = partials
      BY <1>1, <2>2
    <3> QED BY <1>2, <2>1, <3>1, <3>2
  <2>3. CASE r # <<>>
    <3>1. r \in Shapes /\ Reducing!Value(r, k) = Cardinality(Reducing!Covers(piece, k))
      BY <1>4, <2>3 DEF Counts1
    <3>2. Total(partials', k) = Total(partials, k) + Reducing!Value(r, k) /\ Total(partials, k) \in Nat
      BY <1>1, <1>2, <2>3, <3>1, TotalAppend
    <3> QED BY <1>2, <2>1, <3>1, <3>2
  <2> QED BY <2>2, <2>3
<1> QED BY <1>1, <1>5, <1>6, <1>7, SteadyInv DEF all

LEMMA ReduceStep ==
    ASSUME HistogramInv, OfProgram, NEW i \in DOMAIN partials, NEW j \in DOMAIN partials, Reducing!Reduce(i, j)
    PROVE  HistogramInv'
<1>1. /\ phase = "work" /\ phase' = "work" /\ Steady /\ dir' = dir /\ pieces' = pieces /\ i # j
      /\ partials' = Reduced2(partials, i, j)
  BY DEF Reducing!Reduce, Steady, Reduced2
<1>2. IsFiniteSet(pieces) /\ partials \in Seq(Shapes) /\ \A p \in pieces : Piece(p)
  BY DEF HistogramInv
<1>3. i \in 1 .. Len(partials) /\ j \in 1 .. Len(partials)
  BY <1>2, LenProperties
<1>4. /\ partials' \in Seq(Shapes)
      /\ \A k \in Reducing!Index : Total(partials', k) = Total(partials, k)
  BY <1>1, <1>2, <1>3, TotalReduced
<1>5. \A k \in Reducing!Index :
        Total(partials', k) + Cardinality(Reducing!Left(pieces', k)) =
            Cardinality(IF variant = "colour" THEN Reducing!Left(path, k) ELSE Reducing!Addresses(pixels, k))
  BY <1>1, <1>4 DEF HistogramInv
<1> QED BY <1>1, <1>2, <1>4, <1>5, SteadyInv

LEMMA CutStep ==
    ASSUME HistogramInv, NEW bounds \in Boundaries, Reducing!Cut(bounds)
    PROVE  HistogramInv'
<1>1. /\ phase = "cut" /\ phase' = "work" /\ Steady /\ dir' = dir /\ pieces' = Slices(bounds)
      /\ partials' = partials
  BY DEF Reducing!Cut, Steady, Slices, NextEnd, SliceEnds, Starts
<1>2. /\ variant \in Variants /\ variant # "colour" /\ partials = <<>> /\ partials \in Seq(Shapes)
      /\ pixels \in Seq(Reducing!Bytes) /\ Len(pixels) % 3 = 0
  BY <1>1 DEF HistogramInv
<1>3. /\ IsFiniteSet(Slices(bounds))
      /\ \A piece \in Slices(bounds) : \E start, size : piece = <<start, size>> /\ Whole(pixels, start, size)
  BY <1>2, SlicesWhole
<1>4. \A piece \in Slices(bounds) : Piece(piece)
  BY <1>2, <1>3 DEF Piece
<1>5. ASSUME NEW k
      PROVE  Total(<<>>, k) + Cardinality(Reducing!Left(Slices(bounds), k)) = Cardinality(Reducing!Addresses(pixels, k))
  <2>1. Total(<<>>, k) = 0
    BY TotalEmpty
  <2>2. Cardinality(Reducing!Left(Slices(bounds), k)) = Cardinality(Reducing!Addresses(pixels, k))
    BY <1>2, SlicesCover
  <2>3. Cardinality(Reducing!Addresses(pixels, k)) \in Nat
    BY <1>2, AddressesFinite, FS_CardinalityType
  <2> QED BY <2>1, <2>2, <2>3
<1>6. \A k \in Reducing!Index :
        Total(partials', k) + Cardinality(Reducing!Left(pieces', k)) =
            Cardinality(IF variant = "colour" THEN Reducing!Left(path, k) ELSE Reducing!Addresses(pixels, k))
  BY <1>1, <1>2, <1>5
<1> QED BY <1>1, <1>2, <1>3, <1>4, <1>6, SteadyInv

LEMMA LoadStep ==
    ASSUME HistogramInv, (\E f \in dir : Reducing!LoadNext(f)) \/ Reducing!LoadNothing
    PROVE  HistogramInv'
<1>1. /\ phase = "load" /\ variant' = variant /\ variant # "colour" /\ path' = path
      /\ pieces = {} /\ pieces' = {} /\ partials = <<>> /\ partials' = <<>>
  BY DEF Reducing!LoadNext, Reducing!LoadNothing, HistogramInv
<1>2. IsFiniteSet(pieces') /\ (\A piece \in pieces' : Piece(piece)') /\ partials' \in Seq(Shapes')
  BY <1>1, FS_EmptySet, EmptySeq
<1>3. variant' \in Variants /\ (variant' = "colour" => phase' = "work") /\ path' \in SUBSET Files
  BY <1>1 DEF HistogramInv
<1>4. CASE Reducing!LoadNothing
  <2>1. phase' = "nothing" /\ dir = {} /\ dir' = {} /\ pixels' = pixels
    BY <1>4 DEF Reducing!LoadNothing
  <2>2. \A f \in path' \ dir' : ~Reducing!Acceptable(f)'
    <3>1. \A f : Reducing!Acceptable(f)' <=> Reducing!Acceptable(f)
      BY DEF Reducing!Acceptable, Reducing!BitmapDecomposer
    <3> QED BY <1>1, <2>1, <3>1 DEF HistogramInv
  <2>3. pixels' \in Seq(Reducing!Bytes) /\ Len(pixels') % 3 = 0
    BY <2>1 DEF HistogramInv
  <2> QED BY <1>1, <1>2, <1>3, <2>1, <2>2, <2>3 DEF HistogramInv
<1>5. CASE \E f \in dir : Reducing!LoadNext(f)
  <2>1. PICK f \in dir : Reducing!LoadNext(f)
    BY <1>5
  <2>2. dir' = dir \ {f} /\ f \in path /\ f \in Files /\ dir' \in SUBSET path'
    BY <1>1, <2>1 DEF Reducing!LoadNext, HistogramInv
  <2>3. \A e : Reducing!Acceptable(e)' <=> Reducing!Acceptable(e)
    BY DEF Reducing!Acceptable, Reducing!BitmapDecomposer
  <2>4. CASE Reducing!getFileData(f) = {}
    <3>1. phase' = "load" /\ pixels' = pixels
      BY <1>1, <2>1, <2>4 DEF Reducing!LoadNext
    <3>2. ~Reducing!Acceptable(f)
      BY <2>2, <2>4, AcceptableIs
    <3>3. \A e \in path' \ dir' : ~Reducing!Acceptable(e)'
      BY <1>1, <2>2, <2>3, <3>2 DEF HistogramInv
    <3>4. pixels' \in Seq(Reducing!Bytes) /\ Len(pixels') % 3 = 0
      BY <3>1 DEF HistogramInv
    <3> QED BY <1>1, <1>2, <1>3, <2>2, <3>1, <3>3, <3>4 DEF HistogramInv
  <2>5. CASE Reducing!getFileData(f) # {}
    <3>1. phase' = "cut" /\ pixels' \in Reducing!getFileData(f)
      BY <1>1, <2>1, <2>5 DEF Reducing!LoadNext
    <3>2. /\ pixels' = f.pixels /\ Reducing!Acceptable(f)'
          /\ pixels' \in Seq(Reducing!Bytes) /\ Len(pixels') % 3 = 0
      BY <2>2, <2>3, <2>5, <3>1, AcceptableIs
    <3> QED BY <1>1, <1>2, <1>3, <2>2, <3>1, <3>2 DEF HistogramInv
  <2> QED BY <2>4, <2>5
<1> QED BY <1>4, <1>5

\* HistogramInv is inductive, with the constants of the program.
LEMMA HistogramStep ==
    ASSUME HistogramInv, REPEATS_REDUCE = 1, def_val = 0, [Reducing!Next]_(Reducing!vars)
    PROVE  HistogramInv'
<1>1. OfProgram
  BY DEF HistogramInv, OfProgram
<1>2. CASE UNCHANGED Reducing!vars
  <2>1. Steady /\ dir' = dir /\ phase' = phase /\ pieces' = pieces /\ partials' = partials
    BY <1>2 DEF Reducing!vars, Steady
  <2>2. \A e : Reducing!Acceptable(e)' <=> Reducing!Acceptable(e)
    BY DEF Reducing!Acceptable, Reducing!BitmapDecomposer
  <2>3. CASE phase = "work"
    BY <2>1, <2>3, SteadyInv DEF HistogramInv
  <2>4. CASE phase # "work"
    <3>1. pieces' = {} /\ partials' = <<>>
      BY <2>1, <2>4 DEF HistogramInv
    <3>2. IsFiniteSet(pieces') /\ (\A piece \in pieces' : Piece(piece)') /\ partials' \in Seq(Shapes')
      BY <3>1, FS_EmptySet, EmptySeq
    <3> QED BY <2>1, <2>2, <2>4, <3>1, <3>2 DEF HistogramInv, Steady
  <2> QED BY <2>3, <2>4
<1>3. CASE (\E f \in dir : Reducing!LoadNext(f)) \/ Reducing!LoadNothing
  BY <1>3, LoadStep
<1>4. CASE phase = "cut" /\ \E bounds \in Boundaries : Reducing!Cut(bounds)
  BY <1>4, CutStep
<1>5. CASE \E piece \in pieces : Reducing!Decompose(piece)
  BY <1>1, <1>5, DecomposeStep
<1>6. CASE \E i, j \in DOMAIN partials : Reducing!Reduce(i, j)
  BY <1>1, <1>6, ReduceStep
<1> QED BY <1>2, <1>3, <1>4, <1>5, <1>6 DEF Reducing!Next, Boundaries

\* In each variant, all results have the same keys in the same order.
LEMMA HistogramsFollow == HistogramInv => Histograms
<1> SUFFICES ASSUME HistogramInv PROVE Histograms
  OBVIOUS
<1>1. Reducing!SameFiles
  BY DEF HistogramInv, Reducing!SameFiles
<1>2. Reducing!Conserved
  <2>1. \A k : /\ Reducing!Cardinality(Reducing!Left(pieces, k)) = Cardinality(Reducing!Left(pieces, k))
               /\ Reducing!Cardinality(IF variant = "colour" THEN Reducing!Left(path, k) ELSE Reducing!Addresses(pixels, k)) =
                    Cardinality(IF variant = "colour" THEN Reducing!Left(path, k) ELSE Reducing!Addresses(pixels, k))
    BY NumberOf
  <2> QED BY <2>1 DEF HistogramInv, Reducing!Conserved, Total, ValuesOf
<1>3. Reducing!SameShape
  <2>1. partials \in Seq(Shapes) /\ variant \in Variants
    BY DEF HistogramInv
  <2>2. SUFFICES ASSUME NEW i \in DOMAIN partials, NEW j \in DOMAIN partials
                 PROVE  CASE variant = "keyed" -> /\ Len(partials[i]) = Len(partials[j])
                                                  /\ \A n \in DOMAIN partials[i] : partials[i][n][2] = partials[j][n][2]
                          [] variant = "colour" -> \A c \in 1 .. 3 : DOMAIN partials[i][c] = DOMAIN partials[j][c]
                          [] OTHER -> TRUE
    BY DEF Reducing!SameShape
  <2>3. PICK a \in Shapes : a = partials[i]
    BY <2>1, LenProperties, ElementOfSeq
  <2>4. PICK b \in Shapes : b = partials[j]
    BY <2>1, LenProperties, ElementOfSeq
  <2>5. CASE variant = "keyed"
    <3>1. PICK n \in Nat : n = 3 * Shades
      BY ShadesPositive
    <3>2. /\ a \in [1 .. n -> Nat \X Nat] /\ b \in [1 .. n -> Nat \X Nat]
          /\ \A m \in 1 .. n : a[m][2] = m - 1 /\ b[m][2] = m - 1
      BY <2>3, <2>4, <2>5, <3>1 DEF Shapes
    <3>3. Len(a) = n /\ Len(b) = n
      BY <3>1, <3>2, LenProperties
    <3>4. DOMAIN a = 1 .. n
      BY <3>2
    <3> QED BY <2>3, <2>4, <2>5, <3>2, <3>3, <3>4
  <2>6. CASE variant = "colour"
    <3>1. a \in [1 .. 3 -> [Reducing!Bytes -> Nat]] /\ b \in [1 .. 3 -> [Reducing!Bytes -> Nat]]
      BY <2>3, <2>4, <2>6 DEF Shapes
    <3>2. \A c \in 1 .. 3 : DOMAIN a[c] = DOMAIN b[c]
      BY <3>1
    <3> QED BY <2>3, <2>4, <2>6, <3>2
  <2>7. CASE variant # "keyed" /\ variant # "colour"
    BY <2>7
  <2> QED BY <2>5, <2>6, <2>7
<1> QED BY <1>1, <1>2, <1>3 DEF Histograms, Reducing!Histograms

\* What every reachable state of the histogram algorithms satisfies.
THEOREM HistogramInvariance ==
    ASSUME REPEATS_REDUCE = 1, def_val = 0
    PROVE  Reducing!Spec => []HistogramInv
<1>1. Reducing!Init => HistogramInv
  BY HistogramInit
<1>2. HistogramInv /\ [Reducing!Next]_(Reducing!vars) => HistogramInv'
  BY HistogramStep
<1> QED BY <1>1, <1>2, PTL DEF Reducing!Spec

\* However the pixels are cut and in whichever order the results are reduced, every
\* byte of the files accepted is counted once, in each of the four combinations of a
\* decomposer and a reducer; the results that are reduced have the same keys; and the
\* two readers accept the same files.
THEOREM HistogramsCorrect ==
    ASSUME REPEATS_REDUCE = 1, def_val = 0
    PROVE  Reducing!Spec => []Histograms
<1>1. HistogramInv => Histograms
  BY HistogramsFollow
<1> QED BY <1>1, HistogramInvariance, PTL

(* Quicksort.                                                              *)

SortShape ==
    /\ length \in Nat /\ ptr \in [0 .. length - 1 -> Elements]
    /\ todo \in Seq(Int \X Int)
    /\ step \in {"call", "up", "down", "meet"}
    /\ low \in Int /\ high \in Int /\ pivot \in Int /\ left \in Int /\ right \in Int

\* The pending ranges lie in the array, in ascending order, and behind the
\* range that is being partitioned.
Ranges ==
    /\ \A n \in 1 .. Len(todo) : 0 <= todo[n][1] /\ todo[n][2] < length
    /\ \A m, n \in 1 .. Len(todo) : m < n => todo[m][2] < todo[n][1]
    /\ step # "call" =>
        /\ 0 <= low /\ low < high /\ high < length
        /\ \A n \in 1 .. Len(todo) : high < todo[n][1]

\* Two elements are in order, or they are in one range that is not done.
Covered ==
    \A x, y \in 0 .. length - 1 : x < y =>
        \/ Sorting!Key(x) <= Sorting!Key(y)
        \/ step # "call" /\ low <= x /\ y <= high
        \/ \E n \in 1 .. Len(todo) : todo[n][1] <= x /\ y <= todo[n][2]

\* What the two scans have passed.
NotAbove(from, to) == \A x \in from .. to : Sorting!Key(x) <= pivot

NotBelow(from, to) == \A x \in from .. to : Sorting!Key(x) >= pivot

\* Before a scan an element lies ahead that stops it; the first scan upwards
\* stops before the last element, so that the two do not part there.
Scanning ==
    /\ step = "up" =>
        /\ low - 1 <= left /\ left < right /\ right <= high + 1
        /\ NotAbove(low, left) /\ NotBelow(right, high)
        /\ \E s \in left + 1 .. high : Sorting!Key(s) >= pivot /\ (right = high + 1 => s < high)
        /\ \E s \in low .. right - 1 : Sorting!Key(s) <= pivot
    /\ step = "down" =>
        /\ low <= left /\ left <= high /\ right <= high + 1 /\ (right = high + 1 => left < high)
        /\ NotAbove(low, left - 1) /\ Sorting!Key(left) >= pivot /\ NotBelow(right, high)
        /\ \E s \in low .. right - 1 : Sorting!Key(s) <= pivot
    /\ step = "meet" =>
        /\ low <= left /\ left <= high /\ low <= right /\ right <= high /\ (right = high => left < high)
        /\ NotAbove(low, left - 1) /\ Sorting!Key(left) >= pivot
        /\ NotBelow(right + 1, high) /\ Sorting!Key(right) <= pivot

SortInv == SortShape /\ Ranges /\ Covered /\ Scanning

-----------------------------------------------------------------------------
\* The keys of the array are integers.
LEMMA KeysAreInt == ASSUME SortShape PROVE \A k \in 0 .. length - 1 : Sorting!Key(k) \in Int
<1>1. \A k \in 0 .. length - 1 : ptr[k] \in Elements
  BY DEF SortShape
<1> QED BY <1>1, InstancesAssumption DEF Sorting!Key, Sorting!ElementsAssumption

\* The parts of the invariant, read in the state after a step that leaves the
\* array and the range alone.
LEMMA ScanStep ==
    ASSUME SortInv, UNCHANGED <<ptr, length, todo, Sorting!range>>, step # "call", step' # "call",
           left' \in Int, right' \in Int, step' \in {"up", "down", "meet"}, Scanning'
    PROVE  SortInv'
<1>1. UNCHANGED <<low, high, pivot>>
  BY DEF Sorting!range
<1>2. SortShape'
  BY <1>1 DEF SortInv, SortShape
<1>3. Ranges'
  BY <1>1 DEF SortInv, Ranges
<1>4. Covered'
  BY <1>1 DEF SortInv, Covered, Sorting!Key
<1> QED BY <1>2, <1>3, <1>4 DEF SortInv

LEMMA InitSorts == Sorting!Init => SortInv
<1> SUFFICES ASSUME Sorting!Init PROVE SortInv
  OBVIOUS
<1>1. length \in Nat /\ todo = <<<<0, length - 1>>>> /\ Len(todo) = 1 /\ todo[1] = <<0, length - 1>>
  BY InstancesAssumption DEF Sorting!Init, Sorting!ElementsAssumption
<1>2. SortShape
  <2>1. <<0, length - 1>> \in Int \X Int
    BY <1>1
  <2>2. todo \in Seq(Int \X Int)
    BY <1>1, <2>1
  <2> QED BY <1>1, <2>2 DEF Sorting!Init, SortShape
<1>3. Ranges
  BY <1>1 DEF Sorting!Init, Ranges
<1>4. Covered
  BY <1>1 DEF Covered
<1>5. Scanning
  BY DEF Sorting!Init, Scanning
<1> QED BY <1>2, <1>3, <1>4, <1>5 DEF SortInv

\* A range of one element is done; a longer one is partitioned next.
LEMMA CallStep == SortInv /\ Sorting!Call => SortInv'
<1> SUFFICES ASSUME SortInv, Sorting!Call PROVE SortInv'
  OBVIOUS
<1>1. /\ todo \in Seq(Int \X Int) /\ todo # <<>> /\ step = "call"
      /\ todo' = Tail(todo) /\ UNCHANGED <<ptr, length>>
  BY DEF SortInv, SortShape, Sorting!Call
<1>2. PICK L \in Nat : L = Len(todo) /\ L >= 1
  BY <1>1, EmptySeq
<1>3. PICK l, h : l = todo[1][1] /\ h = todo[1][2]
  OBVIOUS
<1>4. l \in Int /\ h \in Int /\ 0 <= l /\ h < length
  <2>1. todo[1] \in Int \X Int
    BY <1>1, <1>2, ElementOfSeq
  <2> QED BY <1>2, <1>3, <2>1 DEF SortInv, Ranges
<1>5. /\ todo' \in Seq(Int \X Int) /\ Len(todo') = L - 1
      /\ \A n \in 1 .. L - 1 : todo'[n] = todo[n + 1]
  BY <1>1, <1>2, HeadTailProperties
<1>6. \A n \in 1 .. L : todo[n][1] \in Int /\ todo[n][2] \in Int
  BY <1>1, <1>2, ElementOfSeq
<1>7. /\ \A n \in 1 .. L - 1 : 0 <= todo'[n][1] /\ todo'[n][2] < length
      /\ \A m, n \in 1 .. L - 1 : m < n => todo'[m][2] < todo'[n][1]
      /\ \A n \in 1 .. L - 1 : h < todo'[n][1]
  <2>1. \A m \in 1 .. L - 1 : m + 1 \in 1 .. L
    BY <1>2
  <2>2. \A m, n \in 1 .. L - 1 : m < n => m + 1 < n + 1
    BY <1>2
  <2>3. \A n \in 1 .. L - 1 : 1 < n + 1 /\ 1 \in 1 .. L
    BY <1>2
  <2> QED BY <1>2, <1>3, <1>5, <2>1, <2>2, <2>3 DEF SortInv, Ranges
<1>8. ASSUME NEW x \in 0 .. length - 1, NEW y \in 0 .. length - 1, x < y
      PROVE  \/ Sorting!Key(x) <= Sorting!Key(y)
             \/ l <= x /\ y <= h
             \/ \E n \in 1 .. L - 1 : todo'[n][1] <= x /\ y <= todo'[n][2]
  <2>1. \/ Sorting!Key(x) <= Sorting!Key(y)
        \/ \E n \in 1 .. L : todo[n][1] <= x /\ y <= todo[n][2]
    BY <1>1, <1>2, <1>8 DEF SortInv, Covered
  <2>2. ASSUME NEW n \in 1 .. L, n # 1, todo[n][1] <= x, y <= todo[n][2]
        PROVE  \E m \in 1 .. L - 1 : todo'[m][1] <= x /\ y <= todo'[m][2]
    <3>1. n - 1 \in 1 .. L - 1 /\ (n - 1) + 1 = n
      BY <1>2, <2>2
    <3>2. todo'[n - 1] = todo[n]
      BY <1>5, <3>1
    <3> QED BY <2>2, <3>1, <3>2
  <2> QED BY <1>3, <2>1, <2>2
<1>9. CASE l >= h
  <2>1. UNCHANGED <<step, low, high, pivot, left, right>>
    BY <1>3, <1>9 DEF Sorting!Call, Sorting!range
  <2>2. SortShape'
    BY <1>1, <1>5, <2>1 DEF SortInv, SortShape
  <2>3. Ranges'
    BY <1>1, <1>5, <1>7, <2>1 DEF Ranges
  <2>4. Covered'
    <3>1. \A x, y \in 0 .. length - 1 : x < y => ~(l <= x /\ y <= h)
      BY <1>4, <1>9
    <3> QED BY <1>1, <1>5, <1>8, <2>1, <3>1 DEF Covered, Sorting!Key
  <2>5. Scanning'
    BY <1>1, <2>1 DEF Scanning
  <2> QED BY <2>2, <2>3, <2>4, <2>5 DEF SortInv
<1>10. CASE l < h
  <2>1. PICK mid \in Int : mid = l + ((h - l) \div 2) /\ l <= mid /\ mid < h
    BY <1>4, <1>10
  <2>2. /\ low' = l /\ high' = h /\ pivot' = Sorting!Key(mid) /\ left' = l - 1 /\ right' = h + 1 /\ step' = "up"
    BY <1>3, <1>4, <1>10, <2>1 DEF Sorting!Call
  <2>3. mid \in 0 .. length - 1 /\ Sorting!Key(mid) \in Int
    BY <1>4, <2>1, KeysAreInt DEF SortInv, SortShape
  <2>4. SortShape'
    BY <1>1, <1>4, <1>5, <2>2, <2>3 DEF SortInv, SortShape
  <2>5. Ranges'
    BY <1>1, <1>4, <1>5, <1>7, <1>10, <2>2 DEF Ranges
  <2>6. Covered'
    BY <1>1, <1>5, <1>8, <2>2 DEF Covered, Sorting!Key
  <2>7. Scanning'
    <3>1. ptr'[mid].key = pivot'
      BY <1>1, <2>2 DEF Sorting!Key
    <3>2. mid \in l .. h /\ mid \in (l - 1) + 1 .. h /\ mid \in l .. (h + 1) - 1
      BY <1>4, <2>1
    <3>3. l - 1 < h + 1
      BY <1>4, <1>10
    <3> QED BY <1>4, <2>1, <2>2, <2>3, <3>1, <3>2, <3>3 DEF Scanning, NotAbove, NotBelow, Sorting!Key
  <2> QED BY <2>4, <2>5, <2>6, <2>7 DEF SortInv
<1> QED BY <1>4, <1>9, <1>10

LEMMA ScanUpStep == SortInv /\ Sorting!ScanUp => SortInv'
<1> SUFFICES ASSUME SortInv, Sorting!ScanUp PROVE SortInv'
  OBVIOUS
<1>1. /\ step = "up" /\ left' = left + 1 /\ UNCHANGED <<ptr, length, todo, Sorting!range, low, high, pivot, right>>
      /\ step' = IF Sorting!Key(left + 1) < pivot THEN "up" ELSE "down"
  BY DEF Sorting!ScanUp, Sorting!range
<1>2. /\ low \in Int /\ high \in Int /\ pivot \in Int /\ left \in Int /\ right \in Int
      /\ 0 <= low /\ low < high /\ high < length /\ length \in Nat
  BY <1>1 DEF SortInv, SortShape, Ranges
<1>3. PICK s \in left + 1 .. high : Sorting!Key(s) >= pivot /\ (right = high + 1 => s < high)
  BY <1>1 DEF SortInv, Scanning
<1>4. low - 1 <= left /\ left < right /\ right <= high + 1 /\ NotAbove(low, left) /\ NotBelow(right, high)
  BY <1>1 DEF SortInv, Scanning
<1>5. \E r \in low .. right - 1 : Sorting!Key(r) <= pivot
  BY <1>1 DEF SortInv, Scanning
<1>6. \A k \in low .. high : Sorting!Key(k) \in Int
  BY <1>2, KeysAreInt DEF SortInv
<1>7. Scanning'
  <2>1. NotBelow(right, high)' /\ (\E r \in low .. right - 1 : Sorting!Key(r) <= pivot)'
    BY <1>1, <1>4, <1>5 DEF NotBelow, Sorting!Key
  <2>2. CASE Sorting!Key(left + 1) < pivot
    <3>1. s # left + 1 /\ s \in (left + 1) + 1 .. high
      <4>1. s \in low .. high
        BY <1>2, <1>3, <1>4
      <4>2. Sorting!Key(s) \in Int /\ ~(Sorting!Key(s) < pivot)
        BY <1>2, <1>3, <1>6, <4>1
      <4>3. s # left + 1
        BY <2>2, <4>2
      <4> QED BY <1>2, <1>3, <4>3
    <3>2. \A x \in low .. left + 1 : Sorting!Key(x) <= pivot
      BY <1>2, <1>3, <1>4, <1>6, <2>2 DEF NotAbove
    <3>3. NotAbove(low, left)'
      BY <1>1, <3>2 DEF NotAbove, Sorting!Key
    <3>4. (\E r \in left + 1 .. high : Sorting!Key(r) >= pivot /\ (right = high + 1 => r < high))'
      BY <1>1, <1>3, <3>1 DEF Sorting!Key
    <3>5. low - 1 <= left + 1 /\ left + 1 < right
      BY <1>2, <1>3, <1>4, <1>6, <2>2, <3>1 DEF NotBelow
    <3> QED BY <1>1, <1>4, <2>1, <2>2, <3>3, <3>4, <3>5 DEF Scanning
  <2>3. CASE ~(Sorting!Key(left + 1) < pivot)
    <3>1. /\ low <= left + 1 /\ left + 1 <= high /\ (right = high + 1 => left + 1 < high)
          /\ left + 1 \in low .. high
      BY <1>2, <1>3, <1>4
    <3>2. Sorting!Key(left + 1) >= pivot
      BY <1>2, <1>6, <2>3, <3>1
    <3>3. NotAbove(low, left - 1)' /\ (Sorting!Key(left) >= pivot)'
      BY <1>1, <1>2, <1>4, <3>2 DEF NotAbove, Sorting!Key
    <3> QED BY <1>1, <1>4, <2>1, <2>3, <3>1, <3>3 DEF Scanning
  <2> QED BY <2>2, <2>3
<1> QED BY <1>1, <1>2, <1>7, ScanStep

LEMMA ScanDownStep == SortInv /\ Sorting!ScanDown => SortInv'
<1> SUFFICES ASSUME SortInv, Sorting!ScanDown PROVE SortInv'
  OBVIOUS
<1>1. /\ step = "down" /\ right' = right - 1 /\ UNCHANGED <<ptr, length, todo, Sorting!range, low, high, pivot, left>>
      /\ step' = IF Sorting!Key(right - 1) > pivot THEN "down" ELSE "meet"
  BY DEF Sorting!ScanDown, Sorting!range
<1>2. /\ low \in Int /\ high \in Int /\ pivot \in Int /\ left \in Int /\ right \in Int
      /\ 0 <= low /\ low < high /\ high < length /\ length \in Nat
  BY <1>1 DEF SortInv, SortShape, Ranges
<1>3. PICK s \in low .. right - 1 : Sorting!Key(s) <= pivot
  BY <1>1 DEF SortInv, Scanning
<1>4. /\ low <= left /\ left <= high /\ right <= high + 1 /\ (right = high + 1 => left < high)
      /\ NotAbove(low, left - 1) /\ Sorting!Key(left) >= pivot /\ NotBelow(right, high)
  BY <1>1 DEF SortInv, Scanning
<1>5. \A k \in low .. high : Sorting!Key(k) \in Int
  BY <1>2, KeysAreInt DEF SortInv
<1>6. NotAbove(low, left - 1)' /\ (Sorting!Key(left) >= pivot)'
  BY <1>1, <1>4 DEF NotAbove, Sorting!Key
<1>7. right - 1 \in low .. high
  BY <1>2, <1>3, <1>4
<1>8. Scanning'
  <2>1. CASE Sorting!Key(right - 1) > pivot
    <3>1. s # right - 1 /\ s \in low .. (right - 1) - 1
      BY <1>2, <1>3, <1>5, <1>7, <2>1
    <3>2. \A x \in right - 1 .. high : Sorting!Key(x) >= pivot
      BY <1>2, <1>4, <1>5, <1>7, <2>1 DEF NotBelow
    <3>3. NotBelow(right, high)'
      BY <1>1, <3>2 DEF NotBelow, Sorting!Key
    <3>4. (\E r \in low .. right - 1 : Sorting!Key(r) <= pivot)'
      BY <1>1, <1>3, <3>1 DEF Sorting!Key
    <3>5. right - 1 <= high + 1 /\ right - 1 # high + 1
      BY <1>2, <1>7
    <3> QED BY <1>1, <1>4, <1>6, <2>1, <3>3, <3>4, <3>5 DEF Scanning
  <2>2. CASE ~(Sorting!Key(right - 1) > pivot)
    <3>1. low <= right - 1 /\ right - 1 <= high /\ (right - 1 = high => left < high)
      BY <1>2, <1>4, <1>7
    <3>2. Sorting!Key(right - 1) <= pivot
      BY <1>2, <1>5, <1>7, <2>2
    <3>3. NotBelow(right + 1, high)' /\ (Sorting!Key(right) <= pivot)'
      BY <1>1, <1>2, <1>4, <3>2 DEF NotBelow, Sorting!Key
    <3> QED BY <1>1, <1>4, <1>6, <2>2, <3>1, <3>3 DEF Scanning
  <2> QED BY <2>1, <2>2
<1> QED BY <1>1, <1>2, <1>8, ScanStep

\* A swap leaves the elements of the range in it, and those outside alone.
LEMMA Swapped ==
    ASSUME SortInv, Sorting!Swap
    PROVE  /\ step = "meet" /\ step' = "up" /\ UNCHANGED <<length, todo, low, high, pivot, left, right>>
           /\ left \in low .. high /\ right \in low .. high /\ left < right
           /\ low \in Int /\ high \in Int /\ 0 <= low /\ high < length /\ length \in Nat
           /\ ptr' \in [0 .. length - 1 -> Elements]
           /\ ptr'[left] = ptr[right] /\ ptr'[right] = ptr[left]
           /\ \A x \in 0 .. length - 1 : x # left /\ x # right => ptr'[x] = ptr[x]
<1>1. /\ step = "meet" /\ step' = "up" /\ UNCHANGED <<length, todo, low, high, pivot, left, right>>
      /\ left < right /\ ptr' = [ptr EXCEPT ![left] = ptr[right], ![right] = ptr[left]]
  BY DEF Sorting!Swap, Sorting!range
<1>2. /\ left \in low .. high /\ right \in low .. high
      /\ low \in Int /\ high \in Int /\ 0 <= low /\ high < length /\ length \in Nat
  BY <1>1 DEF SortInv, SortShape, Ranges, Scanning
<1>3. left \in 0 .. length - 1 /\ right \in 0 .. length - 1 /\ left # right
  BY <1>1, <1>2
<1>4. ptr \in [0 .. length - 1 -> Elements]
  BY DEF SortInv, SortShape
<1> QED BY <1>1, <1>2, <1>3, <1>4

LEMMA SwapStep == SortInv /\ Sorting!Swap => SortInv'
<1> SUFFICES ASSUME SortInv, Sorting!Swap PROVE SortInv'
  OBVIOUS
<1>1. /\ step = "meet" /\ step' = "up" /\ UNCHANGED <<length, todo, low, high, pivot, left, right>>
      /\ left \in low .. high /\ right \in low .. high /\ left < right
      /\ low \in Int /\ high \in Int /\ 0 <= low /\ high < length /\ length \in Nat
      /\ ptr' \in [0 .. length - 1 -> Elements]
      /\ ptr'[left] = ptr[right] /\ ptr'[right] = ptr[left]
      /\ \A x \in 0 .. length - 1 : x # left /\ x # right => ptr'[x] = ptr[x]
  BY Swapped
<1>2. SortShape'
  BY <1>1 DEF SortInv, SortShape
<1>3. Ranges'
  BY <1>1 DEF SortInv, Ranges
<1>4. /\ \A x \in 0 .. length - 1 : x \notin low .. high => ptr'[x] = ptr[x]
      /\ \A x \in low .. high : \E z \in low .. high : ptr'[x] = ptr[z]
  <2>1. \A x \in low .. high : x \in 0 .. length - 1
    BY <1>1
  <2> QED BY <1>1, <2>1
<1>5. \A n \in 1 .. Len(todo) : high < todo[n][1] /\ todo[n][1] \in Int /\ todo[n][2] \in Int
  <2>1. \A n \in 1 .. Len(todo) : high < todo[n][1]
    BY <1>1 DEF SortInv, Ranges
  <2>2. \A n \in 1 .. Len(todo) : todo[n] \in Int \X Int
    BY ElementOfSeq DEF SortInv, SortShape
  <2> QED BY <2>1, <2>2
<1>6. Covered'
  <2>1. SUFFICES ASSUME NEW x \in 0 .. length - 1, NEW y \in 0 .. length - 1, x < y
                 PROVE  \/ ptr'[x].key <= ptr'[y].key
                        \/ low <= x /\ y <= high
                        \/ \E n \in 1 .. Len(todo) : todo[n][1] <= x /\ y <= todo[n][2]
    BY <1>1 DEF Covered, Sorting!Key
  <2>2. \A v, z \in 0 .. length - 1 : v < z =>
          \/ ptr[v].key <= ptr[z].key
          \/ low <= v /\ z <= high
          \/ \E n \in 1 .. Len(todo) : todo[n][1] <= v /\ z <= todo[n][2]
    BY DEF SortInv, Covered, Sorting!Key
  <2>3. CASE x \in low .. high /\ y \in low .. high
    BY <1>1, <2>3
  <2>4. CASE x \in low .. high /\ y \notin low .. high
    <3>1. PICK z \in low .. high : ptr'[x] = ptr[z]
      BY <1>4, <2>4
    <3>2. z \in 0 .. length - 1 /\ z < y /\ ~(y <= high) /\ ptr'[y] = ptr[y]
      <4>1. z \in 0 .. length - 1 /\ z < y /\ ~(y <= high)
        BY <1>1, <2>1, <2>4
      <4>2. ptr'[y] = ptr[y]
        BY <1>4, <2>1, <2>4
      <4> QED BY <4>1, <4>2
    <3>3. \A n \in 1 .. Len(todo) : ~(todo[n][1] <= z)
      BY <1>1, <1>5
    <3> QED BY <2>2, <3>1, <3>2, <3>3
  <2>5. CASE x \notin low .. high /\ y \in low .. high
    <3>1. PICK z \in low .. high : ptr'[y] = ptr[z]
      BY <1>4, <2>5
    <3>2. z \in 0 .. length - 1 /\ x < z /\ ~(low <= x) /\ ptr'[x] = ptr[x]
      <4>1. z \in 0 .. length - 1 /\ x < z /\ ~(low <= x)
        BY <1>1, <2>1, <2>5
      <4>2. ptr'[x] = ptr[x]
        BY <1>4, <2>1, <2>5
      <4> QED BY <4>1, <4>2
    <3>3. \A n \in 1 .. Len(todo) : ~(todo[n][1] <= x)
      BY <1>1, <1>5, <3>2
    <3> QED BY <2>2, <3>1, <3>2, <3>3
  <2>6. CASE x \notin low .. high /\ y \notin low .. high
    BY <1>4, <2>1, <2>2, <2>6
  <2> QED BY <2>3, <2>4, <2>5, <2>6
<1>7. Scanning'
  <2>1. /\ right <= high /\ NotAbove(low, left - 1) /\ Sorting!Key(left) >= pivot
        /\ NotBelow(right + 1, high) /\ Sorting!Key(right) <= pivot
    BY <1>1 DEF SortInv, Scanning
  <2>2. \A x \in low .. left : ptr'[x].key <= pivot
    <3>1. SUFFICES ASSUME NEW x \in low .. left PROVE ptr'[x].key <= pivot
      OBVIOUS
    <3>2. CASE x = left
      BY <1>1, <2>1, <3>2 DEF Sorting!Key
    <3>3. CASE x # left
      <4>1. x \in low .. left - 1 /\ x # right /\ x \in 0 .. length - 1
        BY <1>1, <3>3
      <4> QED BY <1>1, <2>1, <3>3, <4>1 DEF NotAbove, Sorting!Key
    <3> QED BY <3>2, <3>3
  <2>3. \A y \in right .. high : ptr'[y].key >= pivot
    <3>1. SUFFICES ASSUME NEW y \in right .. high PROVE ptr'[y].key >= pivot
      OBVIOUS
    <3>2. CASE y = right
      BY <1>1, <2>1, <3>2 DEF Sorting!Key
    <3>3. CASE y # right
      <4>1. y \in right + 1 .. high /\ y # left /\ y \in 0 .. length - 1
        BY <1>1, <3>3
      <4> QED BY <1>1, <2>1, <3>3, <4>1 DEF NotBelow, Sorting!Key
    <3> QED BY <3>2, <3>3
  <2>4. NotAbove(low, left)' /\ NotBelow(right, high)'
    BY <1>1, <2>2, <2>3 DEF NotAbove, NotBelow, Sorting!Key
  <2>5. (\E s \in left + 1 .. high : Sorting!Key(s) >= pivot /\ (right = high + 1 => s < high))'
    <3>1. right \in left + 1 .. high /\ right # high + 1 /\ ptr'[right].key >= pivot
      BY <1>1, <2>3
    <3> QED BY <1>1, <3>1 DEF Sorting!Key
  <2>6. (\E s \in low .. right - 1 : Sorting!Key(s) <= pivot)'
    <3>1. left \in low .. right - 1 /\ ptr'[left].key <= pivot
      BY <1>1, <2>2
    <3> QED BY <1>1, <3>1 DEF Sorting!Key
  <2>7. low - 1 <= left /\ left < right /\ right <= high + 1
    BY <1>1
  <2> QED BY <1>1, <2>4, <2>5, <2>6, <2>7 DEF Scanning
<1> QED BY <1>2, <1>3, <1>6, <1>7 DEF SortInv

\* What a partition has made of its range.
LEMMA Halves ==
    ASSUME SortInv, step = "meet", left >= right
    PROVE  /\ low \in Int /\ high \in Int /\ right \in Int
           /\ 0 <= low /\ low <= right /\ right < high /\ high < length
           /\ \A x \in low .. right, y \in right + 1 .. high : Sorting!Key(x) <= Sorting!Key(y)
<1>1. /\ low \in Int /\ high \in Int /\ pivot \in Int /\ left \in Int /\ right \in Int
      /\ 0 <= low /\ high < length /\ length \in Nat
  BY DEF SortInv, SortShape, Ranges
<1>2. /\ low <= left /\ left <= high /\ low <= right /\ right <= high /\ (right = high => left < high)
      /\ NotAbove(low, left - 1) /\ NotBelow(right + 1, high) /\ Sorting!Key(right) <= pivot
  BY DEF SortInv, Scanning
<1>3. right < high
  BY <1>1, <1>2
<1>4. \A x \in low .. high : Sorting!Key(x) \in Int
  BY <1>1, KeysAreInt DEF SortInv
<1>5. ASSUME NEW x \in low .. right, NEW y \in right + 1 .. high PROVE Sorting!Key(x) <= Sorting!Key(y)
  <2>1. x \in low .. high /\ y \in low .. high
    BY <1>1, <1>2
  <2>2. Sorting!Key(y) >= pivot
    BY <1>2 DEF NotBelow
  <2>3. Sorting!Key(x) <= pivot
    <3>1. CASE x = right
      BY <1>2, <3>1
    <3>2. CASE x # right
      <4>1. x \in low .. left - 1
        BY <1>1, <1>2, <3>2
      <4> QED BY <1>2, <4>1 DEF NotAbove
    <3> QED BY <3>1, <3>2
  <2>4. Sorting!Key(x) \in Int /\ Sorting!Key(y) \in Int
    BY <1>4, <2>1
  <2> QED BY <1>1, <2>2, <2>3, <2>4
<1> QED BY <1>1, <1>2, <1>3, <1>5

\* The two halves come before what was pending.
LEMMA SplitRanges ==
    ASSUME SortInv, Sorting!Split
    PROVE  /\ todo' \in Seq(Int \X Int) /\ Len(todo) \in Nat /\ Len(todo') = Len(todo) + 2
           /\ todo'[1] = <<low, right>> /\ todo'[2] = <<right + 1, high>>
           /\ \A n \in 1 .. Len(todo) : todo'[n + 2] = todo[n]
<1> DEFINE halves == <<<<low, right>>, <<right + 1, high>>>>
<1>1. /\ low \in Int /\ high \in Int /\ right \in Int
      /\ todo \in Seq(Int \X Int) /\ todo' = halves \o todo
  BY DEF SortInv, SortShape, Sorting!Split
<1>2. <<low, right>> \in Int \X Int /\ <<right + 1, high>> \in Int \X Int
  BY <1>1
<1>3. /\ halves \in Seq(Int \X Int) /\ Len(halves) = 2
      /\ halves[1] = <<low, right>> /\ halves[2] = <<right + 1, high>>
  BY <1>2
<1> HIDE DEF halves
<1>4. Len(todo) \in Nat
  BY <1>1, LenProperties
<1>5. /\ halves \o todo \in Seq(Int \X Int) /\ Len(halves \o todo) = Len(halves) + Len(todo)
      /\ \A n \in 1 .. Len(halves) + Len(todo) :
            (halves \o todo)[n] = IF n <= Len(halves) THEN halves[n] ELSE todo[n - Len(halves)]
  BY <1>1, <1>3, ConcatProperties
<1>6. todo'[1] = halves[1] /\ todo'[2] = halves[2]
  BY <1>1, <1>3, <1>4, <1>5
<1>7. ASSUME NEW n \in 1 .. Len(todo) PROVE todo'[n + 2] = todo[n]
  <2>1. n + 2 \in 1 .. Len(halves) + Len(todo) /\ ~(n + 2 <= Len(halves)) /\ (n + 2) - Len(halves) = n
    BY <1>3, <1>4
  <2> QED BY <1>1, <1>5, <2>1
<1>8. todo' \in Seq(Int \X Int) /\ Len(todo') = Len(todo) + 2
  BY <1>1, <1>3, <1>4, <1>5
<1>9. todo'[1] = <<low, right>> /\ todo'[2] = <<right + 1, high>>
  BY <1>3, <1>6
<1> QED BY <1>4, <1>7, <1>8, <1>9

LEMMA SplitStep == SortInv /\ Sorting!Split => SortInv'
<1> SUFFICES ASSUME SortInv, Sorting!Split PROVE SortInv'
  OBVIOUS
<1>1. /\ step = "meet" /\ left >= right /\ step' = "call"
      /\ UNCHANGED <<ptr, length, low, high, pivot, left, right>>
  BY DEF Sorting!Split, Sorting!range
<1>2. PICK L \in Nat : L = Len(todo) /\ Len(todo') = L + 2
  BY SplitRanges
<1>3. /\ todo' \in Seq(Int \X Int) /\ todo'[1] = <<low, right>> /\ todo'[2] = <<right + 1, high>>
      /\ \A n \in 1 .. L : todo'[n + 2] = todo[n]
  BY <1>2, SplitRanges
<1>4. /\ low \in Int /\ high \in Int /\ right \in Int
      /\ 0 <= low /\ low <= right /\ right < high /\ high < length
      /\ \A x \in low .. right, y \in right + 1 .. high : Sorting!Key(x) <= Sorting!Key(y)
  BY <1>1, Halves
<1>5. /\ todo'[1][1] = low /\ todo'[1][2] = right /\ todo'[2][1] = right + 1 /\ todo'[2][2] = high
      /\ \A n \in 3 .. L + 2 : n - 2 \in 1 .. L /\ todo'[n] = todo[n - 2]
  <2>1. \A n \in 3 .. L + 2 : n - 2 \in 1 .. L /\ (n - 2) + 2 = n
    BY <1>2
  <2> QED BY <1>3, <2>1
<1>6. /\ \A n \in 1 .. L : 0 <= todo[n][1] /\ todo[n][2] < length /\ high < todo[n][1]
      /\ \A m, n \in 1 .. L : m < n => todo[m][2] < todo[n][1]
      /\ \A n \in 1 .. L : todo[n][1] \in Int /\ todo[n][2] \in Int
  <2>1. \A n \in 1 .. L : todo[n] \in Int \X Int
    BY <1>2, ElementOfSeq DEF SortInv, SortShape
  <2> QED BY <1>1, <1>2, <2>1 DEF SortInv, Ranges
<1>7. SortShape'
  BY <1>1, <1>3 DEF SortInv, SortShape
<1>8. Ranges'
  <2>1. length \in Nat
    BY DEF SortInv, SortShape
  <2>2. \A n \in 1 .. L + 2 : n = 1 \/ n = 2 \/ n \in 3 .. L + 2
    BY <1>2
  <2>3. \A n \in 1 .. L + 2 : 0 <= todo'[n][1] /\ todo'[n][2] < length
    BY <1>4, <1>5, <1>6, <2>1, <2>2
  <2>4. \A m, n \in 1 .. L + 2 : m < n => todo'[m][2] < todo'[n][1]
    <3>1. SUFFICES ASSUME NEW m \in 1 .. L + 2, NEW n \in 1 .. L + 2, m < n
                   PROVE  todo'[m][2] < todo'[n][1]
      OBVIOUS
    <3>2. CASE m = 1 /\ n = 2
      BY <1>4, <1>5, <3>2
    <3>3. CASE m \in {1, 2} /\ n \in 3 .. L + 2
      <4>1. high < todo'[n][1] /\ todo'[n][1] \in Int
        BY <1>5, <1>6, <3>3
      <4>2. todo'[m][2] <= high /\ todo'[m][2] \in Int
        BY <1>4, <1>5, <3>3
      <4> QED BY <1>4, <4>1, <4>2
    <3>4. CASE m \in 3 .. L + 2 /\ n \in 3 .. L + 2
      <4>1. m - 2 \in 1 .. L /\ n - 2 \in 1 .. L /\ m - 2 < n - 2
        BY <1>2, <3>1, <3>4
      <4>2. todo'[m] = todo[m - 2] /\ todo'[n] = todo[n - 2]
        BY <1>5, <3>4
      <4> QED BY <1>6, <4>1, <4>2
    <3>5. \/ m = 1 /\ n = 2
          \/ m \in {1, 2} /\ n \in 3 .. L + 2
          \/ m \in 3 .. L + 2 /\ n \in 3 .. L + 2
      BY <1>2, <3>1
    <3> QED BY <3>2, <3>3, <3>4, <3>5
  <2> QED BY <1>1, <1>2, <2>3, <2>4 DEF Ranges
<1>9. Covered'
  <2>1. SUFFICES ASSUME NEW x \in 0 .. length - 1, NEW y \in 0 .. length - 1, x < y
                 PROVE  \/ Sorting!Key(x) <= Sorting!Key(y)
                        \/ \E n \in 1 .. L + 2 : todo'[n][1] <= x /\ y <= todo'[n][2]
    BY <1>1, <1>2 DEF Covered, Sorting!Key
  <2>2. \/ Sorting!Key(x) <= Sorting!Key(y)
        \/ low <= x /\ y <= high
        \/ \E n \in 1 .. L : todo[n][1] <= x /\ y <= todo[n][2]
    BY <1>2, <2>1 DEF SortInv, Covered
  <2>3. CASE low <= x /\ y <= high
    <3>0. 1 \in 1 .. L + 2 /\ 2 \in 1 .. L + 2
      BY <1>2
    <3>1. CASE y <= right
      BY <1>5, <2>3, <3>0, <3>1
    <3>2. CASE right + 1 <= x
      BY <1>5, <2>3, <3>0, <3>2
    <3>3. CASE x <= right /\ right + 1 <= y
      BY <1>4, <2>3, <3>3
    <3> QED BY <1>4, <2>1, <3>1, <3>2, <3>3
  <2>4. ASSUME NEW n \in 1 .. L, todo[n][1] <= x, y <= todo[n][2]
        PROVE  \E m \in 1 .. L + 2 : todo'[m][1] <= x /\ y <= todo'[m][2]
    <3>1. n + 2 \in 1 .. L + 2 /\ todo'[n + 2] = todo[n]
      BY <1>2, <1>3
    <3> QED BY <2>4, <3>1
  <2> QED BY <2>2, <2>3, <2>4
<1>10. Scanning'
  BY <1>1 DEF Scanning
<1> QED BY <1>7, <1>8, <1>9, <1>10 DEF SortInv

LEMMA SortStutters == SortInv /\ UNCHANGED Sorting!vars => SortInv'
BY DEF Sorting!vars, Sorting!range, SortInv, SortShape, Ranges, Covered, Scanning, NotAbove, NotBelow, Sorting!Key

\* The invariant the theorems below rest on.
THEOREM SortInvariance == Sorting!Spec => []SortInv
<1>1. SortInv /\ [Sorting!Next]_(Sorting!vars) => SortInv'
  BY CallStep, ScanUpStep, ScanDownStep, SwapStep, SplitStep, SortStutters DEF Sorting!Next
<1> QED BY <1>1, InitSorts, PTL DEF Sorting!Spec

-----------------------------------------------------------------------------
(***************************************************************************)
(* partition keeps to the array although its scans do not test the index,  *)
(* and splits its range into two that are smaller and in order, whatever   *)
(* keys are equal.                                                         *)
(***************************************************************************)
THEOREM PartitionsCorrect == Sorting!Spec => []Partitions
<1>1. SortInv => Partitions
  <2> SUFFICES ASSUME SortInv PROVE Partitions
    OBVIOUS
  <2>1. Sorting!InBounds
    <3>1. step # "call" => /\ low \in Int /\ high \in Int /\ left \in Int /\ right \in Int /\ length \in Nat
                         /\ 0 <= low /\ high < length
      BY DEF SortInv, SortShape, Ranges
    <3>2. step = "up" => low - 1 <= left /\ \E s \in left + 1 .. high : s \in Int
      BY DEF SortInv, Scanning
    <3>3. step = "down" => right <= high + 1 /\ \E s \in low .. right - 1 : s \in Int
      BY DEF SortInv, Scanning
    <3> QED BY <3>1, <3>2, <3>3 DEF Sorting!InBounds
  <2>2. Sorting!Splits /\ Sorting!Parted
    BY Halves DEF Sorting!Splits, Sorting!Parted
  <2> QED BY <2>1, <2>2 DEF Partitions, Sorting!Partitions
<1> QED BY <1>1, SortInvariance, PTL

(***************************************************************************)
(* quicksort sorts: when it returns the keys are in order, and no step of  *)
(* it loses an element, for every array and also with equal keys.          *)
(***************************************************************************)
THEOREM SortsCorrect == Sorting!Spec => Sorts
<1>1. SortInv => Sorting!Sorted
  <2> SUFFICES ASSUME SortInv, Sorting!Done, NEW x \in 0 .. length - 1, NEW y \in 0 .. length - 1, x < y
               PROVE  Sorting!Key(x) <= Sorting!Key(y)
    BY DEF Sorting!Sorted
  <2>1. Len(todo) = 0 /\ step = "call"
    BY EmptySeq DEF Sorting!Done
  <2> QED BY <2>1 DEF SortInv, Covered
<1> DEFINE Kept == \A e \in Elements : (\E x \in 0 .. length - 1 : ptr[x] = e)
                      => \E x \in 0 .. length - 1 : ptr'[x] = e
<1>2. SortInv /\ [Sorting!Next]_(Sorting!vars) => Kept
  <2> SUFFICES ASSUME SortInv, [Sorting!Next]_(Sorting!vars) PROVE Kept
    OBVIOUS
  <2>1. CASE Sorting!Swap
    <3>1. SUFFICES ASSUME NEW x \in 0 .. length - 1
                   PROVE  \E y \in 0 .. length - 1 : ptr'[y] = ptr[x]
      OBVIOUS
    <3>2. left \in 0 .. length - 1 /\ right \in 0 .. length - 1
      BY <2>1, Swapped
    <3> QED BY <2>1, <3>2, Swapped
  <2>2. CASE ~Sorting!Swap
    <3>1. ptr' = ptr
      BY <2>2 DEF Sorting!Next, Sorting!Call, Sorting!ScanUp, Sorting!ScanDown, Sorting!Split, Sorting!vars
    <3> QED BY <3>1
  <2> QED BY <2>1, <2>2
<1>3. SortInv /\ [Sorting!Next]_(Sorting!vars) => [Kept]_(Sorting!vars)
  BY <1>2
<1>4. Sorting!Spec => [][Kept]_(Sorting!vars)
  BY <1>3, SortInvariance, PTL DEF Sorting!Spec
<1> QED BY <1>1, <1>4, SortInvariance, PTL DEF Sorts, Sorting!Sorts, Sorting!Permutes

-----------------------------------------------------------------------------
(* Pools of pools.                                                         *)

\* How many copies there are, and where the round robin goes: pushes reach a copy.
LEMMA NestedExecutor ==
    ASSUME NEW p, Nested(p)!NestedAssumption
    PROVE  /\ \A S : Nested(p)!Cardinality(S) = Cardinality(S)
           /\ Cardinality(Chains[p].workers) \in Nat \ {0} /\ Cardinality(Chains[p].workers) < NestedModulus
           /\ NestedModulus \in Nat \ {0}
           /\ Nested(p)!E!HoldsSingle <=> Cardinality(Chains[p].workers) = 1
           /\ Nested(p)!E!Copies = 0 .. Cardinality(Chains[p].workers) - 1
           /\ \A n \in 0 .. NestedModulus - 1 : /\ Nested(p)!E!ModIndex(n) \in Nested(p)!E!Copies
                                /\ Nested(p)!E!NextCounter(n) \in 0 .. NestedModulus - 1
<1> DEFINE n == Cardinality(Chains[p].workers)
<1>1. \A S : Nested(p)!Cardinality(S) = Cardinality(S)
  BY DEF Cardinality, Nested!Cardinality
<1>2. /\ IsFiniteSet(Chains[p].workers) /\ Chains[p].workers # {}
      /\ NestedModulus \in Nat /\ NestedModulus > Nested(p)!Cardinality(Chains[p].workers)
  BY DEF Nested!NestedAssumption, IsFiniteSet, Nested!IsFiniteSet
<1>3. n \in Nat \ {0} /\ n < NestedModulus /\ NestedModulus \in Nat \ {0}
  BY <1>1, <1>2, FS_CardinalityType, FS_EmptySet
<1>4. Nested(p)!E!HoldsSingle <=> n = 1
  BY <1>1 DEF Nested!E!HoldsSingle
<1> HIDE DEF n
<1>5. Nested(p)!E!Copies = 0 .. n - 1
  <2>1. Nested(p)!E!Copies = IF n = 1 THEN {0} ELSE 0 .. n - 1
    BY <1>1, <1>4 DEF Nested!E!Copies, n
  <2>2. 0 .. 0 = {0}
    OBVIOUS
  <2> QED BY <1>3, <2>1, <2>2
<1>6. ASSUME NEW m \in 0 .. NestedModulus - 1
      PROVE  Nested(p)!E!ModIndex(m) \in Nested(p)!E!Copies /\ Nested(p)!E!NextCounter(m) \in 0 .. NestedModulus - 1
  <2>1. Nested(p)!E!ModIndex(m) = IF n = 1 THEN 0 ELSE m % n
    BY <1>1, <1>4 DEF Nested!E!ModIndex, n
  <2>2. Nested(p)!E!NextCounter(m) = IF n = 1 THEN m ELSE (m + 1) % NestedModulus
    BY <1>1, <1>4 DEF Nested!E!NextCounter, n
  <2>3. m % n \in 0 .. n - 1 /\ (m + 1) % NestedModulus \in 0 .. NestedModulus - 1
    BY <1>3
  <2> QED BY <1>3, <1>5, <2>1, <2>2, <2>3
<1> QED BY <1>1, <1>3, <1>4, <1>5, <1>6 DEF n

\* The types.
LEMMA NestedTypes ==
    ASSUME NEW p \in DOMAIN Chains, Nested(p)!NestedAssumption
    PROVE  /\ Nested(p)!Init => Nested(p)!TypeOK
           /\ Nested(p)!TypeOK /\ Nested(p)!Next => Nested(p)!TypeOK'
<1> DEFINE W == Chains[p].workers
           T == Chains[p].threads
           K == Nested(p)!E!Copies
<1>0. /\ W # {} /\ 0 \notin JobsOf(p) /\ 0 \in K /\ NestedModulus \in Nat \ {0}
      /\ \A j \in JobsOf(p) : (IF j <= Chains[p].chained THEN "a" ELSE "b") \in {"a", "b"}
      /\ \A n \in 0 .. NestedModulus - 1 :
            Nested(p)!E!ModIndex(n) \in K /\ Nested(p)!E!NextCounter(n) \in 0 .. NestedModulus - 1
  <2>1. W # {} /\ 0 \notin JobsOf(p)
    BY DEF Nested!NestedAssumption
  <2>2. NestedModulus \in Nat \ {0} /\ Cardinality(W) \in Nat \ {0} /\ K = 0 .. Cardinality(W) - 1
    BY NestedExecutor
  <2>3. \A n \in 0 .. NestedModulus - 1 :
          Nested(p)!E!ModIndex(n) \in K /\ Nested(p)!E!NextCounter(n) \in 0 .. NestedModulus - 1
    BY NestedExecutor
  <2> HIDE DEF W, K
  <2>4. 0 \in K
    BY <2>2
  <2> QED BY <2>1, <2>2, <2>3, <2>4
<1>1. Nested(p)!Init => Nested(p)!TypeOK
  BY <1>0 DEF Nested!Init, Nested!TypeOK
<1> DEFINE J == JobsOf(p)
<1> HIDE DEF W, T, K, J
<1>t. ASSUME Nested(p)!TypeOK
      PROVE  /\ n_submitted \subseteq J /\ n_answered \subseteq J
             /\ n_outer \in [{"a", "b"} -> Seq(J)]
             /\ n_pc \in [W -> {"pop", "pick", "push"}] /\ n_job \in [W -> J \union {0}]
             /\ n_counter \in 0 .. NestedModulus - 1 /\ n_target \in [W -> K]
             /\ n_streams \in [K -> [W -> Seq(J)]] /\ n_held \in [K -> [T -> J \union {0}]]
             /\ \A w \in W : n_pc[w] = "pop" <=> n_job[w] = 0
  BY <1>t DEF Nested!TypeOK, W, T, K, J
<1>u. ASSUME /\ n_submitted' \subseteq J /\ n_answered' \subseteq J
             /\ n_outer' \in [{"a", "b"} -> Seq(J)]
             /\ n_pc' \in [W -> {"pop", "pick", "push"}] /\ n_job' \in [W -> J \union {0}]
             /\ n_counter' \in 0 .. NestedModulus - 1 /\ n_target' \in [W -> K]
             /\ n_streams' \in [K -> [W -> Seq(J)]] /\ n_held' \in [K -> [T -> J \union {0}]]
             /\ \A w \in W : n_pc'[w] = "pop" <=> n_job'[w] = 0
      PROVE  Nested(p)!TypeOK'
  BY <1>u DEF Nested!TypeOK, W, T, K, J
<1>2. ASSUME Nested(p)!TypeOK, NEW j \in J, Nested(p)!Submit(j) PROVE Nested(p)!TypeOK'
  <2> DEFINE c == IF j <= Chains[p].chained THEN "a" ELSE "b"
  <2>1. /\ n_submitted' = n_submitted \union {j} /\ n_outer' = PushOn(n_outer, c, j)
        /\ UNCHANGED <<n_pc, n_job, n_counter, n_target, n_streams, n_held, n_answered>>
    BY <1>2 DEF Nested!Submit, J, PushOn
  <2>2. c \in {"a", "b"}
    OBVIOUS
  <2> HIDE DEF c
  <2>3. n_outer' \in [{"a", "b"} -> Seq(J)]
    <3>1. n_outer \in [{"a", "b"} -> Seq(J)] /\ n_outer' = PushOn(n_outer, c, j)
      BY <1>2, <1>t, <2>1
    <3> QED BY <2>2, <3>1, PushTypes
  <2> QED BY <1>2, <1>t, <1>u, <2>1, <2>3
<1>3. ASSUME Nested(p)!TypeOK, NEW w \in W, Nested(p)!Pop(w) PROVE Nested(p)!TypeOK'
  <2>1. PICK c \in {"a", "b"} :
            /\ n_outer[c] # <<>> /\ n_outer' = PopOf(n_outer, c)
            /\ n_job' = [n_job EXCEPT ![w] = Head(n_outer[c])]
    BY <1>3 DEF Nested!Pop, PopOf
  <2>2. /\ n_pc' = [n_pc EXCEPT ![w] = "pick"]
        /\ UNCHANGED <<n_submitted, n_counter, n_target, n_streams, n_held, n_answered>>
    BY <1>3 DEF Nested!Pop
  <2>3. n_outer' \in [{"a", "b"} -> Seq(J)] /\ Head(n_outer[c]) \in J
    <3>1. n_outer \in [{"a", "b"} -> Seq(J)]
      BY <1>3, <1>t
    <3> QED BY <2>1, <3>1, PopTypes
  <2>4. Head(n_outer[c]) # 0
    BY <1>0, <2>3 DEF J
  <2> QED BY <1>3, <1>t, <1>u, <2>1, <2>2, <2>3, <2>4
<1>4. ASSUME Nested(p)!TypeOK, NEW w \in W, Nested(p)!Pick(w) PROVE Nested(p)!TypeOK'
  <2>1. /\ n_pc[w] = "pick" /\ n_pc' = [n_pc EXCEPT ![w] = "push"]
        /\ n_target' = [n_target EXCEPT ![w] = Nested(p)!E!ModIndex(n_counter)]
        /\ n_counter' = Nested(p)!E!NextCounter(n_counter)
        /\ UNCHANGED <<n_submitted, n_outer, n_job, n_streams, n_held, n_answered>>
    BY <1>4 DEF Nested!Pick, Nested!Choose
  <2>2. Nested(p)!E!ModIndex(n_counter) \in K /\ n_counter' \in 0 .. NestedModulus - 1
    BY <1>0, <1>4, <1>t, <2>1 DEF K
  <2> QED BY <1>4, <1>t, <1>u, <2>1, <2>2
<1>5. ASSUME Nested(p)!TypeOK, NEW w \in W, Nested(p)!Push(w) PROVE Nested(p)!TypeOK'
  <2> DEFINE k == n_target[w]
  <2>1. /\ n_pc[w] = "push" /\ n_pc' = [n_pc EXCEPT ![w] = "pop"] /\ n_job' = [n_job EXCEPT ![w] = 0]
        /\ n_streams' = [n_streams EXCEPT ![k] = PushOn(n_streams[k], w, n_job[w])]
        /\ UNCHANGED <<n_submitted, n_outer, n_counter, n_target, n_held, n_answered>>
    BY <1>5 DEF Nested!Push, PushOn
  <2>2. k \in K /\ n_job[w] \in J /\ n_streams[k] \in [W -> Seq(J)]
    BY <1>5, <1>t, <2>1
  <2>3. PushOn(n_streams[k], w, n_job[w]) \in [W -> Seq(J)]
    BY <2>2, PushTypes
  <2> QED BY <1>5, <1>t, <1>u, <2>1, <2>2, <2>3
<1>6. ASSUME Nested(p)!TypeOK, NEW k \in K, NEW t \in T, Nested(p)!InnerPop(k, t) PROVE Nested(p)!TypeOK'
  <2>1. PICK w \in W :
            /\ n_streams[k][w] # <<>>
            /\ n_held' = [n_held EXCEPT ![k][t] = Head(n_streams[k][w])]
            /\ n_streams' = [n_streams EXCEPT ![k] = PopOf(n_streams[k], w)]
    BY <1>6 DEF Nested!InnerPop, Nested!PopFrom, PopOf, W
  <2>2. UNCHANGED <<n_submitted, n_outer, n_pc, n_job, n_counter, n_target, n_answered>>
    BY <1>6 DEF Nested!InnerPop, Nested!PopFrom
  <2>3. n_streams[k] \in [W -> Seq(J)] /\ n_held[k] \in [T -> J \union {0}]
    BY <1>6, <1>t
  <2>4. PopOf(n_streams[k], w) \in [W -> Seq(J)] /\ Head(n_streams[k][w]) \in J
    BY <2>1, <2>3, PopTypes
  <2>5. n_held' \in [K -> [T -> J \union {0}]]
    BY <1>6, <1>t, <2>1, <2>3, <2>4
  <2> QED BY <1>6, <1>t, <1>u, <2>1, <2>2, <2>4, <2>5
<1>7. ASSUME Nested(p)!TypeOK, NEW k \in K, NEW t \in T, Nested(p)!Execute(k, t) PROVE Nested(p)!TypeOK'
  <2>1. /\ n_held[k][t] # 0 /\ n_answered' = n_answered \union {n_held[k][t]}
        /\ n_held' = [n_held EXCEPT ![k][t] = 0]
        /\ UNCHANGED <<n_submitted, n_outer, n_pc, n_job, n_counter, n_target, n_streams>>
    BY <1>7 DEF Nested!Execute
  <2>2. n_held' \in [K -> [T -> J \union {0}]] /\ n_held[k][t] \in J
    BY <1>7, <1>t, <2>1
  <2> QED BY <1>7, <1>t, <1>u, <2>1, <2>2
<1>8. ASSUME Nested(p)!TypeOK, Nested(p)!Terminated PROVE Nested(p)!TypeOK'
  BY <1>8 DEF Nested!Terminated, Nested!vars, Nested!TypeOK
<1> QED BY <1>1, <1>2, <1>3, <1>4, <1>5, <1>6, <1>7, <1>8 DEF Nested!Next, W, T, K, J

\* The types again, with the elements of the queues and the finite set of jobs.
NestedShape(p) ==
    /\ 0 \notin JobsOf(p) /\ IsFiniteSet(JobsOf(p)) /\ JobsOf(p) \subseteq Nat
    /\ n_submitted \subseteq JobsOf(p) /\ n_answered \subseteq JobsOf(p)
    /\ n_outer \in [{"a", "b"} -> Seq(JobsOf(p))]
    /\ n_pc \in [Chains[p].workers -> {"pop", "pick", "push"}]
    /\ n_job \in [Chains[p].workers -> JobsOf(p) \union {0}]
    /\ n_counter \in 0 .. NestedModulus - 1 /\ n_target \in [Chains[p].workers -> Nested(p)!E!Copies]
    /\ n_streams \in [Nested(p)!E!Copies -> [Chains[p].workers -> Seq(JobsOf(p))]]
    /\ n_held \in [Nested(p)!E!Copies -> [Chains[p].threads -> JobsOf(p) \union {0}]]
    /\ \A w \in Chains[p].workers : n_pc[w] = "pop" <=> n_job[w] = 0
    /\ \A c \in {"a", "b"} : \A m \in 1 .. Len(n_outer[c]) : n_outer[c][m] \in JobsOf(p)
    /\ \A k \in Nested(p)!E!Copies, w \in Chains[p].workers :
        \A m \in 1 .. Len(n_streams[k][w]) : n_streams[k][w][m] \in JobsOf(p)

\* They follow.
LEMMA NestedElements ==
    ASSUME NEW p \in DOMAIN Chains, Nested(p)!NestedAssumption
    PROVE  Nested(p)!TypeOK => NestedShape(p)
<1> SUFFICES ASSUME Nested(p)!TypeOK PROVE NestedShape(p)
  OBVIOUS
<1>1. 0 \notin JobsOf(p) /\ IsFiniteSet(JobsOf(p))
  BY DEF Nested!NestedAssumption, IsFiniteSet, Nested!IsFiniteSet
<1>2. JobsOf(p) \subseteq Nat
  BY DEF JobsOf
<1>3. /\ n_outer \in [{"a", "b"} -> Seq(JobsOf(p))]
      /\ n_streams \in [Nested(p)!E!Copies -> [Chains[p].workers -> Seq(JobsOf(p))]]
  BY DEF Nested!TypeOK
<1>4. \A c \in {"a", "b"} : \A m \in 1 .. Len(n_outer[c]) : n_outer[c][m] \in JobsOf(p)
  BY <1>3, ElementOfSeq
<1>5. ASSUME NEW k \in Nested(p)!E!Copies, NEW w \in Chains[p].workers,
             NEW m \in 1 .. Len(n_streams[k][w])
      PROVE  n_streams[k][w][m] \in JobsOf(p)
  <2>1. n_streams[k][w] \in Seq(JobsOf(p))
    BY <1>3
  <2> QED BY <2>1, ElementOfSeq
<1> QED BY <1>1, <1>2, <1>4, <1>5 DEF Nested!TypeOK, NestedShape

\* A caller can only pass a future it has got: no jobs depend on each other in a circle.
LEMMA NestedChained ==
    ASSUME NEW p \in DOMAIN Chains, Nested(p)!NestedAssumption, Nested(p)!TypeOK
    PROVE  /\ Nested(p)!Init => Nested(p)!Chained
           /\ Nested(p)!Chained /\ Nested(p)!Next => Nested(p)!Chained'
<1> DEFINE D == [j \in JobsOf(p) |-> IF j \in 2 .. Chains[p].chained THEN j - 1 ELSE 0]
<1> HIDE DEF D
<1>1. Nested(p)!Chained <=>
        /\ \A j \in n_submitted : D[j] # 0 => D[j] \in n_submitted
        /\ \A S \in (SUBSET n_submitted) \ {{}} : \E j \in S : D[j] \notin S
  BY DEF Nested!Chained, D
<1>2. Nested(p)!Chained' <=>
        /\ \A j \in n_submitted' : D[j] # 0 => D[j] \in n_submitted'
        /\ \A S \in (SUBSET n_submitted') \ {{}} : \E j \in S : D[j] \notin S
  BY DEF Nested!Chained, D
<1>3. Nested(p)!Init => Nested(p)!Chained
  <2>1. SUFFICES ASSUME n_submitted = {} PROVE Nested(p)!Chained
    BY DEF Nested!Init
  <2>2. (SUBSET n_submitted) \ {{}} = {}
    BY <2>1
  <2> QED BY <1>1, <2>1, <2>2
<1>4. ASSUME Nested(p)!Chained, NEW j \in JobsOf(p), Nested(p)!Submit(j) PROVE Nested(p)!Chained'
  <2>1. j \notin n_submitted /\ n_submitted' = n_submitted \union {j} /\ (D[j] # 0 => D[j] \in n_submitted)
    BY <1>4 DEF Nested!Submit, D
  <2>2. 0 \notin JobsOf(p) /\ n_submitted \subseteq JobsOf(p)
    BY NestedElements DEF NestedShape
  <2>3. ASSUME NEW S \in (SUBSET n_submitted') \ {{}} PROVE \E i \in S : D[i] \notin S
    <3>1. CASE j \notin S
      BY <1>1, <1>4, <2>1, <2>3, <3>1
    <3>2. CASE S = {j}
      BY <2>1, <2>2, <3>2
    <3>3. CASE j \in S /\ S # {j}
      <4>1. S \ {j} \in (SUBSET n_submitted) \ {{}}
        BY <2>1, <2>3, <3>3
      <4>2. PICK i \in S \ {j} : D[i] \notin S \ {j}
        BY <1>1, <1>4, <4>1
      <4>3. D[i] # j
        BY <1>1, <1>4, <2>1, <2>2, <4>1, <4>2
      <4> QED BY <4>2, <4>3
    <3> QED BY <3>1, <3>2, <3>3
  <2>4. \A i \in n_submitted' : D[i] # 0 => D[i] \in n_submitted'
    BY <1>1, <1>4, <2>1
  <2> QED BY <1>2, <2>3, <2>4
<1>5. ASSUME Nested(p)!Chained, n_submitted' = n_submitted PROVE Nested(p)!Chained'
  BY <1>1, <1>2, <1>5
<1>6. Nested(p)!Next => n_submitted' = n_submitted \/ \E j \in JobsOf(p) : Nested(p)!Submit(j)
  BY DEF Nested!Next, Nested!Pop, Nested!Pick, Nested!Choose, Nested!Push, Nested!InnerPop, Nested!PopFrom,
         Nested!Execute, Nested!Terminated, Nested!vars
<1> QED BY <1>3, <1>4, <1>5, <1>6

\* What Tells says, with the values a queue holds for its places.
NestedTold(p, where, who, copy) ==
    /\ where \in [JobsOf(p) -> {"new", "outer", "thread", "queue", "held", "done"}]
    /\ who \in [JobsOf(p) -> Chains[p].workers \union Chains[p].threads]
    /\ copy \in [JobsOf(p) -> Int]
    /\ Once(n_outer, {"a", "b"})
    /\ \A k \in Nested(p)!E!Copies : Once(n_streams[k], Chains[p].workers)
    /\ \A j \in JobsOf(p) : where[j] = "new" <=> j \notin n_submitted
    /\ \A j : Holds(n_outer, {"a", "b"}, j) => j \in JobsOf(p) /\ where[j] = "outer"
    /\ \A w \in Chains[p].workers : n_job[w] # 0 =>
         n_job[w] \in JobsOf(p) /\ where[n_job[w]] = "thread" /\ who[n_job[w]] = w
    /\ \A w \in Chains[p].workers : n_pc[w] = "push" => copy[n_job[w]] = n_target[w]
    /\ \A k \in Nested(p)!E!Copies : \A j : Holds(n_streams[k], Chains[p].workers, j) =>
         j \in JobsOf(p) /\ where[j] = "queue" /\ copy[j] = k
    /\ \A k \in Nested(p)!E!Copies, t \in Chains[p].threads : n_held[k][t] # 0 =>
         /\ n_held[k][t] \in JobsOf(p) /\ where[n_held[k][t]] = "held"
         /\ who[n_held[k][t]] = t /\ copy[n_held[k][t]] = k

NestedPlaced(p) == \E where, who, copy : NestedTold(p, where, who, copy) /\ Nested(p)!Robin(where, copy)

\* It is the same as OnePlace.
LEMMA NestedTells ==
    ASSUME NEW p
    PROVE  /\ NestedShape(p) /\ Nested(p)!OnePlace => NestedPlaced(p)
           /\ NestedPlaced(p) => Nested(p)!OnePlace
<1>1. ASSUME NestedShape(p), Nested(p)!OnePlace
      PROVE  \E where, who, copy : NestedTold(p, where, who, copy) /\ Nested(p)!Robin(where, copy)
  <2>1. PICK where \in [JobsOf(p) -> {"new", "outer", "thread", "queue", "held", "done"}],
             who \in [JobsOf(p) -> Chains[p].workers \union Chains[p].threads],
             copy \in [JobsOf(p) -> Int] :
          Nested(p)!Tells(where, who, copy) /\ Nested(p)!Robin(where, copy)
    BY <1>1 DEF Nested!OnePlace
  <2>2. /\ Once(n_outer, {"a", "b"})
        /\ \A k \in Nested(p)!E!Copies : Once(n_streams[k], Chains[p].workers)
    BY <1>1 DEF Nested!OnePlace, Nested!QueuedOnce, Once
  <2>3. \A j : Holds(n_outer, {"a", "b"}, j) => j \in JobsOf(p) /\ where[j] = "outer"
    BY <1>1, <2>1 DEF Holds, NestedShape, Nested!Tells
  <2>4. \A k \in Nested(p)!E!Copies : \A j : Holds(n_streams[k], Chains[p].workers, j) =>
          j \in JobsOf(p) /\ where[j] = "queue" /\ copy[j] = k
    BY <1>1, <2>1 DEF Holds, NestedShape, Nested!Tells
  <2>5. NestedTold(p, where, who, copy)
    BY <1>1, <2>1, <2>2, <2>3, <2>4 DEF NestedTold, NestedShape, Nested!Tells
  <2> QED BY <2>1, <2>5
<1>2. ASSUME NEW where, NEW who, NEW copy, NestedTold(p, where, who, copy), Nested(p)!Robin(where, copy)
      PROVE  Nested(p)!OnePlace
  <2>1. /\ where \in [JobsOf(p) -> {"new", "outer", "thread", "queue", "held", "done"}]
        /\ who \in [JobsOf(p) -> Chains[p].workers \union Chains[p].threads]
        /\ copy \in [JobsOf(p) -> Int]
    BY <1>2 DEF NestedTold
  <2>2. /\ Nested(p)!QueuedOnce(n_outer, {"a", "b"})
        /\ \A k \in Nested(p)!E!Copies : Nested(p)!QueuedOnce(n_streams[k], Chains[p].workers)
    BY <1>2 DEF NestedTold, Nested!QueuedOnce, Once
  <2>3. ASSUME NEW c \in {"a", "b"}, NEW m \in 1 .. Len(n_outer[c]) PROVE where[n_outer[c][m]] = "outer"
    <3>1. Holds(n_outer, {"a", "b"}, n_outer[c][m])
      BY DEF Holds
    <3> QED BY <1>2, <3>1 DEF NestedTold
  <2>4. ASSUME NEW k \in Nested(p)!E!Copies, NEW w \in Chains[p].workers, NEW m \in 1 .. Len(n_streams[k][w])
        PROVE  where[n_streams[k][w][m]] = "queue" /\ copy[n_streams[k][w][m]] = k
    <3>1. Holds(n_streams[k], Chains[p].workers, n_streams[k][w][m])
      BY DEF Holds
    <3> QED BY <1>2, <3>1 DEF NestedTold
  <2>5. Nested(p)!Tells(where, who, copy)
    BY <1>2, <2>3, <2>4 DEF NestedTold, Nested!Tells
  <2> QED BY <1>2, <2>1, <2>2, <2>5 DEF Nested!OnePlace
<1> QED BY <1>1, <1>2 DEF NestedPlaced

\* Every job is new at first, and no copy is picked.
LEMMA NestedInitPlaces ==
    ASSUME NEW p \in DOMAIN Chains, Nested(p)!NestedAssumption, Nested(p)!Init
    PROVE  NestedPlaced(p)
<1> DEFINE J == JobsOf(p)
           where == [j \in J |-> "new"]
           who == [j \in J |-> CHOOSE w \in Chains[p].workers : TRUE]
           copy == [j \in J |-> -1]
<1>1. /\ n_submitted = {} /\ n_counter = 0
      /\ \A c \in {"a", "b"} : n_outer[c] = <<>>
      /\ \A w \in Chains[p].workers : n_pc[w] = "pop" /\ n_job[w] = 0
      /\ \A k \in Nested(p)!E!Copies :
            /\ \A w \in Chains[p].workers : n_streams[k][w] = <<>>
            /\ \A t \in Chains[p].threads : n_held[k][t] = 0
  BY DEF Nested!Init
<1>2. /\ where \in [J -> {"new", "outer", "thread", "queue", "held", "done"}]
      /\ who \in [J -> Chains[p].workers \union Chains[p].threads] /\ copy \in [J -> Int]
  BY DEF Nested!NestedAssumption
<1>3. /\ Once(n_outer, {"a", "b"}) /\ \A j : ~Holds(n_outer, {"a", "b"}, j)
      /\ \A k \in Nested(p)!E!Copies : /\ Once(n_streams[k], Chains[p].workers)
                                       /\ \A j : ~Holds(n_streams[k], Chains[p].workers, j)
  BY <1>1 DEF Once, Holds
<1>4. NestedTold(p, where, who, copy)
  BY <1>1, <1>2, <1>3 DEF NestedTold
<1>5. Nested(p)!Picked(copy) = {}
  BY DEF Nested!Picked
<1>6. Nested(p)!Cardinality({}) = 0
  BY NestedExecutor, FS_EmptySet
<1>7. Nested(p)!Robin(where, copy)
  BY <1>1, <1>5, <1>6 DEF Nested!Robin
<1> QED BY <1>4, <1>7 DEF NestedPlaced

\* A new job gets to the outer queue,
LEMMA NestedSubmit ==
    ASSUME NEW p \in DOMAIN Chains, Nested(p)!NestedAssumption, NestedShape(p),
           NEW where, NEW who, NEW copy, NestedTold(p, where, who, copy), Nested(p)!Robin(where, copy),
           NEW j \in JobsOf(p), Nested(p)!Submit(j)
    PROVE  NestedPlaced(p)'
<1> DEFINE J == JobsOf(p)
           c == IF j <= Chains[p].chained THEN "a" ELSE "b"
           there == [where EXCEPT ![j] = "outer"]
<1>1. /\ j \notin n_submitted /\ n_submitted' = n_submitted \union {j}
      /\ n_outer' = PushOn(n_outer, c, j) /\ c \in {"a", "b"}
      /\ UNCHANGED <<n_pc, n_job, n_counter, n_target, n_streams, n_held, n_answered>>
  BY DEF Nested!Submit, PushOn
<1>2. where[j] = "new" /\ Once(n_outer, {"a", "b"}) /\ ~Holds(n_outer, {"a", "b"}, j)
  BY <1>1 DEF NestedTold
<1>3. /\ Once(n_outer', {"a", "b"})
      /\ \A x : Holds(n_outer', {"a", "b"}, x) <=> Holds(n_outer, {"a", "b"}, x) \/ x = j
  <2>1. n_outer \in [{"a", "b"} -> Seq(J)]
    BY DEF NestedShape
  <2> HIDE DEF c
  <2> QED BY <1>1, <1>2, <2>1, PushOnce, PushHolds
<1>4. /\ there \in [J -> {"new", "outer", "thread", "queue", "held", "done"}]
      /\ there[j] = "outer" /\ \A i \in J : i # j => there[i] = where[i]
  BY DEF NestedTold
<1> HIDE DEF there, c
<1>5. NestedTold(p, there, who, copy)'
  BY <1>1, <1>2, <1>3, <1>4 DEF NestedTold
<1>6. Nested(p)!Robin(there, copy)'
  <2>1. \A i \in J : there[i] \in {"new", "outer"} => where[i] \in {"new", "outer"}
    BY <1>2, <1>4
  <2> QED BY <1>1, <2>1 DEF Nested!Robin
<1> QED BY <1>5, <1>6 DEF NestedPlaced

\* from there to a thread,
LEMMA NestedPop ==
    ASSUME NEW p \in DOMAIN Chains, Nested(p)!NestedAssumption, NestedShape(p),
           NEW where, NEW who, NEW copy, NestedTold(p, where, who, copy), Nested(p)!Robin(where, copy),
           NEW w \in Chains[p].workers, Nested(p)!Pop(w)
    PROVE  NestedPlaced(p)'
<1> DEFINE J == JobsOf(p)
<1>1. PICK c \in {"a", "b"} :
        /\ n_outer[c] # <<>> /\ n_outer' = PopOf(n_outer, c)
        /\ n_job' = [n_job EXCEPT ![w] = Head(n_outer[c])]
  BY DEF Nested!Pop, PopOf
<1>2. /\ n_pc[w] = "pop" /\ n_pc' = [n_pc EXCEPT ![w] = "pick"]
      /\ UNCHANGED <<n_submitted, n_counter, n_target, n_streams, n_held, n_answered>>
  BY DEF Nested!Pop
<1>j. PICK j : j = Head(n_outer[c])
  OBVIOUS
<1> DEFINE there == [where EXCEPT ![j] = "thread"]
           whose == [who EXCEPT ![j] = w]
<1>3. /\ Once(n_outer', {"a", "b"}) /\ Holds(n_outer, {"a", "b"}, j)
      /\ \A x : Holds(n_outer', {"a", "b"}, x) <=> Holds(n_outer, {"a", "b"}, x) /\ x # j
  <2>1. n_outer \in [{"a", "b"} -> Seq(J)] /\ Once(n_outer, {"a", "b"}) /\ n_outer[c] # <<>>
    BY <1>1 DEF NestedShape, NestedTold
  <2>2. Once(PopOf(n_outer, c), {"a", "b"})
    BY <2>1, PopOnce
  <2>3. /\ Holds(n_outer, {"a", "b"}, Head(n_outer[c]))
        /\ \A x : Holds(PopOf(n_outer, c), {"a", "b"}, x) <=> Holds(n_outer, {"a", "b"}, x) /\ x # Head(n_outer[c])
    BY <2>1, PopHolds
  <2> QED BY <1>1, <1>j, <2>2, <2>3
<1>4. j \in J /\ j # 0 /\ where[j] = "outer" /\ j \notin Nested(p)!Picked(copy)
  BY <1>3 DEF NestedTold, NestedShape, Nested!Robin
<1>5. /\ there \in [J -> {"new", "outer", "thread", "queue", "held", "done"}]
      /\ whose \in [J -> Chains[p].workers \union Chains[p].threads]
      /\ there[j] = "thread" /\ \A i \in J : i # j => there[i] = where[i]
      /\ whose[j] = w /\ \A i \in J : i # j => whose[i] = who[i]
  BY <1>4 DEF NestedTold
<1>6. /\ n_pc'[w] = "pick" /\ n_job'[w] = j
      /\ \A v \in Chains[p].workers : v # w => n_pc'[v] = n_pc[v] /\ n_job'[v] = n_job[v]
  BY <1>1, <1>2, <1>j DEF NestedShape
<1> HIDE DEF there, whose
<1>7. NestedTold(p, there, whose, copy)'
  <2>1. ASSUME NEW v \in Chains[p].workers, n_job'[v] # 0
        PROVE  n_job'[v] \in J /\ there[n_job'[v]] = "thread" /\ whose[n_job'[v]] = v
    BY <1>4, <1>5, <1>6, <2>1 DEF NestedTold
  <2>2. ASSUME NEW v \in Chains[p].workers, n_pc'[v] = "push" PROVE copy[n_job'[v]] = n_target[v]
    BY <1>6, <2>2 DEF NestedTold
  <2>3. \A i \in J : there[i] = "new" <=> i \notin n_submitted
    BY <1>4, <1>5 DEF NestedTold
  <2>4. \A i : Holds(n_outer', {"a", "b"}, i) => i \in J /\ there[i] = "outer"
    BY <1>3, <1>5 DEF NestedTold
  <2>5. /\ \A l \in Nested(p)!E!Copies : Once(n_streams[l], Chains[p].workers)
        /\ \A l \in Nested(p)!E!Copies : \A i : Holds(n_streams[l], Chains[p].workers, i) =>
             i \in J /\ there[i] = "queue" /\ copy[i] = l
    BY <1>4, <1>5 DEF NestedTold
  <2>6. \A l \in Nested(p)!E!Copies, t \in Chains[p].threads : n_held[l][t] # 0 =>
          /\ n_held[l][t] \in J /\ there[n_held[l][t]] = "held"
          /\ whose[n_held[l][t]] = t /\ copy[n_held[l][t]] = l
    BY <1>4, <1>5 DEF NestedTold
  <2>7. copy \in [J -> Int]
    BY DEF NestedTold
  <2> QED BY <1>2, <1>3, <1>5, <2>1, <2>2, <2>3, <2>4, <2>5, <2>6, <2>7 DEF NestedTold
<1>8. Nested(p)!Robin(there, copy)'
  <2>1. \A i \in J : there[i] \in {"new", "outer"} => where[i] \in {"new", "outer"}
    BY <1>5
  <2>2. ASSUME NEW v \in Chains[p].workers, n_pc'[v] = "pick" PROVE n_job'[v] \notin Nested(p)!Picked(copy)
    BY <1>4, <1>6, <2>2 DEF Nested!Robin
  <2>3. \A i \in J : there[i] \in {"new", "outer"} => i \notin Nested(p)!Picked(copy)
    BY <2>1 DEF Nested!Robin
  <2>4. n_counter' = n_counter
    BY <1>2
  <2> QED BY <2>2, <2>3, <2>4 DEF Nested!Robin
<1> QED BY <1>7, <1>8 DEF NestedPlaced

\* into the queue of the copy that the thread picked,
LEMMA NestedPush ==
    ASSUME NEW p \in DOMAIN Chains, Nested(p)!NestedAssumption, NestedShape(p),
           NEW where, NEW who, NEW copy, NestedTold(p, where, who, copy), Nested(p)!Robin(where, copy),
           NEW w \in Chains[p].workers, Nested(p)!Push(w)
    PROVE  NestedPlaced(p)'
<1> DEFINE J == JobsOf(p)
<1>j. PICK j, k : j = n_job[w] /\ k = n_target[w]
  OBVIOUS
<1> DEFINE there == [where EXCEPT ![j] = "queue"]
<1>1. /\ n_pc[w] = "push" /\ n_pc' = [n_pc EXCEPT ![w] = "pop"] /\ n_job' = [n_job EXCEPT ![w] = 0]
      /\ n_streams' = [n_streams EXCEPT ![k] = PushOn(n_streams[k], w, j)]
      /\ UNCHANGED <<n_submitted, n_outer, n_counter, n_target, n_held, n_answered>>
  BY <1>j DEF Nested!Push, PushOn
<1>2. k \in Nested(p)!E!Copies /\ j # 0 /\ n_streams[k] \in [Chains[p].workers -> Seq(J)]
  BY <1>1, <1>j DEF NestedShape
<1>3. j \in J /\ where[j] = "thread" /\ copy[j] = k /\ Once(n_streams[k], Chains[p].workers)
      /\ ~Holds(n_streams[k], Chains[p].workers, j)
  BY <1>1, <1>2, <1>j DEF NestedTold
<1>4. /\ n_streams'[k] = PushOn(n_streams[k], w, j)
      /\ \A l \in Nested(p)!E!Copies : l # k => n_streams'[l] = n_streams[l]
      /\ n_pc'[w] = "pop" /\ n_job'[w] = 0
      /\ \A v \in Chains[p].workers : v # w => n_pc'[v] = n_pc[v] /\ n_job'[v] = n_job[v]
  BY <1>1, <1>2 DEF NestedShape
<1>5. /\ there \in [J -> {"new", "outer", "thread", "queue", "held", "done"}]
      /\ there[j] = "queue" /\ \A i \in J : i # j => there[i] = where[i]
  BY <1>3 DEF NestedTold
<1> HIDE DEF there
<1>6. /\ Once(n_streams'[k], Chains[p].workers)
      /\ \A x : Holds(n_streams'[k], Chains[p].workers, x) <=> Holds(n_streams[k], Chains[p].workers, x) \/ x = j
  <2>1. Once(PushOn(n_streams[k], w, j), Chains[p].workers)
    BY <1>2, <1>3, PushOnce
  <2>2. \A x : Holds(PushOn(n_streams[k], w, j), Chains[p].workers, x) <=>
                Holds(n_streams[k], Chains[p].workers, x) \/ x = j
    BY <1>2, <1>3, PushHolds
  <2> QED BY <1>4, <2>1, <2>2
<1>7. NestedTold(p, there, who, copy)'
  <2>1. ASSUME NEW v \in Chains[p].workers, n_job'[v] # 0
        PROVE  n_job'[v] \in J /\ there[n_job'[v]] = "thread" /\ who[n_job'[v]] = v
    <3>1. v # w /\ n_job'[v] = n_job[v]
      BY <1>4, <2>1
    <3>2. n_job[v] # j
      BY <1>3, <2>1, <3>1, <1>j DEF NestedTold
    <3> QED BY <1>5, <2>1, <3>1, <3>2 DEF NestedTold
  <2>2. ASSUME NEW v \in Chains[p].workers, n_pc'[v] = "push" PROVE copy[n_job'[v]] = n_target[v]
    BY <1>4, <2>2 DEF NestedTold
  <2>3. ASSUME NEW l \in Nested(p)!E!Copies, NEW x, Holds(n_streams'[l], Chains[p].workers, x)
        PROVE  x \in J /\ there[x] = "queue" /\ copy[x] = l
    BY <1>3, <1>4, <1>5, <1>6, <2>3 DEF NestedTold
  <2>4. \A l \in Nested(p)!E!Copies : Once(n_streams'[l], Chains[p].workers)
    BY <1>4, <1>6 DEF NestedTold
  <2>5. \A i \in J : there[i] = "new" <=> i \notin n_submitted
    BY <1>3, <1>5 DEF NestedTold
  <2>6. Once(n_outer, {"a", "b"}) /\ \A i : Holds(n_outer, {"a", "b"}, i) => i \in J /\ there[i] = "outer"
    BY <1>3, <1>5 DEF NestedTold
  <2>7. \A l \in Nested(p)!E!Copies, t \in Chains[p].threads : n_held[l][t] # 0 =>
          /\ n_held[l][t] \in J /\ there[n_held[l][t]] = "held"
          /\ who[n_held[l][t]] = t /\ copy[n_held[l][t]] = l
    BY <1>3, <1>5 DEF NestedTold
  <2>8. /\ who \in [J -> Chains[p].workers \union Chains[p].threads] /\ copy \in [J -> Int]
    BY DEF NestedTold
  <2> QED BY <1>1, <1>5, <2>1, <2>2, <2>3, <2>4, <2>5, <2>6, <2>7, <2>8 DEF NestedTold
<1>8. Nested(p)!Robin(there, copy)'
  <2>1. \A i \in J : there[i] \in {"new", "outer"} => where[i] \in {"new", "outer"}
    BY <1>5
  <2>2. ASSUME NEW v \in Chains[p].workers, n_pc'[v] = "pick" PROVE n_job'[v] \notin Nested(p)!Picked(copy)
    BY <1>4, <2>2 DEF Nested!Robin
  <2>3. \A i \in J : there[i] \in {"new", "outer"} => i \notin Nested(p)!Picked(copy)
    BY <2>1 DEF Nested!Robin
  <2>4. n_counter' = n_counter
    BY <1>1
  <2> QED BY <2>2, <2>3, <2>4 DEF Nested!Robin
<1> QED BY <1>7, <1>8 DEF NestedPlaced

\* which is another one each time while the counter is below the number of copies,
LEMMA NestedPick ==
    ASSUME NEW p \in DOMAIN Chains, Nested(p)!NestedAssumption, NestedShape(p),
           NEW where, NEW who, NEW copy, NestedTold(p, where, who, copy), Nested(p)!Robin(where, copy),
           NEW w \in Chains[p].workers, Nested(p)!Pick(w)
    PROVE  NestedPlaced(p)'
<1> DEFINE J == JobsOf(p)
           n == Cardinality(Chains[p].workers)
<1>j. PICK j, k : j = n_job[w] /\ k = Nested(p)!E!ModIndex(n_counter)
  OBVIOUS
<1> DEFINE copied == [copy EXCEPT ![j] = k]
<1>1. /\ n_pc[w] = "pick" /\ n_pc' = [n_pc EXCEPT ![w] = "push"]
      /\ n_target' = [n_target EXCEPT ![w] = k]
      /\ n_counter' = Nested(p)!E!NextCounter(n_counter)
      /\ UNCHANGED <<n_submitted, n_outer, n_job, n_streams, n_held, n_answered>>
  BY <1>j DEF Nested!Pick, Nested!Choose
<1>2. n_counter \in 0 .. NestedModulus - 1 /\ j # 0
  BY <1>1, <1>j DEF NestedShape
<1>3. /\ k \in Nested(p)!E!Copies /\ k \in Nat
      /\ NestedModulus \in Nat /\ n \in 1 .. NestedModulus - 1
      /\ (Nested(p)!E!HoldsSingle <=> n = 1)
      /\ Nested(p)!Cardinality(J) = Cardinality(J) /\ Nested(p)!Cardinality(Chains[p].workers) = n
      /\ \A S : Nested(p)!Cardinality(S) = Cardinality(S)
  <2>1. \A S : Nested(p)!Cardinality(S) = Cardinality(S)
    BY NestedExecutor
  <2>2. n \in Nat \ {0} /\ n < NestedModulus /\ NestedModulus \in Nat /\ (Nested(p)!E!HoldsSingle <=> n = 1)
    BY NestedExecutor
  <2>3. k \in Nested(p)!E!Copies
    BY <1>2, <1>j, NestedExecutor
  <2>4. Nested(p)!E!Copies = 0 .. n - 1
    BY NestedExecutor
  <2> HIDE DEF n
  <2>5. k \in Nat /\ n \in 1 .. NestedModulus - 1 /\ NestedModulus \in Nat
    BY <2>2, <2>3, <2>4
  <2> QED BY <2>1, <2>2, <2>3, <2>5 DEF n
<1>4. j \in J /\ where[j] = "thread" /\ who[j] = w /\ j \notin Nested(p)!Picked(copy)
  BY <1>1, <1>2, <1>j DEF NestedTold, Nested!Robin
<1>5. /\ copied \in [J -> Int] /\ copied[j] = k /\ \A i \in J : i # j => copied[i] = copy[i]
  BY <1>3, <1>4 DEF NestedTold
<1>6. /\ n_pc'[w] = "push" /\ n_target'[w] = k
      /\ \A v \in Chains[p].workers : v # w => n_pc'[v] = n_pc[v] /\ n_target'[v] = n_target[v]
  BY <1>1 DEF NestedShape
<1>7. \A v \in Chains[p].workers : v # w /\ n_job[v] # 0 => n_job[v] # j
  BY <1>4 DEF NestedTold
<1> HIDE DEF copied, n
<1>8. NestedTold(p, where, who, copied)'
  <2>1. ASSUME NEW v \in Chains[p].workers, n_pc'[v] = "push" PROVE copied[n_job[v]] = n_target'[v]
    <3>1. CASE v = w
      BY <1>5, <1>6, <1>j, <3>1
    <3>2. CASE v # w
      <4>1. n_pc[v] = "push" /\ n_job[v] # 0 /\ n_target'[v] = n_target[v]
        BY <1>6, <2>1, <3>2 DEF NestedShape
      <4>2. n_job[v] \in J /\ n_job[v] # j /\ copy[n_job[v]] = n_target[v]
        BY <1>7, <3>2, <4>1 DEF NestedTold
      <4> QED BY <1>5, <4>1, <4>2
    <3> QED BY <3>1, <3>2
  <2>2. \A l \in Nested(p)!E!Copies : \A i : Holds(n_streams[l], Chains[p].workers, i) =>
          i \in J /\ where[i] = "queue" /\ copied[i] = l
    BY <1>4, <1>5 DEF NestedTold
  <2>3. \A l \in Nested(p)!E!Copies, t \in Chains[p].threads : n_held[l][t] # 0 =>
          /\ n_held[l][t] \in J /\ where[n_held[l][t]] = "held"
          /\ who[n_held[l][t]] = t /\ copied[n_held[l][t]] = l
    BY <1>4, <1>5 DEF NestedTold
  <2> QED BY <1>1, <1>5, <2>1, <2>2, <2>3 DEF NestedTold
<1>9. Nested(p)!Picked(copied) = Nested(p)!Picked(copy) \union {j}
  BY <1>3, <1>4, <1>5 DEF Nested!Picked
<1>10. Nested(p)!Robin(where, copied)'
  <2>1. ASSUME NEW v \in Chains[p].workers, n_pc'[v] = "pick" PROVE n_job[v] \notin Nested(p)!Picked(copied)
    <3>1. v # w /\ n_pc[v] = "pick" /\ n_job[v] # 0
      BY <1>6, <2>1 DEF NestedShape
    <3> QED BY <1>7, <1>9, <3>1 DEF Nested!Robin
  <2>2. \A i \in J : where[i] \in {"new", "outer"} => i \notin Nested(p)!Picked(copied)
    BY <1>4, <1>9 DEF Nested!Robin
  <2>3. ASSUME Nested(p)!Spread, ~Nested(p)!E!HoldsSingle
        PROVE  /\ n_counter' = Nested(p)!Cardinality(Nested(p)!Picked(copied))
               /\ \A i \in Nested(p)!Picked(copied) : copied[i] \in 0 .. n_counter' - 1
               /\ \A h, i \in Nested(p)!Picked(copied) : copied[h] = copied[i] => h = i
    <3> DEFINE P == Nested(p)!Picked(copy)
    <3>1. /\ n_counter = Cardinality(P)
          /\ \A i \in P : copy[i] \in 0 .. n_counter - 1
          /\ \A h, i \in P : copy[h] = copy[i] => h = i
      BY <1>3, <2>3 DEF Nested!Robin
    <3>2. Nested(p)!Picked(copied) \subseteq J /\ P \subseteq J /\ IsFiniteSet(J)
      BY DEF Nested!Picked, NestedShape
    <3> HIDE DEF P
    <3>3. /\ IsFiniteSet(P) /\ Cardinality(P \union {j}) = Cardinality(P) + 1
          /\ Cardinality(P \union {j}) <= Cardinality(J)
      <4>1. IsFiniteSet(P) /\ j \notin P
        BY <1>4, <3>2, FS_Subset DEF P
      <4>2. Cardinality(P \union {j}) = Cardinality(P) + 1
        BY <4>1, FS_AddElement
      <4>3. P \union {j} \subseteq J
        BY <1>4, <3>2
      <4> QED BY <3>2, <4>1, <4>2, <4>3, FS_Subset
    <3>4. Cardinality(J) <= n
      BY <1>3, <2>3 DEF Nested!Spread
    <3>5. n_counter + 1 <= n
      BY <1>2, <1>3, <3>1, <3>2, <3>3, <3>4, FS_CardinalityType
    <3>6. k = n_counter /\ n_counter' = n_counter + 1
      <4>1. Nested(p)!E!ModIndex(n_counter) = n_counter % n
        BY <1>3, <2>3 DEF Nested!E!ModIndex
      <4>2. n_counter' = (n_counter + 1) % NestedModulus
        BY <1>1, <2>3 DEF Nested!E!NextCounter
      <4>3. n_counter % n = n_counter
        BY <1>2, <1>3, <3>5
      <4>4. (n_counter + 1) % NestedModulus = n_counter + 1
        BY <1>2, <1>3, <3>5
      <4> QED BY <1>j, <4>1, <4>2, <4>3, <4>4
    <3>7. \A i \in P : i \in J /\ i # j /\ copied[i] = copy[i]
      BY <1>4, <1>5, <3>2 DEF P
    <3>8. Nested(p)!Picked(copied) = P \union {j}
      BY <1>9 DEF P
    <3>9. n_counter' = Nested(p)!Cardinality(Nested(p)!Picked(copied))
      BY <1>3, <3>1, <3>3, <3>6, <3>8
    <3> QED BY <1>2, <1>5, <3>1, <3>6, <3>7, <3>8, <3>9
  <2> QED BY <1>1, <2>1, <2>2, <2>3 DEF Nested!Robin
<1> QED BY <1>8, <1>10 DEF NestedPlaced

\* to a thread of the copy,
LEMMA NestedInnerPop ==
    ASSUME NEW p \in DOMAIN Chains, Nested(p)!NestedAssumption, NestedShape(p),
           NEW where, NEW who, NEW copy, NestedTold(p, where, who, copy), Nested(p)!Robin(where, copy),
           NEW k \in Nested(p)!E!Copies, NEW t \in Chains[p].threads, Nested(p)!InnerPop(k, t)
    PROVE  NestedPlaced(p)'
<1> DEFINE J == JobsOf(p)
           W == Chains[p].workers
<1>1. PICK w \in W :
        /\ n_streams[k][w] # <<>>
        /\ n_held' = [n_held EXCEPT ![k][t] = Head(n_streams[k][w])]
        /\ n_streams' = [n_streams EXCEPT ![k] = PopOf(n_streams[k], w)]
  BY DEF Nested!InnerPop, Nested!PopFrom, PopOf
<1>2. n_held[k][t] = 0 /\ UNCHANGED <<n_submitted, n_outer, n_pc, n_job, n_counter, n_target, n_answered>>
  BY DEF Nested!InnerPop, Nested!PopFrom
<1>j. PICK j : j = Head(n_streams[k][w])
  OBVIOUS
<1> DEFINE there == [where EXCEPT ![j] = "held"]
           whose == [who EXCEPT ![j] = t]
<1>3. /\ n_streams'[k] = PopOf(n_streams[k], w)
      /\ \A l \in Nested(p)!E!Copies : l # k => n_streams'[l] = n_streams[l]
      /\ n_held'[k][t] = j
      /\ \A l \in Nested(p)!E!Copies, u \in Chains[p].threads :
            ~(l = k /\ u = t) => n_held'[l][u] = n_held[l][u]
  BY <1>1, <1>j DEF NestedShape
<1>4. /\ Once(n_streams'[k], W) /\ Holds(n_streams[k], W, j)
      /\ \A x : Holds(n_streams'[k], W, x) <=> Holds(n_streams[k], W, x) /\ x # j
  <2>1. n_streams[k] \in [W -> Seq(J)] /\ Once(n_streams[k], W) /\ n_streams[k][w] # <<>>
    BY <1>1 DEF NestedShape, NestedTold
  <2> HIDE DEF W
  <2>2. Once(PopOf(n_streams[k], w), W)
    BY <2>1, PopOnce
  <2>3. /\ Holds(n_streams[k], W, Head(n_streams[k][w]))
        /\ \A x : Holds(PopOf(n_streams[k], w), W, x) <=> Holds(n_streams[k], W, x) /\ x # Head(n_streams[k][w])
    BY <2>1, PopHolds
  <2> QED BY <1>3, <1>j, <2>2, <2>3
<1>5. j \in J /\ j # 0 /\ where[j] = "queue" /\ copy[j] = k
  BY <1>4 DEF NestedTold, NestedShape
<1>6. /\ there \in [J -> {"new", "outer", "thread", "queue", "held", "done"}]
      /\ whose \in [J -> Chains[p].workers \union Chains[p].threads]
      /\ there[j] = "held" /\ \A i \in J : i # j => there[i] = where[i]
      /\ whose[j] = t /\ \A i \in J : i # j => whose[i] = who[i]
  BY <1>5 DEF NestedTold
<1> HIDE DEF there, whose
<1>7. NestedTold(p, there, whose, copy)'
  <2>1. \A v \in W : n_job[v] # 0 => n_job[v] \in J /\ there[n_job[v]] = "thread" /\ whose[n_job[v]] = v
    BY <1>5, <1>6 DEF NestedTold
  <2>2. \A i \in J : there[i] = "new" <=> i \notin n_submitted
    BY <1>5, <1>6 DEF NestedTold
  <2>3. Once(n_outer, {"a", "b"}) /\ \A i : Holds(n_outer, {"a", "b"}, i) => i \in J /\ there[i] = "outer"
    BY <1>5, <1>6 DEF NestedTold
  <2>4. \A l \in Nested(p)!E!Copies : Once(n_streams'[l], W)
    BY <1>3, <1>4 DEF NestedTold
  <2>5. ASSUME NEW l \in Nested(p)!E!Copies, NEW x, Holds(n_streams'[l], W, x)
        PROVE  x \in J /\ there[x] = "queue" /\ copy[x] = l
    <3>1. Holds(n_streams[l], W, x) /\ (l = k => x # j)
      BY <1>3, <1>4, <2>5
    <3>2. x \in J /\ where[x] = "queue" /\ copy[x] = l
      BY <3>1 DEF NestedTold
    <3> QED BY <1>5, <1>6, <3>1, <3>2
  <2>6. ASSUME NEW l \in Nested(p)!E!Copies, NEW u \in Chains[p].threads, n_held'[l][u] # 0
        PROVE  /\ n_held'[l][u] \in J /\ there[n_held'[l][u]] = "held"
               /\ whose[n_held'[l][u]] = u /\ copy[n_held'[l][u]] = l
    <3>1. CASE l = k /\ u = t
      BY <1>3, <1>5, <1>6, <3>1
    <3>2. CASE ~(l = k /\ u = t)
      <4>1. n_held'[l][u] = n_held[l][u]
        BY <1>3, <3>2
      <4>2. /\ n_held[l][u] \in J /\ where[n_held[l][u]] = "held"
            /\ who[n_held[l][u]] = u /\ copy[n_held[l][u]] = l
        BY <2>6, <4>1 DEF NestedTold
      <4> QED BY <1>5, <1>6, <4>1, <4>2
    <3> QED BY <3>1, <3>2
  <2>7. copy \in [J -> Int] /\ \A v \in W : n_pc[v] = "push" => copy[n_job[v]] = n_target[v]
    BY DEF NestedTold
  <2> QED BY <1>2, <1>6, <2>1, <2>2, <2>3, <2>4, <2>5, <2>6, <2>7 DEF NestedTold
<1>8. Nested(p)!Robin(there, copy)'
  <2>1. \A i \in J : there[i] \in {"new", "outer"} => i \notin Nested(p)!Picked(copy)
    BY <1>6 DEF Nested!Robin
  <2> QED BY <1>2, <2>1 DEF Nested!Robin
<1> QED BY <1>7, <1>8 DEF NestedPlaced

\* and out of the pools.
LEMMA NestedExecute ==
    ASSUME NEW p \in DOMAIN Chains, Nested(p)!NestedAssumption, NestedShape(p),
           NEW where, NEW who, NEW copy, NestedTold(p, where, who, copy), Nested(p)!Robin(where, copy),
           NEW k \in Nested(p)!E!Copies, NEW t \in Chains[p].threads, Nested(p)!Execute(k, t)
    PROVE  NestedPlaced(p)'
<1> DEFINE J == JobsOf(p)
<1>j. PICK j : j = n_held[k][t]
  OBVIOUS
<1> DEFINE there == [where EXCEPT ![j] = "done"]
<1>1. /\ j # 0 /\ n_held' = [n_held EXCEPT ![k][t] = 0]
      /\ UNCHANGED <<n_submitted, n_outer, n_pc, n_job, n_counter, n_target, n_streams>>
  BY <1>j DEF Nested!Execute
<1>2. /\ n_held'[k][t] = 0
      /\ \A l \in Nested(p)!E!Copies, u \in Chains[p].threads :
            ~(l = k /\ u = t) => n_held'[l][u] = n_held[l][u]
  BY <1>1 DEF NestedShape
<1>3. j \in J /\ where[j] = "held" /\ who[j] = t /\ copy[j] = k
  BY <1>1, <1>j DEF NestedTold
<1>4. /\ there \in [J -> {"new", "outer", "thread", "queue", "held", "done"}]
      /\ there[j] = "done" /\ \A i \in J : i # j => there[i] = where[i]
  BY <1>3 DEF NestedTold
<1> HIDE DEF there
<1>5. NestedTold(p, there, who, copy)'
  <2>1. \A v \in Chains[p].workers : n_job[v] # 0 =>
          n_job[v] \in J /\ there[n_job[v]] = "thread" /\ who[n_job[v]] = v
    BY <1>3, <1>4 DEF NestedTold
  <2>2. \A i \in J : there[i] = "new" <=> i \notin n_submitted
    BY <1>3, <1>4 DEF NestedTold
  <2>3. Once(n_outer, {"a", "b"}) /\ \A i : Holds(n_outer, {"a", "b"}, i) => i \in J /\ there[i] = "outer"
    BY <1>3, <1>4 DEF NestedTold
  <2>4. \A l \in Nested(p)!E!Copies : \A i : Holds(n_streams[l], Chains[p].workers, i) =>
          i \in J /\ there[i] = "queue" /\ copy[i] = l
    BY <1>3, <1>4 DEF NestedTold
  <2>5. ASSUME NEW l \in Nested(p)!E!Copies, NEW u \in Chains[p].threads, n_held'[l][u] # 0
        PROVE  /\ n_held'[l][u] \in J /\ there[n_held'[l][u]] = "held"
               /\ who[n_held'[l][u]] = u /\ copy[n_held'[l][u]] = l
    <3>1. ~(l = k /\ u = t) /\ n_held'[l][u] = n_held[l][u]
      BY <1>2, <2>5
    <3>2. /\ n_held[l][u] \in J /\ where[n_held[l][u]] = "held"
          /\ who[n_held[l][u]] = u /\ copy[n_held[l][u]] = l
      BY <2>5, <3>1 DEF NestedTold
    <3> QED BY <1>3, <1>4, <3>1, <3>2
  <2>6. /\ \A l \in Nested(p)!E!Copies : Once(n_streams[l], Chains[p].workers)
        /\ who \in [J -> Chains[p].workers \union Chains[p].threads] /\ copy \in [J -> Int]
        /\ \A v \in Chains[p].workers : n_pc[v] = "push" => copy[n_job[v]] = n_target[v]
    BY DEF NestedTold
  <2> QED BY <1>1, <1>4, <2>1, <2>2, <2>3, <2>4, <2>5, <2>6 DEF NestedTold
<1>6. Nested(p)!Robin(there, copy)'
  <2>1. \A i \in J : there[i] \in {"new", "outer"} => i \notin Nested(p)!Picked(copy)
    BY <1>4 DEF Nested!Robin
  <2> QED BY <1>1, <2>1 DEF Nested!Robin
<1> QED BY <1>5, <1>6 DEF NestedPlaced

\* Every step of a chain in nested pools keeps the invariant.
LEMMA NestedStep ==
    ASSUME NEW p \in DOMAIN Chains, Nested(p)!NestedAssumption
    PROVE  /\ Nested(p)!Init => Nested(p)!IInv
           /\ Nested(p)!IInv /\ Nested(p)!Next => Nested(p)!IInv'
           /\ Nested(p)!IInv /\ UNCHANGED nestedVars => Nested(p)!IInv'
<1>1. Nested(p)!TypeOK => NestedShape(p)
  BY NestedElements
<1>2. Nested(p)!Init => Nested(p)!IInv
  BY NestedTypes, NestedChained, NestedInitPlaces, NestedTells DEF Nested!IInv
<1>3. NestedPlaced(p) => Nested(p)!OnePlace
  BY NestedTells
<1>4. NestedPlaced(p)' => Nested(p)!OnePlace'
  BY <1>3, PTL
<1>5. ASSUME Nested(p)!IInv, UNCHANGED nestedVars PROVE Nested(p)!IInv'
  <2>1. /\ n_submitted' = n_submitted /\ n_outer' = n_outer /\ n_pc' = n_pc /\ n_job' = n_job
        /\ n_counter' = n_counter /\ n_target' = n_target /\ n_streams' = n_streams
        /\ n_held' = n_held /\ n_answered' = n_answered
    BY <1>5 DEF nestedVars
  <2>2. Nested(p)!TypeOK'
    BY <1>5, <2>1 DEF Nested!IInv, Nested!TypeOK
  <2>3. Nested(p)!Chained'
    BY <1>5, <2>1 DEF Nested!IInv, Nested!Chained
  <2>4. PICK where, who, copy : NestedTold(p, where, who, copy) /\ Nested(p)!Robin(where, copy)
    BY <1>1, <1>5, NestedTells DEF Nested!IInv, NestedPlaced
  <2>5. NestedTold(p, where, who, copy)'
    BY <2>1, <2>4 DEF NestedTold
  <2>6. Nested(p)!Robin(where, copy)'
    BY <2>1, <2>4 DEF Nested!Robin
  <2> QED BY <1>4, <2>2, <2>3, <2>5, <2>6 DEF NestedPlaced, Nested!IInv
<1>6. ASSUME Nested(p)!IInv, Nested(p)!Next PROVE Nested(p)!IInv'
  <2>1. NestedShape(p)
    BY <1>1, <1>6 DEF Nested!IInv
  <2>2. PICK where, who, copy : NestedTold(p, where, who, copy) /\ Nested(p)!Robin(where, copy)
    BY <1>6, <2>1, NestedTells DEF Nested!IInv, NestedPlaced
  <2>3. Nested(p)!TypeOK' /\ Nested(p)!Chained'
    BY <1>6, NestedTypes, NestedChained DEF Nested!IInv
  <2>4. CASE Nested(p)!Terminated
    BY <1>5, <1>6, <2>4 DEF Nested!Terminated, Nested!vars, nestedVars
  <2>5. CASE \E j \in JobsOf(p) : Nested(p)!Submit(j)
    BY <1>4, <2>1, <2>2, <2>3, <2>5, NestedSubmit DEF Nested!IInv
  <2>6. CASE \E w \in Chains[p].workers : Nested(p)!Pop(w)
    BY <1>4, <2>1, <2>2, <2>3, <2>6, NestedPop DEF Nested!IInv
  <2>7. CASE \E w \in Chains[p].workers : Nested(p)!Pick(w)
    BY <1>4, <2>1, <2>2, <2>3, <2>7, NestedPick DEF Nested!IInv
  <2>8. CASE \E w \in Chains[p].workers : Nested(p)!Push(w)
    BY <1>4, <2>1, <2>2, <2>3, <2>8, NestedPush DEF Nested!IInv
  <2>9. CASE \E k \in Nested(p)!E!Copies, t \in Chains[p].threads : Nested(p)!InnerPop(k, t)
    BY <1>4, <2>1, <2>2, <2>3, <2>9, NestedInnerPop DEF Nested!IInv
  <2>10. CASE \E k \in Nested(p)!E!Copies, t \in Chains[p].threads : Nested(p)!Execute(k, t)
    BY <1>4, <2>1, <2>2, <2>3, <2>10, NestedExecute DEF Nested!IInv
  <2> QED BY <1>6, <2>4, <2>5, <2>6, <2>7, <2>8, <2>9, <2>10 DEF Nested!Next
<1> QED BY <1>2, <1>5, <1>6

\* Take copies that wait for each other. With few waiting jobs, the threads of one of
\* them hold more jobs than wait. With spread jobs, no copy has a queue beside the job
\* it holds, so the held jobs depend on each other in a circle.
LEMMA NestedSafe ==
    ASSUME NEW p \in DOMAIN Chains, Nested(p)!NestedAssumption, Nested(p)!IInv
    PROVE  Nested(p)!NoCircle
<1> DEFINE J == JobsOf(p)
           K == Nested(p)!E!Copies
           T == Chains[p].threads
           D == [j \in J |-> IF j \in 2 .. Chains[p].chained THEN j - 1 ELSE 0]
<1> HIDE DEF D
<1>1. SUFFICES ASSUME Nested(p)!Spread \/ Nested(p)!Few,
                      NEW blocked \in (SUBSET K) \ {{}}, Nested(p)!Circle(blocked)
               PROVE  FALSE
  BY DEF Nested!NoCircle, Nested!Blocked
<1>2. NestedShape(p)
  BY NestedElements DEF Nested!IInv
<1>3. PICK where, who, copy : NestedTold(p, where, who, copy) /\ Nested(p)!Robin(where, copy)
  BY <1>2, NestedTells DEF Nested!IInv, NestedPlaced
<1>4. ASSUME NEW S, S \subseteq n_submitted, S # {} PROVE \E j \in S : D[j] \notin S
  <2>1. S \in (SUBSET n_submitted) \ {{}}
    BY <1>4
  <2> QED BY <2>1 DEF Nested!IInv, Nested!Chained, D
<1>5. ASSUME NEW k \in blocked, NEW t \in T
      PROVE  /\ k \in K /\ n_held[k][t] \in J /\ n_held[k][t] \in n_submitted
             /\ where[n_held[k][t]] = "held" /\ who[n_held[k][t]] = t /\ copy[n_held[k][t]] = k
             /\ \E b \in blocked :
                \/ Holds(n_streams[b], Chains[p].workers, D[n_held[k][t]])
                \/ \E u \in T : n_held[b][u] = D[n_held[k][t]]
  <2>1. k \in K /\ n_held[k][t] # 0
    BY <1>1 DEF Nested!Circle
  <2>2. /\ n_held[k][t] \in J /\ where[n_held[k][t]] = "held"
        /\ who[n_held[k][t]] = t /\ copy[n_held[k][t]] = k
    BY <1>3, <2>1 DEF NestedTold
  <2>3. n_held[k][t] \in n_submitted
    BY <1>3, <2>2 DEF NestedTold
  <2>4. PICK b \in blocked : \/ Nested(p)!QueuedIn(b, D[n_held[k][t]])
                             \/ \E u \in T : n_held[b][u] = D[n_held[k][t]]
    BY <1>1 DEF Nested!Circle, D
  <2>5. Nested(p)!QueuedIn(b, D[n_held[k][t]]) => Holds(n_streams[b], Chains[p].workers, D[n_held[k][t]])
    BY DEF Nested!QueuedIn, Holds
  <2> QED BY <2>1, <2>2, <2>3, <2>4, <2>5
<1>6. ASSUME NEW k \in blocked, NEW t \in T PROVE D[n_held[k][t]] \in J
  <2>1. PICK b \in blocked : \/ Holds(n_streams[b], Chains[p].workers, D[n_held[k][t]])
                             \/ \E u \in T : n_held[b][u] = D[n_held[k][t]]
    BY <1>5
  <2>2. b \in K
    BY <1>1
  <2> QED BY <1>3, <1>5, <2>1, <2>2 DEF NestedTold
<1>7. T # {} /\ IsFiniteSet(T) /\ IsFiniteSet(J) /\ 0 \notin J
      /\ \A S : Nested(p)!Cardinality(S) = Cardinality(S)
  BY <1>2, NestedExecutor DEF NestedShape, Nested!NestedAssumption, IsFiniteSet, Nested!IsFiniteSet
<1>8. CASE Nested(p)!Few
  <2> DEFINE waiting == {j \in J : D[j] # 0}
  <2>1. Cardinality(waiting) < Cardinality(T)
    BY <1>7, <1>8 DEF Nested!Few, D
  <2>2. PICK k \in blocked : TRUE
    BY <1>1
  <2> DEFINE f == [t \in T |-> n_held[k][t]]
  <2>3. f \in [T -> waiting] /\ \A t, u \in T : f[t] = f[u] => t = u
    <3>1. \A t \in T : n_held[k][t] \in J /\ D[n_held[k][t]] # 0 /\ who[n_held[k][t]] = t
      BY <1>5, <1>6, <1>7
    <3> QED BY <3>1
  <2>4. f \in Injection(T, waiting)
    BY <2>3 DEF Injection, IsInjective
  <2>5. IsFiniteSet(waiting)
    BY <1>7, FS_Subset
  <2>6. Cardinality(T) <= Cardinality(waiting)
    BY <2>4, <2>5, FS_Injection
  <2> QED BY <1>7, <2>1, <2>5, <2>6, FS_CardinalityType
<1>9. CASE Nested(p)!Spread
  <2> DEFINE S == {n_held[k][t] : k \in blocked, t \in T}
  <2>1. S \subseteq n_submitted /\ S # {}
    <3>1. PICK k \in blocked, t \in T : TRUE
      BY <1>1, <1>7
    <3>2. S \subseteq n_submitted /\ n_held[k][t] \in S
      BY <1>5, <3>1
    <3> HIDE DEF S
    <3> QED BY <3>2
  <2>2. ASSUME NEW i \in J, NEW j \in J, copy[i] = copy[j], copy[j] \in K PROVE i = j
    <3> DEFINE n == Cardinality(Chains[p].workers)
    <3>1. n \in Nat \ {0} /\ (Nested(p)!E!HoldsSingle <=> n = 1) /\ K = 0 .. n - 1
      BY NestedExecutor
    <3> HIDE DEF n
    <3>2. i \in Nested(p)!Picked(copy) /\ j \in Nested(p)!Picked(copy)
      BY <2>2, <3>1 DEF Nested!Picked
    <3>3. CASE ~Nested(p)!E!HoldsSingle
      BY <1>3, <1>9, <2>2, <3>2, <3>3 DEF Nested!Robin
    <3>4. CASE Nested(p)!E!HoldsSingle
      <4>1. Cardinality(J) <= 1
        BY <1>7, <1>9, <3>1, <3>4 DEF Nested!Spread, n
      <4>2. Cardinality({i, j}) <= Cardinality(J) /\ IsFiniteSet({i, j})
        BY <1>7, FS_Subset
      <4>3. SUFFICES ASSUME i # j PROVE FALSE
        OBVIOUS
      <4>4. Cardinality({i, j}) = 2
        <5>1. Cardinality({j}) = 1 /\ IsFiniteSet({j})
          BY FS_Singleton
        <5>2. {i, j} = {j} \union {i} /\ i \notin {j}
          <6>1. i \notin {j}
            BY <4>3
          <6> QED BY <6>1
        <5>3. Cardinality({j} \union {i}) = Cardinality({j}) + 1
          BY <5>1, <5>2, FS_AddElement
        <5> QED BY <5>1, <5>2, <5>3
      <4> QED BY <1>7, <4>1, <4>2, <4>4, FS_CardinalityType
    <3> QED BY <3>3, <3>4
  <2>3. ASSUME NEW k \in blocked, NEW t \in T PROVE D[n_held[k][t]] \in S
    <3>1. PICK b \in blocked : \/ Holds(n_streams[b], Chains[p].workers, D[n_held[k][t]])
                               \/ \E u \in T : n_held[b][u] = D[n_held[k][t]]
      BY <1>5
    <3>2. CASE Holds(n_streams[b], Chains[p].workers, D[n_held[k][t]])
      <4>1. D[n_held[k][t]] \in J /\ where[D[n_held[k][t]]] = "queue" /\ copy[D[n_held[k][t]]] = b /\ b \in K
        BY <1>1, <1>3, <3>1, <3>2 DEF NestedTold
      <4>2. PICK u \in T : TRUE
        BY <1>7
      <4>3. n_held[b][u] \in J /\ where[n_held[b][u]] = "held" /\ copy[n_held[b][u]] = b
        BY <1>5, <3>1
      <4>4. n_held[b][u] = D[n_held[k][t]]
        BY <2>2, <4>1, <4>3
      <4> QED BY <4>1, <4>3, <4>4
    <3> QED BY <3>1, <3>2
  <2>4. ASSUME NEW j \in S PROVE D[j] \in S
    BY <2>3
  <2> HIDE DEF S
  <2> QED BY <1>4, <2>1, <2>4
<1> QED BY <1>1, <1>8, <1>9

-----------------------------------------------------------------------------
(***************************************************************************)
(* The pools of TaskPool.hpp nested in each other: every job is at one     *)
(* place, whichever thread and copy it goes through, and no copy is picked *)
(* twice before the round robin has been round.                            *)
(***************************************************************************)
THEOREM NestedInvariance == NestedSpec => []NestedInv
<1>1. \A p \in DOMAIN Chains : Nested(p)!NestedAssumption
  BY NestedAssumption
<1>2. NestedInit => NestedInv
  BY <1>1, NestedStep DEF NestedInit, NestedInv
<1>3. NestedInv /\ [NestedNext]_<<program, nestedVars>> => NestedInv'
  <2> SUFFICES ASSUME NestedInv, [NestedNext]_<<program, nestedVars>>,
                      NEW p \in DOMAIN Chains, program' = p
               PROVE  Nested(p)!IInv'
    BY DEF NestedInv
  <2>1. program = p /\ Nested(p)!NestedAssumption /\ Nested(p)!IInv
    BY <1>1 DEF NestedNext, NestedInv
  <2>2. CASE Nested(p)!Next
    BY <2>1, <2>2, NestedStep
  <2>3. CASE UNCHANGED nestedVars
    BY <2>1, <2>3, NestedStep
  <2> QED BY <2>1, <2>2, <2>3 DEF NestedNext
<1> QED BY <1>2, <1>3, PTL DEF NestedSpec

(***************************************************************************)
(* The copies of a nested pool never block one another for ever, each      *)
(* waiting in future.get() for a job behind another's, if they are as many *)
(* as the jobs or have more threads than jobs that wait.                   *)
(***************************************************************************)
THEOREM NoCircleCorrect == NestedSpec => []NoCircle
<1>1. NestedInv => NoCircle
  BY NestedAssumption, NestedSafe DEF NestedInv, NoCircle
<1> QED BY <1>1, NestedInvariance, PTL
=============================================================================
