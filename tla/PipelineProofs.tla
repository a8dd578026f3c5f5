--------------------------- MODULE PipelineProofs ---------------------------
(***************************************************************************)
(* Proofs about Pipeline, for any callers, jobs, chains and contents of    *)
(* the stages: its types, that every job is in one place in each stage,    *)
(* that the stages never block each other with the jobs of one caller, and *)
(* the safety part of the refinement of Pattern.                           *)
(***************************************************************************)
EXTENDS MCPipeline, StreamLemmas

\* How the flags, the executors and the owner's position go together.
Lifecycle ==
    /\ owner = "spawn" => up /\ ~initialized /\ ~dying
    /\ owner = "join" => up /\ initialized /\ dying
    /\ owner = "idle" => up = initialized /\ (initialized => ~dying)
    /\ owner = "gone" => ~up /\ ~initialized
    /\ ~up => \A s \in Stages : pc[s] = "off"

\* A caller between its two pushes is in the middle of a Compute of its own.
Halves ==
    \A c \in Callers : half[c] # NoJob =>
        owner # "gone" /\ half[c] \notin submitted /\ CallerOf[half[c]] = c

\* A job that left the queue of a stage left none behind that it depends on,
\* and no job depends on itself.
DepsFirst(s) ==
    \A j \in Pushed(s) : Dep[j] # NoJob =>
        /\ Dep[j] \in submitted /\ Dep[j] # j
        /\ Queued(s, Dep[j]) => Queued(s, j)

\* What holds of each stage.
StageInv(s) ==
    /\ \A j \in Jobs : OneHome(s, j)
    /\ InOrder(streams[s], Callers, CallerOf, Dep)
    /\ DepsFirst(s)
    /\ Kind[s] = "leaf" => inner[s] = {}

\* A caller's stream of the second queue, with the job it is about to push.
Second(c) == IF half[c] = NoJob THEN streams[2][c] ELSE Append(streams[2][c], half[c])

\* The caller's streams of both queues are ends of one history of calls.
SameOrder == \A c \in Callers : SameEnd(streams[1][c], Second(c))

\* The intermediate value of a job is set after its input.
InputsFirst == \A j \in done[1] : InputReady(j)

\* The inductive invariant, in the layers it is proved in.
Types == TypeOK

Life == Lifecycle /\ Halves

Places == (\A s \in Stages : StageInv(s)) /\ SameOrder /\ InputsFirst

IInv == Types /\ Life /\ Places

-----------------------------------------------------------------------------
\* Every step keeps the types.
LEMMA TypesStep == Types /\ [Next]_vars => Types'
<1> SUFFICES ASSUME Types, [Next]_vars PROVE Types'
  OBVIOUS
<1> USE DEF Types, TypeOK
<1>1. ASSUME NEW j \in Jobs, PushFirst(j) PROVE Types'
  <2>1. streams[1] \in [Callers -> Seq(Jobs)] /\ CallerOf[j] \in Callers
    BY ChainAssumption DEF Stages
  <2>2. streams[1][CallerOf[j]] \in Seq(Jobs)
    BY <2>1
  <2>3. Append(streams[1][CallerOf[j]], j) \in Seq(Jobs)
    BY <2>2, AppendProperties
  <2> QED BY <1>1, <2>1, <2>3 DEF PushFirst, life, threads, values
<1>2. ASSUME NEW j \in Jobs, Supply(j) PROVE Types'
  BY <1>2 DEF Supply, life, threads, calls
<1>3. ASSUME NEW c \in Callers, PushSecond(c) PROVE Types'
  <2>1. streams[2] \in [Callers -> Seq(Jobs)] /\ half[c] \in Jobs
    BY <1>3 DEF Stages, PushSecond, FinishCompute
  <2>2. Append(streams[2][c], half[c]) \in Seq(Jobs)
    BY <2>1, AppendProperties
  <2> QED BY <1>3, <2>1, <2>2 DEF PushSecond, FinishCompute, life, threads, values
<1>4. CASE InitBegin
  BY <1>4 DEF InitBegin, threads, calls, values
<1>5. CASE InitEnd
  BY <1>5 DEF InitEnd, threads, calls, values
<1>6. CASE DisposeBegin
  BY <1>6 DEF DisposeBegin, threads, calls, values
<1>7. CASE DisposeEnd
  BY <1>7, PipelineAssumption DEF DisposeEnd, calls, values
<1>8. CASE Destroy
  BY <1>8, EmptySeq DEF Destroy, Drop, threads, calls, values
<1>9. ASSUME NEW s \in Stages, Spawn(s) PROVE Types'
  BY <1>9 DEF Spawn, life, calls, values
<1>10. ASSUME NEW s \in Stages, TestDying(s) PROVE Types'
  BY <1>10 DEF TestDying, life, calls, values
<1>11. ASSUME NEW s \in Stages, Pop(s) PROVE Types'
  <2>1. PICK c \in Callers : Take(s, c, Tail(streams[s][c]))
    BY <1>11 DEF Pop
  <2>2. streams[s][c] \in Seq(Jobs) /\ streams[s][c] # <<>>
    BY <2>1 DEF Take
  <2>3. Head(streams[s][c]) \in Jobs /\ Tail(streams[s][c]) \in Seq(Jobs)
    BY <2>2, HeadTailProperties
  <2> QED BY <2>1, <2>3, PipelineAssumption DEF Take, life, calls, values
<1>12. ASSUME NEW s \in Stages, PopFail(s) PROVE Types'
  BY <1>12 DEF PopFail, life, calls, values
<1>13. ASSUME NEW s \in Stages, Execute(s) PROVE Types'
  BY <1>13, PipelineAssumption DEF Execute, SetValue, life, calls
<1>14. ASSUME NEW s \in Stages, HandOver(s) PROVE Types'
  BY <1>14, PipelineAssumption DEF HandOver, life, calls, values
<1>15. ASSUME NEW s \in Stages, NEW j \in Jobs, InnerAnswer(s, j) PROVE Types'
  BY <1>15 DEF InnerAnswer, life, threads, calls
<1>16. CASE UNCHANGED vars
  BY <1>16 DEF vars, life, threads, calls, values
<1> QED
  BY <1>1, <1>2, <1>3, <1>4, <1>5, <1>6, <1>7, <1>8, <1>9, <1>10,
     <1>11, <1>12, <1>13, <1>14, <1>15, <1>16
  DEF Next, Stage, Terminated

\* Every step keeps the flags, the threads and the callers in step with the
\* owner.
LEMMA LifeStep == Types /\ Life /\ [Next]_vars => Life'
<1> SUFFICES ASSUME Types, Life, [Next]_vars PROVE Life'
  OBVIOUS
<1> USE DEF Types, TypeOK, Life, Lifecycle, Halves
<1>1. ASSUME NEW j \in Jobs, PushFirst(j) PROVE Life'
  BY <1>1, ChainAssumption DEF PushFirst, life, threads, values
<1>2. ASSUME NEW j \in Jobs, Supply(j) PROVE Life'
  BY <1>2 DEF Supply, life, threads, calls
<1>3. ASSUME NEW c \in Callers, PushSecond(c) PROVE Life'
  BY <1>3 DEF PushSecond, FinishCompute, life, threads, values
<1>4. CASE InitBegin
  BY <1>4 DEF InitBegin, threads, calls, values
<1>5. CASE InitEnd
  BY <1>5 DEF InitEnd, threads, calls, values
<1>6. CASE DisposeBegin
  BY <1>6 DEF DisposeBegin, threads, calls, values
<1>7. CASE DisposeEnd
  BY <1>7 DEF DisposeEnd, calls, values
<1>8. CASE Destroy
  BY <1>8 DEF Destroy, Drop, threads, calls, values
<1>9. ASSUME NEW s \in Stages, Spawn(s) PROVE Life'
  BY <1>9 DEF Spawn, life, calls, values
<1>10. ASSUME NEW s \in Stages, TestDying(s) PROVE Life'
  BY <1>10 DEF TestDying, life, calls, values
<1>11. ASSUME NEW s \in Stages, Pop(s) PROVE Life'
  BY <1>11 DEF Pop, Take, life, calls, values
<1>12. ASSUME NEW s \in Stages, PopFail(s) PROVE Life'
  BY <1>12 DEF PopFail, life, calls, values
<1>13. ASSUME NEW s \in Stages, Execute(s) PROVE Life'
  BY <1>13 DEF Execute, SetValue, life, calls
<1>14. ASSUME NEW s \in Stages, HandOver(s) PROVE Life'
  BY <1>14 DEF HandOver, life, calls, values
<1>15. ASSUME NEW s \in Stages, NEW j \in Jobs, InnerAnswer(s, j) PROVE Life'
  BY <1>15 DEF InnerAnswer, life, threads, calls
<1>16. CASE UNCHANGED vars
  BY <1>16 DEF vars, life, threads, calls, values
<1> QED
  BY <1>1, <1>2, <1>3, <1>4, <1>5, <1>6, <1>7, <1>8, <1>9, <1>10,
     <1>11, <1>12, <1>13, <1>14, <1>15, <1>16
  DEF Next, Stage, Terminated

-----------------------------------------------------------------------------
\* A step that moves no job of a stage.
LEMMA StageFrame ==
    ASSUME NEW s \in Stages, StageInv(s),
           streams'[s] = streams[s], job'[s] = job[s], inner'[s] = inner[s], done'[s] = done[s],
           Pushed(s)' = Pushed(s), submitted \subseteq submitted',
           owner' = "gone" <=> owner = "gone"
    PROVE  StageInv(s)'
<1> USE DEF StageInv
<1>1. \A j : Queued(s, j)' <=> Queued(s, j)
  BY DEF Queued
<1>2. Broken(s)' = Broken(s)
  BY DEF Broken
<1>3. (\A j \in Jobs : OneHome(s, j))'
  BY <1>1, <1>2 DEF OneHome
<1>4. InOrder(streams[s], Callers, CallerOf, Dep)'
  BY DEF InOrder, Apart, Once, Belongs, Ordered
<1>5. DepsFirst(s)'
  BY <1>1 DEF DepsFirst
<1> QED BY <1>3, <1>4, <1>5

\* A job joins the end of its caller's stream of a stage.
LEMMA StagePush ==
    ASSUME TypeOK, NEW s \in Stages, StageInv(s), NEW c \in Callers, NEW j \in Jobs,
           CallerOf[j] = c, j \notin Pushed(s), j \notin submitted,
           Dep[j] # NoJob => Dep[j] \in submitted /\ Dep[j] # j,
           streams'[s] = PushOn(streams[s], c, j),
           Pushed(s)' = Pushed(s) \union {j}, submitted \subseteq submitted',
           job'[s] = job[s], inner'[s] = inner[s], done'[s] = done[s],
           owner # "gone", owner' # "gone"
    PROVE  StageInv(s)'
<1> USE DEF StageInv
<1>1. streams[s] \in [Callers -> Seq(Jobs)]
  BY DEF TypeOK
<1>2. \A x : Queued(s, x)' <=> Queued(s, x) \/ x = j
  <2>1. \A x : Holds(streams'[s], Callers, x) <=> Holds(streams[s], Callers, x) \/ x = j
    <3> DEFINE q == streams[s]
               r == streams'[s]
    <3>1. q \in [Callers -> Seq(Jobs)] /\ r = PushOn(q, c, j)
      BY <1>1
    <3> HIDE DEF q, r
    <3>2. \A x : Holds(r, Callers, x) <=> Holds(q, Callers, x) \/ x = j
      BY <3>1, PushHolds
    <3> QED BY <3>2 DEF q, r
  <2> QED BY <2>1 DEF Holds, Queued
<1>3. Broken(s) = {} /\ Broken(s)' = {}
  BY DEF Broken
<1>4. (\A k \in Jobs : OneHome(s, k))'
  BY <1>2, <1>3 DEF OneHome
<1>5. /\ ~Holds(streams[s], Callers, j)
      /\ \A x \in Jobs : Holds(streams[s], Callers, x) => x \in Pushed(s)
  BY DEF OneHome, Queued, Holds
<1>6. \A x \in Jobs : Holds(streams[s], Callers, x) => Dep[x] # j
  BY <1>5, PipelineAssumption DEF DepsFirst
<1>7. Dep[j] # j
  BY PipelineAssumption
<1>8. InOrder(streams'[s], Callers, CallerOf, Dep)
  <2> DEFINE q == streams[s]
             r == streams'[s]
  <2>1. /\ q \in [Callers -> Seq(Jobs)] /\ r = PushOn(q, c, j)
        /\ InOrder(q, Callers, CallerOf, Dep)
        /\ ~Holds(q, Callers, j) /\ \A x \in Jobs : Holds(q, Callers, x) => Dep[x] # j
    BY <1>1, <1>5, <1>6
  <2> HIDE DEF q, r
  <2>2. InOrder(r, Callers, CallerOf, Dep)
    BY <1>7, <2>1, PushKeeps
  <2> QED BY <2>2 DEF q, r
<1>9. InOrder(streams[s], Callers, CallerOf, Dep)'
  BY <1>8 DEF InOrder, Apart, Once, Belongs, Ordered
<1>10. DepsFirst(s)'
  BY <1>2, PipelineAssumption DEF DepsFirst
<1> QED BY <1>4, <1>9, <1>10

\* A job moves from the head of a stream to the stage's thread.
LEMMA StagePop ==
    ASSUME TypeOK, NEW s \in Stages, StageInv(s), NEW c \in Callers, streams[s][c] # <<>>,
           job[s] = NoJob, job'[s] = Head(streams[s][c]),
           streams'[s] = PopOf(streams[s], c),
           inner'[s] = inner[s], done'[s] = done[s],
           Pushed(s)' = Pushed(s), submitted' = submitted, owner' = owner
    PROVE  StageInv(s)'
<1> USE DEF StageInv
<1> DEFINE x == Head(streams[s][c])
<1>1. streams[s] \in [Callers -> Seq(Jobs)]
  BY DEF TypeOK
<1>2. x \in Jobs /\ Queued(s, x) /\ \A k : Queued(s, k)' <=> Queued(s, k) /\ k # x
  <2>1. /\ x \in Jobs /\ Holds(streams[s], Callers, x)
        /\ \A k : Holds(streams'[s], Callers, k) <=> Holds(streams[s], Callers, k) /\ k # x
    BY <1>1, PopHolds DEF InOrder, Apart
  <2> HIDE DEF x
  <2> QED BY <2>1 DEF Holds, Queued
<1>4. /\ InOrder(streams'[s], Callers, CallerOf, Dep)
      /\ CallerOf[x] = c
      /\ \A i \in 1 .. Len(streams[s][c]) : Dep[x] # streams[s][c][i]
  <2> DEFINE q == streams[s]
             r == streams'[s]
  <2>1. /\ q \in [Callers -> Seq(Jobs)] /\ q[c] # <<>> /\ r = PopOf(q, c)
        /\ InOrder(q, Callers, CallerOf, Dep)
    BY <1>1
  <2> HIDE DEF q, r
  <2>2. /\ InOrder(r, Callers, CallerOf, Dep)
        /\ CallerOf[Head(q[c])] = c
        /\ \A i \in 1 .. Len(q[c]) : Dep[Head(q[c])] # q[c][i]
    BY <2>1, PopKeeps
  <2> QED BY <2>2 DEF q, r
<1> HIDE DEF x
<1>5. InOrder(streams[s], Callers, CallerOf, Dep)'
  BY <1>4 DEF InOrder, Apart, Once, Belongs, Ordered
<1>6. Broken(s)' = Broken(s)
  BY DEF Broken
<1>7. (\A k \in Jobs : OneHome(s, k))'
  BY <1>2, <1>6, PipelineAssumption DEF OneHome, x
<1>8. Dep[x] # NoJob => ~Queued(s, Dep[x])
  BY <1>2, <1>4, ChainAssumption DEF Queued, InOrder, Apart, Belongs
<1>9. DepsFirst(s)'
  BY <1>2, <1>8 DEF DepsFirst
<1> QED BY <1>5, <1>7, <1>9

\* The job of the stage's thread goes on to an asynchronous pattern, or its
\* promise is set.
LEMMA StageLeave ==
    ASSUME TypeOK, Life, NEW s \in Stages, StageInv(s), job[s] # NoJob, job'[s] = NoJob,
           \/ inner'[s] = inner[s] \union {job[s]} /\ done'[s] = done[s] /\ Kind[s] = "async"
           \/ done'[s] = done[s] \union {job[s]} /\ inner'[s] = inner[s],
           UNCHANGED <<owner, streams, submitted, half>>
    PROVE  StageInv(s)'
<1> USE DEF StageInv
<1>1. \A k : Queued(s, k)' <=> Queued(s, k)
  BY DEF Queued
<1>2. Pushed(s)' = Pushed(s)
  BY DEF Pushed
<1>3. pc[s] = "run" /\ job[s] \in Jobs
  BY DEF TypeOK
<1>4. Broken(s) = {} /\ Broken(s)' = {}
  BY <1>3 DEF Broken, Life, Lifecycle
<1>5. (\A k \in Jobs : OneHome(s, k))'
  BY <1>1, <1>2, <1>3, <1>4, PipelineAssumption DEF OneHome
<1>6. InOrder(streams[s], Callers, CallerOf, Dep)'
  BY DEF InOrder, Apart, Once, Belongs, Ordered
<1>7. DepsFirst(s)'
  BY <1>1, <1>2 DEF DepsFirst
<1> QED BY <1>5, <1>6, <1>7, PipelineAssumption

\* The asynchronous pattern of a stage answers a job.
LEMMA StageAnswer ==
    ASSUME NEW s \in Stages, StageInv(s), NEW j \in Jobs, InnerAnswer(s, j), owner # "gone",
           inner \in [Stages -> SUBSET Jobs], done \in [Stages -> SUBSET Jobs]
    PROVE  StageInv(s)'
<1> USE DEF StageInv
<1>1. /\ j \in inner[s] /\ inner'[s] = inner[s] \ {j} /\ done'[s] = done[s] \union {j}
      /\ UNCHANGED <<owner, job, streams, submitted, half>>
  BY DEF InnerAnswer, life, threads, calls
<1>2. /\ \A k : Queued(s, k)' <=> Queued(s, k)
      /\ Pushed(s)' = Pushed(s)
      /\ Broken(s) = {} /\ Broken(s)' = {}
  BY <1>1 DEF Queued, Pushed, Broken
<1>3. (\A k \in Jobs : OneHome(s, k))'
  BY <1>1, <1>2 DEF OneHome
<1>4. InOrder(streams[s], Callers, CallerOf, Dep)'
  BY <1>1 DEF InOrder, Apart, Once, Belongs, Ordered
<1>5. DepsFirst(s)'
  BY <1>1, <1>2 DEF DepsFirst
<1> QED BY <1>1, <1>3, <1>4, <1>5

\* No thread holds a job when the members go; what is left is broken.
LEMMA StageDestroy ==
    ASSUME TypeOK, Life, NEW s \in Stages, StageInv(s), Destroy
    PROVE  StageInv(s)'
<1> USE DEF StageInv
<1>1. /\ owner = "idle" /\ owner' = "gone" /\ ~up
      /\ streams'[s] = [c \in Callers |-> <<>>] /\ inner'[s] = {}
      /\ UNCHANGED <<pc, job, submitted, half, done>>
  BY DEF Destroy, Drop, threads, calls, values, Life, Lifecycle
<1>2. job[s] = NoJob
  BY <1>1 DEF TypeOK, Life, Lifecycle
<1>3. \A c \in Callers : Len(streams'[s][c]) = 0
  BY <1>1, EmptySeq
<1>4. \A k : ~Queued(s, k)'
  BY <1>3 DEF Queued
<1>5. Broken(s) = {} /\ Broken(s)' = Pushed(s) \ done[s] /\ Pushed(s)' = Pushed(s)
  BY <1>1 DEF Broken, Pushed
<1>6. (\A k \in Jobs : OneHome(s, k))'
  BY <1>1, <1>2, <1>4, <1>5, PipelineAssumption DEF OneHome
<1>7. InOrder(streams[s], Callers, CallerOf, Dep)'
  BY <1>3 DEF InOrder, Apart, Once, Belongs, Ordered
<1>8. DepsFirst(s)'
  BY <1>1, <1>4, <1>5 DEF DepsFirst
<1> QED BY <1>1, <1>6, <1>7, <1>8

-----------------------------------------------------------------------------
\* What the stages have in common when a step leaves their streams.
LEMMA OrderFrame ==
    ASSUME SameOrder, InputsFirst, UNCHANGED <<streams, half>>,
           \A j \in done'[1] \ done[1] : InputReady(j),
           supplied \subseteq supplied', done[2] \subseteq done'[2]
    PROVE  SameOrder' /\ InputsFirst'
<1>1. SameOrder'
  BY DEF SameOrder, Second
<1>2. InputsFirst'
  BY DEF InputsFirst, InputReady
<1> QED BY <1>1, <1>2

\* PushFirst keeps the invariant of both stages.
LEMMA PlacesPushFirst ==
    ASSUME Types, Life, Places, NEW j \in Jobs, PushFirst(j)
    PROVE  Places'
<1> DEFINE c == CallerOf[j]
<1>1. /\ c \in Callers /\ owner # "gone" /\ owner' # "gone"
      /\ half[c] = NoJob /\ j \notin submitted
      /\ Dep[j] # NoJob => Dep[j] \in submitted
      /\ half' = [half EXCEPT ![c] = j]
      /\ streams' = [streams EXCEPT ![1][c] = Append(@, j)]
      /\ UNCHANGED <<owner, job, submitted, inner, supplied, done>>
  BY ChainAssumption DEF PushFirst, life, threads, values
<1>2. /\ half \in [Callers -> Jobs \union {NoJob}]
      /\ streams \in [Stages -> [Callers -> Seq(Jobs)]]
      /\ 1 \in Stages /\ 2 \in Stages
  BY DEF Types, TypeOK, Stages
<1>3. streams'[1] = PushOn(streams[1], c, j) /\ streams'[2] = streams[2]
  BY <1>1, <1>2 DEF PushOn, Stages
<1>4. \A d \in Callers : half[d] # j
  BY <1>1, PipelineAssumption DEF Life, Halves
<1>5. Pushed(1)' = Pushed(1) \union {j} /\ j \notin Pushed(1) /\ Pushed(2)' = Pushed(2)
  BY <1>1, <1>2, <1>4, PipelineAssumption DEF Pushed
<1>6. StageInv(1)'
  BY <1>1, <1>2, <1>3, <1>5, StagePush DEF Types, Places
<1>7. StageInv(2)'
  BY <1>1, <1>2, <1>3, <1>5, StageFrame DEF Places
<1>8. ASSUME NEW d \in Callers PROVE SameEnd(streams'[1][d], Second(d)')
  <2>1. SameEnd(streams[1][d], Second(d))
    BY DEF Places, SameOrder
  <2>2. CASE d = c
    <3>1. streams'[1][d] = Append(streams[1][d], j) /\ Second(d)' = Append(streams[2][d], j)
      BY <1>1, <1>2, <2>2, PipelineAssumption DEF Second, Stages
    <3>2. SameEnd(streams[1][d], streams[2][d])
      BY <1>1, <2>1, <2>2 DEF Second
    <3>3. streams[1][d] \in Seq(Jobs) /\ streams[2][d] \in Seq(Jobs)
      BY <1>2
    <3>4. SameEnd(Append(streams[1][d], j), Append(streams[2][d], j))
      BY <3>2, <3>3, SameEndPush
    <3> QED BY <3>1, <3>4
  <2>3. CASE d # c
    <3>1. streams'[1][d] = streams[1][d] /\ Second(d)' = Second(d)
      BY <1>1, <1>2, <2>3 DEF Second, Stages
    <3> QED BY <2>1, <3>1
  <2> QED BY <2>2, <2>3
<1>9. InputsFirst'
  BY <1>1 DEF Places, InputsFirst, InputReady
<1> QED BY <1>6, <1>7, <1>8, <1>9 DEF Places, SameOrder, Stages

\* PushSecond keeps the invariant of both stages.
LEMMA PlacesPushSecond ==
    ASSUME Types, Life, Places, NEW c \in Callers, PushSecond(c)
    PROVE  Places'
<1> DEFINE j == half[c]
<1>1. /\ j # NoJob /\ submitted' = submitted \union {j}
      /\ half' = [half EXCEPT ![c] = NoJob]
      /\ streams' = [streams EXCEPT ![2][c] = Append(streams[2][c], j)]
      /\ UNCHANGED <<owner, job, inner, supplied, done>>
  BY DEF PushSecond, FinishCompute, life, threads, values
<1>2. /\ half \in [Callers -> Jobs \union {NoJob}] /\ j \in Jobs
      /\ streams \in [Stages -> [Callers -> Seq(Jobs)]]
      /\ 1 \in Stages /\ 2 \in Stages
  BY <1>1 DEF Types, TypeOK, Stages
<1>3. /\ owner # "gone" /\ owner' # "gone" /\ j \notin submitted /\ CallerOf[j] = c
      /\ \A d \in Callers : d # c => half[d] # j
  BY <1>1 DEF Life, Halves
<1>4. streams'[2] = PushOn(streams[2], c, j) /\ streams'[1] = streams[1]
  BY <1>1, <1>2 DEF PushOn, Stages
<1>5. /\ Pushed(1)' = Pushed(1) /\ j \in Pushed(1)
      /\ Pushed(2)' = Pushed(2) \union {j} /\ j \notin Pushed(2)
  BY <1>1, <1>2, <1>3 DEF Pushed
<1>6. Dep[j] # NoJob => Dep[j] \in submitted /\ Dep[j] # j
  BY <1>2, <1>5 DEF Places, StageInv, DepsFirst
<1> HIDE DEF j
<1>7. StageInv(2)'
  BY <1>1, <1>2, <1>3, <1>4, <1>5, <1>6, StagePush DEF Types, Places
<1>8. StageInv(1)'
  BY <1>1, <1>2, <1>3, <1>4, <1>5, StageFrame DEF Places
<1>9. ASSUME NEW d \in Callers PROVE SameEnd(streams'[1][d], Second(d)')
  <2>1. SameEnd(streams[1][d], Second(d))
    BY DEF Places, SameOrder
  <2>2. streams'[1][d] = streams[1][d]
    BY <1>4
  <2>3. Second(d)' = Second(d)
    BY <1>1, <1>2 DEF Second, Stages, j
  <2> QED BY <2>1, <2>2, <2>3
<1>10. InputsFirst'
  BY <1>1 DEF Places, InputsFirst, InputReady
<1> QED BY <1>7, <1>8, <1>9, <1>10 DEF Places, SameOrder, Stages

\* Pop keeps the invariant of both stages.
LEMMA PlacesPop ==
    ASSUME Types, Life, Places, NEW s \in Stages, Pop(s)
    PROVE  Places'
<1>1. PICK c \in Callers : Take(s, c, Tail(streams[s][c]))
  BY DEF Pop
<1>2. /\ pc[s] = "pop" /\ streams[s][c] # <<>>
      /\ job' = [job EXCEPT ![s] = Head(streams[s][c])]
      /\ streams' = [streams EXCEPT ![s][c] = Tail(streams[s][c])]
      /\ UNCHANGED <<owner, half, submitted, inner, supplied, done>>
  BY <1>1 DEF Take, life, calls, values
<1>3. /\ streams \in [Stages -> [Callers -> Seq(Jobs)]]
      /\ job \in [Stages -> Jobs \union {NoJob}] /\ job[s] = NoJob
      /\ \A r \in Stages : Pushed(r)' = Pushed(r)
  BY <1>2 DEF Types, TypeOK, Pushed
<1>4. streams'[s] = PopOf(streams[s], c) /\ \A r \in Stages : r # s => streams'[r] = streams[r]
  BY <1>2, <1>3 DEF PopOf
<1>5. StageInv(s)'
  BY <1>2, <1>3, <1>4, StagePop DEF Types, Places
<1>6. ASSUME NEW r \in Stages, r # s PROVE StageInv(r)'
  <2>1. job'[r] = job[r] /\ streams'[r] = streams[r]
    BY <1>2, <1>3, <1>4, <1>6
  <2> QED BY <1>2, <1>3, <2>1, StageFrame DEF Places
<1>7. ASSUME NEW d \in Callers PROVE SameEnd(streams'[1][d], Second(d)')
  <2>1. SameEnd(streams[1][d], Second(d))
    BY DEF Places, SameOrder
  <2>2. streams[1][d] \in Seq(Jobs) /\ streams[2][d] \in Seq(Jobs)
        /\ (half[d] # NoJob => half[d] \in Jobs)
    BY <1>3 DEF Types, TypeOK, Stages
  <2>3. Second(d) \in Seq(Jobs)
    BY <2>2, AppendProperties DEF Second
  <2>4. CASE d # c
    <3>1. streams'[1][d] = streams[1][d] /\ Second(d)' = Second(d)
      BY <1>2, <1>3, <2>4 DEF Second, Stages
    <3> QED BY <2>1, <3>1
  <2>5. CASE d = c /\ s = 1
    <3>1. streams'[1][d] = Tail(streams[1][d]) /\ Second(d)' = Second(d) /\ streams[1][d] # <<>>
      BY <1>2, <1>3, <2>5 DEF Second, Stages
    <3>2. SameEnd(Tail(streams[1][d]), Second(d))
      BY <2>1, <2>2, <2>3, <3>1, SameEndPop
    <3> QED BY <3>1, <3>2
  <2>6. CASE d = c /\ s = 2
    <3>1. streams'[1][d] = streams[1][d] /\ streams'[2][d] = Tail(streams[2][d]) /\ streams[2][d] # <<>>
      BY <1>2, <1>3, <2>6 DEF Stages
    <3>2. Second(d)' = Tail(Second(d)) /\ Second(d) # <<>>
      <4>1. CASE half[d] = NoJob
        BY <1>2, <3>1, <4>1 DEF Second
      <4>2. CASE half[d] # NoJob
        <5>1. /\ Second(d) = Append(streams[2][d], half[d])
              /\ Second(d)' = Append(Tail(streams[2][d]), half[d])
          BY <1>2, <3>1, <4>2 DEF Second
        <5>2. Tail(Append(streams[2][d], half[d])) = Append(Tail(streams[2][d]), half[d])
          BY <2>2, <3>1, <4>2, HeadTailAppend
        <5>3. Append(streams[2][d], half[d]) # <<>>
          BY <2>2, <4>2, AppendProperties
        <5> QED BY <5>1, <5>2, <5>3
      <4> QED BY <4>1, <4>2
    <3>3. SameEnd(streams[1][d], Tail(Second(d)))
      BY <2>1, <2>2, <2>3, <3>2, SameEndPop
    <3> QED BY <3>1, <3>2, <3>3
  <2> QED BY <2>4, <2>5, <2>6 DEF Stages
<1>8. InputsFirst'
  BY <1>2 DEF Places, InputsFirst, InputReady
<1> QED BY <1>5, <1>6, <1>7, <1>8 DEF Places, SameOrder

\* Execute and HandOver keep the invariant of both stages.
LEMMA PlacesLeave ==
    ASSUME Types, Life, Places, NEW s \in Stages, Execute(s) \/ HandOver(s)
    PROVE  Places'
<1>1. /\ pc[s] = "run"
      /\ job' = [job EXCEPT ![s] = NoJob]
      /\ UNCHANGED <<owner, streams, half, submitted, supplied>>
  BY DEF Execute, SetValue, HandOver, life, calls, values
<1>2. /\ job \in [Stages -> Jobs \union {NoJob}] /\ job[s] \in Jobs /\ job[s] # NoJob
      /\ inner \in [Stages -> SUBSET Jobs] /\ done \in [Stages -> SUBSET Jobs]
      /\ 1 \in Stages /\ 2 \in Stages
      /\ \A r \in Stages : Pushed(r)' = Pushed(r)
  BY <1>1 DEF Types, TypeOK, Pushed, Stages
<1>3. \/ /\ Ready(s, job[s]) /\ UNCHANGED inner
         /\ done' = [done EXCEPT ![s] = @ \union {job[s]}]
      \/ /\ Kind[s] = "async" /\ UNCHANGED done
         /\ inner' = [inner EXCEPT ![s] = @ \union {job[s]}]
  BY DEF Execute, SetValue, HandOver, values
<1>4. /\ job'[s] = NoJob
      /\ \/ inner'[s] = inner[s] \union {job[s]} /\ done'[s] = done[s] /\ Kind[s] = "async"
         \/ done'[s] = done[s] \union {job[s]} /\ inner'[s] = inner[s]
  BY <1>1, <1>2, <1>3
<1>5. StageInv(s)'
  BY <1>1, <1>2, <1>4, StageLeave DEF Types, Places
<1>6. ASSUME NEW r \in Stages, r # s PROVE StageInv(r)'
  <2>1. job'[r] = job[r] /\ inner'[r] = inner[r] /\ done'[r] = done[r] /\ streams'[r] = streams[r]
    BY <1>1, <1>2, <1>3, <1>6
  <2> QED BY <1>1, <1>2, <2>1, StageFrame DEF Places
<1>7. (\A j \in done'[1] \ done[1] : InputReady(j)) /\ done[2] \subseteq done'[2]
  BY <1>2, <1>3 DEF Ready
<1>8. SameOrder' /\ InputsFirst'
  BY <1>1, <1>7, OrderFrame DEF Places
<1> QED BY <1>5, <1>6, <1>8 DEF Places

\* InnerAnswer keeps the invariant of both stages.
LEMMA PlacesAnswer ==
    ASSUME Types, Life, Places, NEW s \in Stages, NEW j \in Jobs, InnerAnswer(s, j)
    PROVE  Places'
<1>1. /\ up /\ Ready(s, j)
      /\ inner' = [inner EXCEPT ![s] = @ \ {j}]
      /\ done' = [done EXCEPT ![s] = @ \union {j}]
      /\ UNCHANGED <<owner, job, streams, half, submitted, supplied>>
  BY DEF InnerAnswer, life, threads, calls
<1>2. /\ inner \in [Stages -> SUBSET Jobs] /\ done \in [Stages -> SUBSET Jobs]
      /\ 1 \in Stages /\ 2 \in Stages
      /\ \A r \in Stages : Pushed(r)' = Pushed(r)
  BY <1>1 DEF Types, TypeOK, Pushed, Stages
<1>3. owner # "gone"
  BY <1>1 DEF Life, Lifecycle
<1>4. StageInv(s)'
  BY <1>2, <1>3, StageAnswer DEF Places
<1>5. ASSUME NEW r \in Stages, r # s PROVE StageInv(r)'
  <2>1. job'[r] = job[r] /\ inner'[r] = inner[r] /\ done'[r] = done[r] /\ streams'[r] = streams[r]
    BY <1>1, <1>2, <1>5
  <2> QED BY <1>1, <1>2, <2>1, StageFrame DEF Places
<1>6. (\A k \in done'[1] \ done[1] : InputReady(k)) /\ done[2] \subseteq done'[2]
  BY <1>1, <1>2 DEF Ready
<1>7. SameOrder' /\ InputsFirst'
  BY <1>1, <1>6, OrderFrame DEF Places
<1> QED BY <1>4, <1>5, <1>7 DEF Places

\* Destroy keeps the invariant of both stages.
LEMMA PlacesDestroy ==
    ASSUME Types, Life, Places, Destroy
    PROVE  Places'
<1>1. \A s \in Stages : StageInv(s)'
  BY StageDestroy DEF Types, Places
<1>2. /\ \A c \in Callers : half[c] = NoJob /\ half'[c] = NoJob
      /\ streams' = [s \in Stages |-> [c \in Callers |-> <<>>]]
      /\ UNCHANGED <<done, supplied>>
  BY DEF Destroy, Drop, calls, values
<1>3. \A c \in Callers : Len(streams'[1][c]) = 0
  BY <1>2, EmptySeq DEF Stages
<1>4. SameOrder'
  BY <1>3 DEF SameOrder, SameEnd
<1>5. InputsFirst'
  BY <1>2 DEF Places, InputsFirst, InputReady
<1> QED BY <1>1, <1>4, <1>5 DEF Places

\* Steps of the world, the owner and the threads that move no job.
LEMMA PlacesFrame ==
    ASSUME Places, UNCHANGED <<job, streams, half, submitted, inner, done>>,
           supplied \subseteq supplied', owner' = "gone" <=> owner = "gone"
    PROVE  Places'
<1>1. \A s \in Stages : Pushed(s)' = Pushed(s)
  BY DEF Pushed
<1>2. \A s \in Stages : StageInv(s)'
  BY <1>1, StageFrame DEF Places
<1>3. SameOrder' /\ InputsFirst'
  BY OrderFrame DEF Places
<1> QED BY <1>2, <1>3 DEF Places

\* Every step keeps every job in one place in each stage.
LEMMA PlacesStep == Types /\ Life /\ Places /\ [Next]_vars => Places'
<1> SUFFICES ASSUME Types, Life, Places, [Next]_vars PROVE Places'
  OBVIOUS
<1>1. ASSUME NEW j \in Jobs, PushFirst(j) PROVE Places'
  BY <1>1, PlacesPushFirst
<1>2. ASSUME NEW j \in Jobs, Supply(j) PROVE Places'
  BY <1>2, PlacesFrame DEF Supply, life, threads, calls
<1>3. ASSUME NEW c \in Callers, PushSecond(c) PROVE Places'
  BY <1>3, PlacesPushSecond
<1>4. CASE InitBegin
  BY <1>4, PlacesFrame DEF InitBegin, threads, calls, values
<1>5. CASE InitEnd
  BY <1>5, PlacesFrame DEF InitEnd, threads, calls, values
<1>6. CASE DisposeBegin
  BY <1>6, PlacesFrame DEF DisposeBegin, threads, calls, values
<1>7. CASE DisposeEnd
  BY <1>7, PlacesFrame DEF DisposeEnd, calls, values
<1>8. CASE Destroy
  BY <1>8, PlacesDestroy
<1>9. ASSUME NEW s \in Stages, Spawn(s) \/ TestDying(s) \/ PopFail(s) PROVE Places'
  BY <1>9, PlacesFrame DEF Spawn, TestDying, PopFail, life, calls, values
<1>10. ASSUME NEW s \in Stages, Pop(s) PROVE Places'
  BY <1>10, PlacesPop
<1>11. ASSUME NEW s \in Stages, Execute(s) \/ HandOver(s) PROVE Places'
  BY <1>11, PlacesLeave
<1>12. ASSUME NEW s \in Stages, NEW j \in Jobs, InnerAnswer(s, j) PROVE Places'
  BY <1>12, PlacesAnswer
<1>13. CASE UNCHANGED vars
  BY <1>13, PlacesFrame DEF vars, life, threads, calls, values
<1> QED
  BY <1>1, <1>2, <1>3, <1>4, <1>5, <1>6, <1>7, <1>8, <1>9, <1>10, <1>11, <1>12, <1>13
  DEF Next, Stage, Terminated

\* The initial states satisfy the invariant.
LEMMA InitIInv == Init => IInv
<1> SUFFICES ASSUME Init PROVE IInv
  OBVIOUS
<1>1. streams \in [Stages -> [Callers -> Seq(Jobs)]]
  BY EmptySeq DEF Init
<1>2. Types
  BY <1>1, PipelineAssumption DEF Init, Types, TypeOK
<1>3. Life
  BY DEF Init, Life, Lifecycle, Halves
<1>4. \A s \in Stages, c \in Callers : Len(streams[s][c]) = 0
  BY EmptySeq DEF Init
<1>5. ASSUME NEW s \in Stages PROVE StageInv(s)
  <2>1. /\ \A j : ~Queued(s, j)
        /\ InOrder(streams[s], Callers, CallerOf, Dep)
    BY <1>4 DEF Queued, InOrder, Apart, Once, Belongs, Ordered
  <2>2. Pushed(s) = {} /\ Broken(s) = {} /\ job[s] = NoJob /\ inner[s] = {} /\ done[s] = {}
    BY DEF Init, Pushed, Broken
  <2>3. \A j \in Jobs : OneHome(s, j)
    BY <2>1, <2>2, PipelineAssumption DEF OneHome
  <2> QED BY <2>1, <2>2, <2>3 DEF StageInv, DepsFirst
<1>6. SameOrder
  BY <1>4 DEF SameOrder, SameEnd, Stages
<1>7. InputsFirst
  BY DEF Init, InputsFirst, Stages
<1> QED BY <1>2, <1>3, <1>5, <1>6, <1>7 DEF IInv, Places

\* The invariant is inductive.
THEOREM Invariance == Spec => []IInv
<1>1. IInv /\ [Next]_vars => IInv'
  BY TypesStep, LifeStep, PlacesStep DEF IInv
<1> QED BY <1>1, InitIInv, PTL DEF Spec

\* In each stage every job that was pushed is in exactly one place, for any
\* callers, jobs and contents of the stages, and the types are kept.
THEOREM OnePlaceCorrect == Spec => []OnePlace
<1>1. IInv => OnePlace
  BY DEF IInv, Types, Places, StageInv, InOrder, Apart, Once, OnePlace, QueuedOnce
<1> QED BY <1>1, Invariance, PTL

\* The stages never block each other with two jobs of one caller: a pipeline
\* with one caller cannot deadlock on its own chains.
THEOREM NoSelfCycleCorrect == Spec => []NoSelfCycle
<1>1. ASSUME IInv PROVE NoSelfCycle
  <2> DEFINE x == job[1]
             y == job[2]
             d == Dep[job[1]]
  <2> SUFFICES ASSUME Waits(1), Waits(2), d # NoJob, CallerOf[x] = CallerOf[y]
               PROVE  FALSE
    BY DEF NoSelfCycle
  <2>1. /\ 1 \in Stages /\ 2 \in Stages
        /\ TypeOK /\ StageInv(1) /\ StageInv(2)
    BY <1>1 DEF IInv, Types, Places, Stages
  <2>2. /\ x \in Jobs /\ y \in Jobs /\ d \in Jobs
        /\ d \notin done[2] /\ y \notin done[1]
        /\ inner[1] = {} /\ inner[2] = {}
        /\ CallerOf[d] = CallerOf[y] /\ CallerOf[y] \in Callers
    BY <2>1, PipelineAssumption, ChainAssumption DEF Waits, Ready, InputReady, TypeOK, StageInv
  <2>3. owner # "gone"
    BY <1>1, <2>1 DEF Waits, IInv, Life, Lifecycle
  <2>4. Broken(1) = {} /\ Broken(2) = {} /\ Pushed(2) = submitted /\ submitted \subseteq Pushed(1)
    BY <2>3 DEF Broken, Pushed
  \* The second stage's job has left the second queue and is not in the first
  \* stage's hands; the first stage's job waits for one that was submitted.
  <2>5. x \in Pushed(1) /\ ~Queued(1, x) /\ y \in submitted /\ ~Queued(2, y)
    BY <2>1, <2>2, <2>4 DEF StageInv, OneHome
  <2>6. d \in submitted /\ ~Queued(1, d) /\ d # x
    BY <2>1, <2>5 DEF StageInv, DepsFirst
  <2>7. Queued(2, d) \/ d = y
    BY <2>1, <2>2, <2>4, <2>6 DEF StageInv, OneHome
  <2>8. Queued(1, y) \/ x = y
    BY <2>1, <2>2, <2>4, <2>5 DEF StageInv, OneHome
  <2>9. x # y
    BY <2>1, <2>4, <2>5, <2>6, <2>7 DEF StageInv, DepsFirst
  <2>10. d # y
    BY <2>6, <2>8, <2>9
  \* So y is in the first queue and d in the second, both in the stream of
  \* their caller, whose ends are the same.
  <2>11. PICK c \in Callers : \E m \in 1 .. Len(streams[1][c]) : streams[1][c][m] = y
    BY <2>8, <2>9 DEF Queued
  <2>12. PICK m \in 1 .. Len(streams[1][c]) : streams[1][c][m] = y
    BY <2>11
  <2>13. c = CallerOf[y]
    BY <2>1, <2>12 DEF StageInv, InOrder, Apart, Belongs
  <2>14. PICK e \in Callers : \E n \in 1 .. Len(streams[2][e]) : streams[2][e][n] = d
    BY <2>7, <2>10 DEF Queued
  <2>15. PICK n \in 1 .. Len(streams[2][e]) : streams[2][e][n] = d
    BY <2>14
  <2>16. e = c
    BY <2>1, <2>2, <2>13, <2>15 DEF StageInv, InOrder, Apart, Belongs
  <2> HIDE DEF x, y, d
  <2>17. /\ streams[1][c] \in Seq(Jobs) /\ streams[2][c] \in Seq(Jobs)
         /\ half[c] # NoJob => half[c] \in Jobs /\ half[c] # y
    BY <1>1, <2>1, <2>5 DEF TypeOK, IInv, Life, Halves
  <2>18. /\ Second(c) \in Seq(Jobs) /\ SameEnd(streams[1][c], Second(c))
         /\ n \in 1 .. Len(Second(c)) /\ Second(c)[n] = d
    BY <1>1, <2>15, <2>16, <2>17, AppendProperties, LenProperties DEF Second, IInv, Places, SameOrder
  <2>19. ~\E i \in 1 .. Len(streams[1][c]) : streams[1][c][i] = d
    BY <2>6 DEF Queued
  <2>20. ~\E i \in 1 .. Len(streams[2][c]) : streams[2][c][i] = y
    BY <2>5 DEF Queued
  <2>21. ~\E i \in 1 .. Len(Second(c)) : Second(c)[i] = y
    BY <2>17, <2>20, AppendProperties, LenProperties DEF Second
  <2>22. \/ \E i \in 1 .. Len(Second(c)) : Second(c)[i] = streams[1][c][m]
         \/ \E i \in 1 .. Len(streams[1][c]) : streams[1][c][i] = Second(c)[n]
    <3> DEFINE a == streams[1][c]
               b == Second(c)
    <3>1. a \in Seq(Jobs) /\ b \in Seq(Jobs) /\ SameEnd(a, b) /\ m \in 1 .. Len(a) /\ n \in 1 .. Len(b)
      BY <2>17, <2>18
    <3> HIDE DEF a, b
    <3>2. (\E i \in 1 .. Len(b) : b[i] = a[m]) \/ (\E i \in 1 .. Len(a) : a[i] = b[n])
      BY <3>1, SameEndHolds
    <3> QED BY <3>2 DEF a, b
  <2> QED BY <2>12, <2>18, <2>19, <2>21, <2>22
<1> QED BY <1>1, Invariance, PTL

(***************************************************************************)
(* The same of the instance of a behaviour, whose callers, chains, stages  *)
(* and draining the variable gives: what MCPipeline's run checks for four. *)
(***************************************************************************)
THEOREM NoCycleOfOneCallerCorrect ==
    Spec /\ [](program = Program(CallerOf, Dep, Kind, Drains)) => []NoCycleOfOneCaller
<1>1. NoSelfCycle /\ program = Program(CallerOf, Dep, Kind, Drains) => NoCycleOfOneCaller
  <2>1. SUFFICES ASSUME NoSelfCycle, NEW p \in Programs, p = Program(CallerOf, Dep, Kind, Drains)
                 PROVE  P(p)!NoSelfCycle
    BY DEF NoCycleOfOneCaller
  <2>2. p.callerOf = CallerOf /\ p.dep = Dep /\ p.kind = Kind
    BY <2>1 DEF Program
  <2>3. \A s : P(p)!Waits(s) <=> Waits(s)
    BY <2>2 DEF Waits, P!Waits, Ready, P!Ready, InputReady, P!InputReady
  <2> QED BY <2>1, <2>2, <2>3 DEF NoSelfCycle, P!NoSelfCycle
<1> QED BY <1>1, NoSelfCycleCorrect, PTL

-----------------------------------------------------------------------------
\* Setting an output promise is an answer of the pattern.
LEMMA AnswerStep ==
    ASSUME IInv, NEW j \in Jobs, up, j \in submitted \ done[2], j \in done[1],
           done'[2] = done[2] \union {j},
           UNCHANGED <<up, submitted, owner, supplied>>
    PROVE  Abstract!Answer(j)
<1> DEFINE R == {k \in Jobs : InputReady(k)}
<1>1. InputReady(j)
  BY DEF IInv, Places, InputsFirst
<1>2. R' \in SUBSET Jobs /\ R' = R \union R'
  BY DEF InputReady
<1>3. \E others \in SUBSET Jobs : R' = R \union others
  BY <1>2
<1>4. owner # "gone"
  BY DEF IInv, Life, Lifecycle
<1>5. UNCHANGED Broken(2)
  BY <1>4 DEF Broken
<1> QED BY <1>1, <1>3, <1>5 DEF Abstract!Answer

\* Every step of the pipeline is a step of a pattern, or none: the push on
\* the second queue accepts the job, the second stage answers it.
LEMMA RefinementStep == IInv /\ [Next]_vars => [Abstract!Next]_Abstract!vars
<1> SUFFICES ASSUME IInv, [Next]_vars PROVE [Abstract!Next]_Abstract!vars
  OBVIOUS
<1> USE DEF Abstract!vars, Abstract!Next
<1>1. ASSUME NEW j \in Jobs, PushFirst(j) PROVE UNCHANGED Abstract!vars
  BY <1>1 DEF PushFirst, life, values, InputReady, Broken, Pushed
<1>2. ASSUME NEW j \in Jobs, Supply(j) PROVE Abstract!Supply(j)
  BY <1>2 DEF Supply, life, calls, Abstract!Supply, InputReady, Broken, Pushed
<1>3. ASSUME NEW c \in Callers, PushSecond(c) PROVE \E j \in Jobs : Abstract!Accept(j)
  <2>1. half[c] \in Jobs /\ half[c] \notin submitted /\ owner # "gone"
    BY <1>3 DEF PushSecond, FinishCompute, IInv, Types, TypeOK, Life, Halves
  <2>2. Abstract!Accept(half[c])
    BY <1>3, <2>1 DEF PushSecond, FinishCompute, life, values, Abstract!Accept, InputReady, Broken, Pushed
  <2> QED BY <2>1, <2>2
<1>4. ASSUME InitBegin PROVE Abstract!Start
  BY <1>4 DEF InitBegin, calls, values, Abstract!Start, InputReady, Broken, Pushed, IInv, Life, Lifecycle
<1>5. CASE InitEnd
  BY <1>5 DEF InitEnd, calls, values, InputReady, Broken, Pushed
<1>6. CASE DisposeBegin
  BY <1>6 DEF DisposeBegin, calls, values, InputReady, Broken, Pushed
<1>7. ASSUME DisposeEnd PROVE Abstract!Stop
  BY <1>7 DEF DisposeEnd, calls, values, Abstract!Stop, InputReady, Broken, Pushed, IInv, Life, Lifecycle
<1>8. ASSUME Destroy PROVE Abstract!Destroy
  BY <1>8 DEF Destroy, Drop, calls, values, Abstract!Destroy, InputReady, Broken, Pushed, IInv, Life, Lifecycle
<1>9. ASSUME NEW s \in Stages, Spawn(s) \/ TestDying(s) \/ Pop(s) \/ PopFail(s) \/ HandOver(s)
      PROVE  UNCHANGED Abstract!vars
  <2>1. UNCHANGED <<life, calls, values>>
    BY <1>9 DEF Spawn, TestDying, Pop, Take, PopFail, HandOver, life
  <2> QED BY <2>1 DEF life, calls, values, InputReady, Broken, Pushed
<1>10. ASSUME NEW s \in Stages, Execute(s)
       PROVE  UNCHANGED Abstract!vars \/ \E j \in Jobs : Abstract!Answer(j)
  <2>1. /\ pc[s] = "run" /\ job[s] \in Jobs /\ Ready(s, job[s])
        /\ done \in [Stages -> SUBSET Jobs]
        /\ done' = [done EXCEPT ![s] = @ \union {job[s]}]
        /\ UNCHANGED <<up, owner, submitted, half, supplied>>
    BY <1>10 DEF Execute, SetValue, life, calls, IInv, Types, TypeOK
  <2>2. CASE s = 1
    BY <2>1, <2>2 DEF InputReady, Broken, Pushed, Stages
  <2>3. CASE s = 2
    <3>1. up /\ job[2] \in submitted \ done[2]
      BY <2>1, <2>3 DEF IInv, Life, Lifecycle, Places, StageInv, OneHome, Pushed, Stages
    <3>2. Abstract!Answer(job[2])
      BY <2>1, <2>3, <3>1, AnswerStep DEF Ready, Stages
    <3> QED BY <2>1, <2>3, <3>2
  <2> QED BY <2>2, <2>3 DEF Stages
<1>11. ASSUME NEW s \in Stages, NEW j \in Jobs, InnerAnswer(s, j)
       PROVE  UNCHANGED Abstract!vars \/ Abstract!Answer(j)
  <2>1. /\ up /\ j \in inner[s] /\ Ready(s, j)
        /\ done \in [Stages -> SUBSET Jobs]
        /\ done' = [done EXCEPT ![s] = @ \union {j}]
        /\ UNCHANGED <<up, owner, submitted, half, supplied>>
    BY <1>11 DEF InnerAnswer, life, calls, IInv, Types, TypeOK
  <2>2. CASE s = 1
    BY <2>1, <2>2 DEF InputReady, Broken, Pushed, Stages
  <2>3. CASE s = 2
    <3>1. j \in submitted \ done[2]
      BY <2>1, <2>3 DEF IInv, Places, StageInv, OneHome, Pushed, Stages
    <3> QED BY <2>1, <2>3, <3>1, AnswerStep DEF Ready, Stages
  <2> QED BY <2>2, <2>3 DEF Stages
<1>12. CASE UNCHANGED vars
  BY <1>12 DEF vars, life, calls, values, InputReady, Broken, Pushed
<1> QED
  BY <1>1, <1>2, <1>3, <1>4, <1>5, <1>6, <1>7, <1>8, <1>9, <1>10, <1>11, <1>12
  DEF Next, Stage, Terminated

\* The pipeline implements the safety part of a pattern's contract: it
\* answers only what it accepted, once, with its input there, while it is up.
THEOREM PatternRefined == Spec => ImplementsPattern
<1>1. Init => Abstract!Init
  BY DEF Init, Abstract!Init, Broken, Pushed, Stages
<1> QED BY <1>1, Invariance, RefinementStep, PTL DEF Spec, ImplementsPattern, Abstract!SafeSpec

(***************************************************************************)
(* So does the instance of a behaviour, which the run checks: Contract     *)
(* takes the chains from the variable.                                     *)
(***************************************************************************)
THEOREM ImplementsCorrect ==
    Spec /\ [](program = Program(CallerOf, Dep, Kind, Drains)) => Implements
<1> DEFINE Here == program = Program(CallerOf, Dep, Kind, Drains)
           Inputs == {j \in Jobs : IF program.dep[j] = NoJob THEN j \in supplied ELSE program.dep[j] \in done[2]}
<1>1. Here => Inputs = {j \in Jobs : InputReady(j)}
  BY DEF Program, InputReady
<1>2. Abstract!Init /\ Here => Contract!Init
  BY <1>1 DEF Abstract!Init, Contract!Init
<1>3. [Abstract!Next]_Abstract!vars /\ Here /\ Here' => [Contract!Next]_Contract!vars
  <2> SUFFICES ASSUME [Abstract!Next]_Abstract!vars, Here, Here' PROVE [Contract!Next]_Contract!vars
    OBVIOUS
  <2>1. Inputs = {j \in Jobs : InputReady(j)} /\ Inputs' = {j \in Jobs : InputReady(j)}'
    BY <1>1 DEF Program, InputReady
  <2> QED
    BY <2>1 DEF Abstract!vars, Abstract!Next, Abstract!Accept, Abstract!Supply, Abstract!Answer,
                Abstract!Start, Abstract!Stop, Abstract!Destroy,
                Contract!vars, Contract!Next, Contract!Accept, Contract!Supply, Contract!Answer,
                Contract!Start, Contract!Stop, Contract!Destroy
<1> QED
  BY <1>2, <1>3, PatternRefined, PTL DEF ImplementsPattern, Abstract!SafeSpec, Implements, Contract!SafeSpec

=============================================================================
