--------------------------- MODULE ContainersProofs ---------------------------
(***************************************************************************)
(* Theorems about what the patterns' threads share, for any threads, keys  *)
(* and producers: nothing added to a collection is lost, try_dequeue       *)
(* misses what is there only on account of another consumer, every thread  *)
(* has one producer in the hash, and the pool gives no block twice and     *)
(* loses none.                                                             *)
(***************************************************************************)
EXTENDS MCContainers, Sequences, FiniteSetTheorems, WellFoundedInduction, TLAPS

-----------------------------------------------------------------------------
(* The collection of a MapReduce.                                          *)

Inserting(t) == add_pc[t] \in {"insert", "unlock"}

CollectionTypes ==
    /\ add_pc \in [Threads -> {"idle", "lock", "insert", "unlock", "contain", "renew"}]
    /\ key \in [Threads -> SUBSET Keys]
    /\ vec = [t \in Threads |-> vec[t]] /\ vals = [t \in Threads |-> vals[t]]
    /\ mutexes \in [DOMAIN mutexes -> Nat]
    /\ values = [k \in DOMAIN mutexes |-> values[k]]

\* Thread t adds to key k: it has the mutex while it inserts, nobody renews the key meanwhile,
\* and the vector is as the insertion found it.
AddsTo(t, k) ==
    /\ key[t] = {k} /\ k \in DOMAIN mutexes
    /\ \A u \in Threads : Collection!Renews(u) => k \notin key[u]
    /\ Inserting(t) => <<k, mutexes[k]>> \in locked
    /\ add_pc[t] = "insert" => vec[t] = values[k]

\* Threads insert into different keys.
Guarded ==
    /\ values = added
    /\ \A t \in Threads : Collection!Adds(t) => \E k \in Keys : AddsTo(t, k)
    /\ \A t, u \in Threads : Inserting(t) /\ Inserting(u) /\ t # u => key[t] # key[u]

CollectionInv == CollectionTypes /\ Guarded

LEMMA CollectionInit == Collection!Init => CollectionInv
  BY DEF Collection!Init, CollectionInv, CollectionTypes, Guarded, Inserting, Collection!Adds

LEMMA TheKeyIs == ASSUME NEW t, NEW k, key[t] = {k} PROVE Collection!TheKey(t) = k
  BY DEF Collection!TheKey

\* A step of thread t keeps what other threads add to, if it leaves their keys alone.
LEMMA OthersAdd ==
    ASSUME CollectionInv, CollectionTypes', NEW t \in Threads,
           \A u \in Threads : u # t =>
                add_pc'[u] = add_pc[u] /\ key'[u] = key[u] /\ vec'[u] = vec[u],
           \A u \in Threads, k \in Keys : u # t /\ Collection!Adds(u) /\ AddsTo(u, k) =>
                /\ k \in DOMAIN mutexes' /\ mutexes'[k] = mutexes[k]
                /\ Inserting(u) => <<k, mutexes[k]>> \in locked'
                /\ add_pc[u] = "insert" => values'[k] = values[k]
                /\ Collection!Renews(t)' => k \notin key'[t],
           values' = added',
           Collection!Adds(t)' => \E k \in Keys : AddsTo(t, k)',
           Inserting(t)' => \A u \in Threads : u # t /\ Inserting(u) => key[u] # key'[t]
    PROVE  CollectionInv'
<1>1. ASSUME NEW u \in Threads, Collection!Adds(u)', u # t PROVE \E k \in Keys : AddsTo(u, k)'
  <2>1. Collection!Adds(u)
    BY <1>1 DEF Collection!Adds
  <2>2. PICK k \in Keys : AddsTo(u, k)
    BY <2>1 DEF CollectionInv, Guarded
  <2>3. /\ k \in DOMAIN mutexes' /\ mutexes'[k] = mutexes[k]
        /\ Inserting(u) => <<k, mutexes[k]>> \in locked'
        /\ add_pc[u] = "insert" => values'[k] = values[k]
        /\ Collection!Renews(t)' => k \notin key'[t]
    BY <1>1, <2>1, <2>2
  <2>4. AddsTo(u, k)'
    BY <1>1, <2>2, <2>3 DEF AddsTo, Inserting, Collection!Renews
  <2> QED BY <2>4
<1>2. \A u, v \in Threads : Inserting(u)' /\ Inserting(v)' /\ u # v => key'[u] # key'[v]
  BY DEF CollectionInv, Guarded, Inserting
<1> QED BY <1>1, <1>2 DEF CollectionInv, Guarded

\* The steps of add.
LEMMA AddStep ==
    ASSUME CollectionInv, NEW t \in Threads,
           \/ \E k \in Keys, n \in 1 .. 2 : Collection!Add(t, k, n)
           \/ Collection!Lock(t) \/ Collection!Insert(t) \/ Collection!Unlock(t)
    PROVE  CollectionInv'
<1> USE DEF CollectionTypes, Inserting, Collection!Goto, Collection!Adds, Collection!Renews
<1>0. CollectionTypes /\ values = added
  BY DEF CollectionInv, Guarded
<1>1. ASSUME NEW k \in Keys, NEW n \in 1 .. 2, Collection!Add(t, k, n) PROVE CollectionInv'
  <2> USE DEF Collection!Add, Collection!Begin, Collection!shared
  <2>1. CollectionTypes'
    BY <1>0, <1>1
  <2>2. AddsTo(t, k)'
    BY <1>0, <1>1 DEF AddsTo
  <2> QED BY <1>0, <1>1, <2>1, <2>2, OthersAdd DEF AddsTo
<1>2. ASSUME ~\E k \in Keys, n \in 1 .. 2 : Collection!Add(t, k, n)
      PROVE  CollectionInv'
  <2>1. Collection!Adds(t)
    BY <1>2 DEF Collection!Lock, Collection!Insert, Collection!Unlock
  <2>2. PICK k \in Keys : AddsTo(t, k)
    BY <2>1 DEF CollectionInv, Guarded
  <2>3. Collection!TheKey(t) = k
    BY <2>2, TheKeyIs DEF AddsTo
  <2>4. Collection!MutexOf(t) = <<k, mutexes[k]>>
    BY <2>3 DEF Collection!MutexOf
  <2>5. \A u \in Threads : u # t /\ Inserting(u) /\ Inserting(t) => key[u] # {k}
    <3>1. key[t] = {k}
      BY <2>2 DEF AddsTo
    <3>2. \A u \in Threads : Inserting(t) /\ Inserting(u) /\ t # u => key[t] # key[u]
      BY DEF CollectionInv, Guarded
    <3> QED BY <3>1, <3>2
  <2>6. CASE Collection!Lock(t)
    <3> USE DEF Collection!Lock
    <3>1. CollectionTypes'
      BY <1>0, <2>6
    <3>2. AddsTo(t, k)'
      BY <1>0, <2>2, <2>3, <2>4, <2>6 DEF AddsTo
    <3>3. ASSUME NEW u \in Threads, Inserting(u), u # t, key[u] = {k} PROVE FALSE
      <4>1. PICK x \in Keys : AddsTo(u, x)
        BY <3>3 DEF CollectionInv, Guarded
      <4>2. x = k
        BY <3>3, <4>1 DEF AddsTo
      <4> QED BY <2>4, <2>6, <3>3, <4>1, <4>2 DEF AddsTo
    <3>10. \A u \in Threads : u # t => add_pc'[u] = add_pc[u] /\ key'[u] = key[u] /\ vec'[u] = vec[u]
      BY <1>0, <2>6
    <3>11. ASSUME NEW u \in Threads, NEW x \in Keys, u # t, Collection!Adds(u), AddsTo(u, x)
          PROVE  /\ x \in DOMAIN mutexes' /\ mutexes'[x] = mutexes[x]
                 /\ Inserting(u) => <<x, mutexes[x]>> \in locked'
                 /\ add_pc[u] = "insert" => values'[x] = values[x]
                 /\ Collection!Renews(t)' => x \notin key'[t]
      BY <1>0, <2>6, <3>11 DEF AddsTo
    <3>12. key'[t] = {k} /\ values' = added'
      BY <1>0, <2>2, <2>6 DEF AddsTo
    <3> HIDE DEF Collection!Adds, Collection!Renews, Inserting, CollectionTypes
    <3> QED BY <2>2, <3>1, <3>2, <3>3, <3>10, <3>11, <3>12, OthersAdd
  <2>7. CASE Collection!Insert(t)
    <3> USE DEF Collection!Insert
    <3>1. /\ values' = [values EXCEPT ![k] = vec[t] \o vals[t]]
          /\ added' = [added EXCEPT ![k] = @ \o vals[t]]
          /\ vec[t] = values[k]
      BY <2>2, <2>3, <2>7 DEF AddsTo
    <3>2. CollectionTypes' /\ values' = added'
      BY <1>0, <2>2, <2>7, <3>1 DEF AddsTo
    <3>3. AddsTo(t, k)'
      BY <1>0, <2>2, <2>7 DEF AddsTo
    <3>4. \A u \in Threads, x \in Keys : u # t /\ Inserting(u) /\ AddsTo(u, x) => x # k
      BY <2>5, <2>7 DEF AddsTo
    <3>10. \A u \in Threads : u # t => add_pc'[u] = add_pc[u] /\ key'[u] = key[u] /\ vec'[u] = vec[u]
      BY <1>0, <2>7
    <3>11. ASSUME NEW u \in Threads, NEW x \in Keys, u # t, Collection!Adds(u), AddsTo(u, x)
          PROVE  /\ x \in DOMAIN mutexes' /\ mutexes'[x] = mutexes[x]
                 /\ Inserting(u) => <<x, mutexes[x]>> \in locked'
                 /\ add_pc[u] = "insert" => values'[x] = values[x]
                 /\ Collection!Renews(t)' => x \notin key'[t]
      BY <1>0, <2>7, <3>11, <3>1, <3>4 DEF AddsTo
    <3>12. Inserting(t) /\ key'[t] = {k}
      BY <2>2, <2>7 DEF AddsTo
    <3> HIDE DEF Collection!Adds, Collection!Renews, Inserting, CollectionTypes
    <3> QED BY <2>5, <3>2, <3>3, <3>10, <3>11, <3>12, OthersAdd
  <2>8. CASE Collection!Unlock(t)
    <3> USE DEF Collection!Unlock
    <3>1. CollectionTypes'
      BY <1>0, <2>8
    <3>2. \A u \in Threads, x \in Keys : u # t /\ Inserting(u) /\ AddsTo(u, x) => x # k
      BY <2>5, <2>8 DEF AddsTo
    <3>10. \A u \in Threads : u # t => add_pc'[u] = add_pc[u] /\ key'[u] = key[u] /\ vec'[u] = vec[u]
      BY <1>0, <2>8
    <3>11. ASSUME NEW u \in Threads, NEW x \in Keys, u # t, Collection!Adds(u), AddsTo(u, x)
          PROVE  /\ x \in DOMAIN mutexes' /\ mutexes'[x] = mutexes[x]
                 /\ Inserting(u) => <<x, mutexes[x]>> \in locked'
                 /\ add_pc[u] = "insert" => values'[x] = values[x]
                 /\ Collection!Renews(t)' => x \notin key'[t]
      BY <1>0, <2>8, <3>11, <2>4, <3>2 DEF AddsTo
    <3>12. ~Collection!Adds(t)' /\ ~Inserting(t)' /\ values' = added'
      BY <1>0, <2>8
    <3> HIDE DEF Collection!Adds, Collection!Renews, Inserting, CollectionTypes
    <3> QED BY <3>1, <3>10, <3>11, <3>12, OthersAdd
  <2> QED BY <1>2, <2>6, <2>7, <2>8
<1> QED BY <1>1, <1>2

\* Those of preAddKeys and get.
LEMMA RenewStep ==
    ASSUME CollectionInv,
           \/ \E t \in Threads :
                \/ \E ks \in SUBSET Keys \ {{}} : Collection!PreAddKeys(t, ks)
                \/ Collection!Contain(t) \/ Collection!EndPreAddKeys(t)
                \/ \E k \in Keys : Collection!Renew(t, k)
           \/ Collection!GetVector \/ Collection!GetMap
    PROVE  CollectionInv'
<1> USE DEF CollectionTypes, Inserting, Collection!Goto, Collection!Adds, Collection!Renews
<1>0. CollectionTypes /\ values = added
  BY DEF CollectionInv, Guarded
<1>1. ASSUME NEW t \in Threads, NEW ks \in SUBSET Keys \ {{}}, Collection!PreAddKeys(t, ks)
      PROVE  CollectionInv'
  <2> USE DEF Collection!PreAddKeys, Collection!Begin, Collection!shared
  <2>1. CollectionTypes'
    BY <1>0, <1>1
  <2>2. ASSUME NEW u \in Threads, NEW k \in Keys, Collection!Adds(u), AddsTo(u, k) PROVE k \notin ks
    <3>1. Collection!TheKey(u) = k
      BY <2>2, TheKeyIs DEF AddsTo
    <3> QED BY <1>1, <2>2, <3>1
  <2>10. \A u \in Threads : u # t => add_pc'[u] = add_pc[u] /\ key'[u] = key[u] /\ vec'[u] = vec[u]
    BY <1>0, <1>1
  <2>11. ASSUME NEW u \in Threads, NEW x \in Keys, u # t, Collection!Adds(u), AddsTo(u, x)
        PROVE  /\ x \in DOMAIN mutexes' /\ mutexes'[x] = mutexes[x]
               /\ Inserting(u) => <<x, mutexes[x]>> \in locked'
               /\ add_pc[u] = "insert" => values'[x] = values[x]
               /\ Collection!Renews(t)' => x \notin key'[t]
    BY <1>0, <1>1, <2>11, <2>2 DEF AddsTo
  <2>12. ~Collection!Adds(t)' /\ ~Inserting(t)' /\ values' = added'
    BY <1>0, <1>1
  <2> HIDE DEF Collection!Adds, Collection!Renews, Inserting, CollectionTypes
  <2> QED BY <2>1, <2>10, <2>11, <2>12, OthersAdd
<1>2. ASSUME NEW t \in Threads, Collection!Contain(t) \/ Collection!EndPreAddKeys(t)
      PROVE  CollectionInv'
  <2> USE DEF Collection!Contain, Collection!EndPreAddKeys
  <2>1. CollectionTypes'
    BY <1>0, <1>2
  <2> QED BY <1>0, <1>2, <2>1, OthersAdd DEF AddsTo
<1>3. ASSUME NEW t \in Threads, NEW k \in Keys, Collection!Renew(t, k) PROVE CollectionInv'
  <2> USE DEF Collection!Renew
  <2>0. DOMAIN mutexes' = DOMAIN mutexes /\ mutexes' \in [DOMAIN mutexes -> Nat]
    <3>1. PICK present : present = DOMAIN mutexes
      OBVIOUS
    <3>2. mutexes \in [present -> Nat] /\ mutexes' = [mutexes EXCEPT ![k] = @ + 1]
      BY <1>0, <1>3, <3>1
    <3>3. mutexes' = [x \in present |-> IF x = k THEN mutexes[x] + 1 ELSE mutexes[x]]
      BY <3>2
    <3>4. \A x \in present : (IF x = k THEN mutexes[x] + 1 ELSE mutexes[x]) \in Nat
      BY <3>2
    <3>5. mutexes' \in [present -> Nat]
      BY <3>3, <3>4
    <3>6. DOMAIN mutexes' = present
      BY <3>5
    <3> QED BY <3>1, <3>5, <3>6
  <2>1. CollectionTypes' /\ values' = added'
    <3>1. values' = [x \in DOMAIN mutexes' |-> values'[x]] /\ values' = added'
      BY <1>0, <1>3, <2>0
    <3>2. key' \in [Threads -> SUBSET Keys]
      BY <1>0, <1>3
    <3> QED BY <1>0, <1>3, <2>0, <3>1, <3>2
  <2>2. \A u \in Threads, x \in Keys : Collection!Adds(u) /\ AddsTo(u, x) => x # k
    BY <1>3 DEF AddsTo
  <2>10. \A u \in Threads : u # t => add_pc'[u] = add_pc[u] /\ key'[u] = key[u] /\ vec'[u] = vec[u]
    BY <1>0, <1>3
  <2>11. ASSUME NEW u \in Threads, NEW x \in Keys, u # t, Collection!Adds(u), AddsTo(u, x)
        PROVE  /\ x \in DOMAIN mutexes' /\ mutexes'[x] = mutexes[x]
               /\ Inserting(u) => <<x, mutexes[x]>> \in locked'
               /\ add_pc[u] = "insert" => values'[x] = values[x]
               /\ Collection!Renews(t)' => x \notin key'[t]
    BY <1>0, <1>3, <2>11, <2>2 DEF AddsTo
  <2>12. ~Collection!Adds(t)' /\ ~Inserting(t)'
    BY <1>0, <1>3
  <2> HIDE DEF Collection!Adds, Collection!Renews, Inserting, CollectionTypes
  <2> QED BY <2>1, <2>10, <2>11, <2>12, OthersAdd
<1>4. ASSUME NEW left, Collection!Take(left) PROVE CollectionInv'
  BY <1>0, <1>4 DEF Collection!Take, CollectionInv, Guarded
<1> QED BY <1>1, <1>2, <1>3, <1>4 DEF Collection!GetVector, Collection!GetMap

\* No add is lost to another thread's, to a renewal of other keys or to a get.
THEOREM KeptCorrect == MCSpec => []Kept
<1>1. MCInit => CollectionInv
  BY CollectionInit DEF MCInit
<1>2. CollectionInv /\ [MCNext]_<<part, vars, hashVars, dequeueVars, collectionVars>> => CollectionInv'
  <2> SUFFICES ASSUME CollectionInv, [MCNext]_<<part, vars, hashVars, dequeueVars, collectionVars>>
               PROVE  CollectionInv'
    OBVIOUS
  <2>1. CASE UNCHANGED collectionVars
    <3>1. CollectionTypes'
      BY <2>1 DEF collectionVars, CollectionInv, CollectionTypes
    <3>2. Guarded'
      BY <2>1 DEF collectionVars, CollectionInv, Guarded, AddsTo, Inserting, Collection!Adds,
         Collection!Renews
    <3> QED BY <3>1, <3>2 DEF CollectionInv
  <2>2. CASE Collection!Next
    BY <2>2, AddStep, RenewStep DEF Collection!Next
  <2> QED BY <2>1, <2>2 DEF MCNext
<1>3. CollectionInv => Kept
  BY DEF CollectionInv, Guarded, Kept, Collection!Kept
<1> QED BY <1>1, <1>2, <1>3, PTL DEF MCSpec
-----------------------------------------------------------------------------
(* The search of try_dequeue.                                              *)

SearchLocal ==
    [ptr : 0 .. MaxProducers, tail : Nat, nonEmptyCount : Nat, best : 0 .. MaxProducers, bestSize : Nat,
     producer : 0 .. MaxProducers, overcommit : Nat, myDequeueCount : Nat]

Scoring == {"score", "size"}
InDequeue == {"overcommit", "test", "count", "recheck", "claim", "over"}

Counters == [Dequeue!Producers -> Nat]

SearchTypes ==
    /\ linked \in 0 .. MaxProducers
    /\ tailIndex \in Counters /\ headIndex \in Counters
    /\ dequeueOptimisticCount \in Counters /\ dequeueOvercommit \in Counters
    /\ deq_pc \in [Consumers -> {"idle", "best", "retry", "others", "failed"} \union Scoring \union InDequeue]
    /\ deq_local \in [Consumers -> SearchLocal]
    /\ excused \in [Consumers -> SUBSET Dequeue!Producers]
    /\ \A c \in Consumers : deq_pc[c] \in InDequeue => deq_local[c].producer \in Dequeue!Producers

\* The consumers that have counted themselves in at p.
CountedIn(p) == {d \in Consumers : Dequeue!CountedAt(d, p)}

\* Every count is of an element taken, of one taken back, or of a consumer in between.
Balance ==
    \A p \in Dequeue!Producers :
        dequeueOptimisticCount[p] = headIndex[p] + dequeueOvercommit[p] + Cardinality(CountedIn(p))

\* What is not excused was never empty or busy in the call.
Seen(c) == \A p \in Dequeue!Producers : Dequeue!EmptyOrBusy(c, p) => p \in excused[c]

\* Every producer behind ptr is excused.
SearchedTo(c) == \A p \in Dequeue!Producers : p > deq_local[c].ptr => p \in excused[c]

\* The scores: a size of 0 was not read of what is not excused, so that a search that has found
\* nothing has only excused ones behind it.
Scores(c) ==
    LET l == deq_local[c]
    IN  /\ deq_pc[c] = "size" => l.ptr # 0 /\ (l.ptr \notin excused[c] => headIndex[l.ptr] < l.tail)
        /\ deq_pc[c] \in Scoring =>
            /\ l.nonEmptyCount = 0 => SearchedTo(c)
            /\ l.nonEmptyCount > 0 => l.bestSize > 0
            /\ l.bestSize > 0 => l.best # 0

\* What dequeue has read of a producer that is not excused is as nobody had counted there since.
Reads(c) ==
    LET l == deq_local[c]
    IN  l.producer \notin excused[c] =>
            /\ deq_pc[c] \in {"overcommit", "test"} => headIndex[l.producer] < l.tail
            /\ deq_pc[c] \in {"test", "count"} => l.overcommit = dequeueOvercommit[l.producer]
            /\ deq_pc[c] = "recheck" => l.myDequeueCount = headIndex[l.producer] + l.overcommit
            /\ deq_pc[c] # "over"

\* The best one is tried first; then those behind ptr are excused, and so is the best one.
Tries(c) ==
    LET l == deq_local[c]
    IN  /\ deq_pc[c] = "best" => l.best # 0
        /\ deq_pc[c] \in InDequeue /\ l.producer # l.best => l.ptr = l.producer
        /\ deq_pc[c] = "retry" \/ deq_pc[c] = "others" \/ (deq_pc[c] \in InDequeue /\ l.producer # l.best) =>
                l.best \in excused[c]
        /\ deq_pc[c] = "others" \/ (deq_pc[c] \in InDequeue /\ l.producer # l.best) => SearchedTo(c)
        /\ deq_pc[c] = "failed" => excused[c] = Dequeue!Producers

Search(c) == Seen(c) /\ Scores(c) /\ (deq_pc[c] \in InDequeue => Reads(c)) /\ Tries(c)

SearchInv == SearchTypes /\ Balance /\ \A c \in Consumers : deq_pc[c] # "idle" => Search(c)

LEMMA SearchConstants ==
    /\ Dequeue!Producers = 1 .. MaxProducers /\ MaxProducers \in Nat
    /\ MaxScored \in Nat \ {0} /\ IsFiniteSet(Consumers)
  BY InstancesAssumption DEF Dequeue!Producers, Dequeue!DequeueAssumption, Dequeue!IsFiniteSet, IsFiniteSet

LEMMA FreshSearch ==
    ASSUME NEW n \in 0 .. MaxProducers
    PROVE  Dequeue!Fresh \in SearchLocal /\ [Dequeue!Fresh EXCEPT !.ptr = n] \in SearchLocal
<1>1. 0 \in 0 .. MaxProducers
  BY SearchConstants
<1> QED BY <1>1 DEF Dequeue!Fresh, SearchLocal

LEMMA AtIs ==
    ASSUME SearchTypes, NEW c \in Consumers, NEW n \in 0 .. MaxProducers
    PROVE  /\ Dequeue!At(c, n) \in SearchLocal
           /\ Dequeue!At(c, n).ptr = n /\ Dequeue!At(c, n).best = deq_local[c].best
<1>1. deq_local[c].best \in 0 .. MaxProducers /\ 0 \in 0 .. MaxProducers
  BY SearchConstants DEF SearchTypes, SearchLocal
<1> QED BY <1>1 DEF Dequeue!At, Dequeue!Fresh, SearchLocal

LEMMA SearchRecord ==
    ASSUME NEW l \in SearchLocal, NEW t \in Nat
    PROVE  /\ [l EXCEPT !.tail = t] \in SearchLocal
           /\ [l EXCEPT !.overcommit = t] \in SearchLocal
           /\ [l EXCEPT !.myDequeueCount = t] \in SearchLocal
  BY DEF SearchLocal

LEMMA PtrBefore ==
    ASSUME NEW l \in SearchLocal, l.ptr # 0
    PROVE  l.ptr - 1 \in 0 .. MaxProducers
<1>1. l.ptr \in 0 .. MaxProducers /\ MaxProducers \in Nat
  BY SearchConstants DEF SearchLocal
<1> QED BY <1>1

LEMMA SearchInit == Dequeue!Init => SearchInv
<1> SUFFICES ASSUME Dequeue!Init PROVE SearchInv
  OBVIOUS
<1>1. Dequeue!Fresh \in SearchLocal
  <2>1. 0 \in 0 .. MaxProducers
    BY SearchConstants
  <2> QED BY <2>1, FreshSearch
<1>2. SearchTypes
  BY <1>1, SearchConstants DEF Dequeue!Init, SearchTypes, Counters, InDequeue
<1>3. \A p \in Dequeue!Producers : CountedIn(p) = {}
  BY DEF Dequeue!Init, CountedIn, Dequeue!CountedAt
<1>4. Balance
  BY <1>3, FS_EmptySet DEF Dequeue!Init, Balance
<1> QED BY <1>2, <1>4 DEF Dequeue!Init, SearchInv

\* The history: what was excused stays so in a call, and what is empty or busy becomes so.
LEMMA Observed ==
    ASSUME SearchTypes, Dequeue!Observe
    PROVE  /\ excused' \in [Consumers -> SUBSET Dequeue!Producers]
           /\ \A c \in Consumers : deq_pc'[c] # "idle" => Seen(c)' /\ excused[c] \subseteq excused'[c]
<1>1. ASSUME NEW c \in Consumers
      PROVE  excused'[c] = IF deq_pc'[c] = "idle" THEN {}
                           ELSE excused[c] \union {p \in Dequeue!Producers : Dequeue!EmptyOrBusy(c, p)'}
  BY <1>1 DEF Dequeue!Observe
<1>2. \A c \in Consumers : excused'[c] \in SUBSET Dequeue!Producers
  BY <1>1 DEF SearchTypes
<1>3. excused' \in [Consumers -> SUBSET Dequeue!Producers]
  BY <1>2 DEF Dequeue!Observe
<1>4. ASSUME NEW c \in Consumers, deq_pc'[c] # "idle" PROVE Seen(c)' /\ excused[c] \subseteq excused'[c]
  BY <1>1, <1>4 DEF Seen
<1> QED BY <1>3, <1>4

\* A step that leaves a consumer's variables alone keeps its search, if the counters change only
\* where it is excused.
LEMMA KeepsSearch ==
    ASSUME SearchTypes, SearchTypes', NEW d \in Consumers, Search(d), Seen(d)',
           deq_pc'[d] = deq_pc[d], deq_local'[d] = deq_local[d], excused[d] \subseteq excused'[d],
           \A q \in Dequeue!Producers : q \notin excused'[d] =>
                headIndex'[q] = headIndex[q] /\ dequeueOvercommit'[q] = dequeueOvercommit[q]
    PROVE  Search(d)'
<1> DEFINE l == deq_local[d]
<1>0. excused[d] \subseteq Dequeue!Producers /\ excused'[d] \subseteq Dequeue!Producers
  BY DEF SearchTypes
<1>1. l.ptr # 0 => l.ptr \in Dequeue!Producers
  <2>1. l.ptr \in 0 .. MaxProducers
    BY DEF SearchTypes, SearchLocal
  <2> QED BY <2>1, SearchConstants
<1>2. SearchedTo(d) => SearchedTo(d)'
  BY DEF SearchedTo
<1>3. Scores(d)'
  BY <1>1, <1>2 DEF Search, Scores
<1>4. deq_pc'[d] \in InDequeue => Reads(d)'
  <2> SUFFICES ASSUME deq_pc[d] \in InDequeue, l.producer \notin excused'[d] PROVE Reads(d)'
    BY DEF Reads
  <2>1. l.producer \in Dequeue!Producers /\ l.producer \notin excused[d] /\ Reads(d)
    BY DEF SearchTypes, Search
  <2>2. headIndex'[l.producer] = headIndex[l.producer]
        /\ dequeueOvercommit'[l.producer] = dequeueOvercommit[l.producer]
    BY <2>1
  <2> QED BY <2>1, <2>2 DEF Reads
<1>5. Tries(d)'
  BY <1>0, <1>2 DEF Search, Tries
<1> QED BY <1>3, <1>4, <1>5 DEF Search

\* Only consumer c moves, and it changes the head or the overcommit only where it is counted.
Moves(c) ==
    /\ \A d \in Consumers : d # c => deq_pc'[d] = deq_pc[d] /\ deq_local'[d] = deq_local[d]
    /\ \/ UNCHANGED <<headIndex, dequeueOvercommit>>
       \/ \E p \in Dequeue!Producers :
            /\ Dequeue!CountedAt(c, p)
            /\ \A q \in Dequeue!Producers : q # p =>
                    headIndex'[q] = headIndex[q] /\ dequeueOvercommit'[q] = dequeueOvercommit[q]

LEMMA MoveKeeps ==
    ASSUME SearchInv, SearchTypes', Balance', Dequeue!Observe, NEW c \in Consumers, Moves(c),
           deq_pc'[c] # "idle" => Scores(c)' /\ Tries(c)' /\ (deq_pc'[c] \in InDequeue => Reads(c)')
    PROVE  SearchInv'
<1>1. ASSUME NEW d \in Consumers, d # c, deq_pc'[d] # "idle" PROVE Search(d)'
  <2>1. Search(d) /\ deq_pc'[d] = deq_pc[d] /\ deq_local'[d] = deq_local[d]
    BY <1>1 DEF SearchInv, Moves
  <2>2. Seen(d)' /\ excused[d] \subseteq excused'[d]
    BY <1>1, Observed DEF SearchInv
  <2>3. ASSUME NEW q \in Dequeue!Producers, q \notin excused'[d]
        PROVE  headIndex'[q] = headIndex[q] /\ dequeueOvercommit'[q] = dequeueOvercommit[q]
    <3>1. ~Dequeue!CountedAt(c, q)
      BY <1>1, <2>1, <2>2, <2>3 DEF Search, Seen, Dequeue!EmptyOrBusy
    <3> QED BY <3>1, <2>3 DEF Moves
  <2> QED BY <2>1, <2>2, <2>3, KeepsSearch DEF SearchInv
<1>2. deq_pc'[c] # "idle" => Search(c)'
  BY Observed DEF SearchInv, Search
<1> QED BY <1>1, <1>2 DEF SearchInv

\* Consumer c moves: it is counted at its producer, or no longer.
LEMMA CountedInMoves ==
    ASSUME NEW c \in Consumers, NEW p,
           \A d \in Consumers : d # c => deq_pc'[d] = deq_pc[d] /\ deq_local'[d] = deq_local[d]
    PROVE  /\ Dequeue!CountedAt(c, p)' => CountedIn(p)' = CountedIn(p) \union {c}
           /\ ~Dequeue!CountedAt(c, p)' => CountedIn(p)' = CountedIn(p) \ {c}
           /\ c \in CountedIn(p) <=> Dequeue!CountedAt(c, p)
           /\ IsFiniteSet(CountedIn(p)) /\ Cardinality(CountedIn(p)) \in Nat
<1>1. \A d \in Consumers : d # c => Dequeue!CountedAt(d, p)' = Dequeue!CountedAt(d, p)
  BY DEF Dequeue!CountedAt
<1>2. IsFiniteSet(CountedIn(p)) /\ Cardinality(CountedIn(p)) \in Nat
  BY SearchConstants, FS_Subset, FS_CardinalityType DEF CountedIn
<1>3. c \in CountedIn(p) <=> Dequeue!CountedAt(c, p)
  BY DEF CountedIn
<1>4. CountedIn(p)' = {d \in Consumers : Dequeue!CountedAt(d, p)'}
  BY DEF CountedIn
<1>5. CountedIn(p) = {d \in Consumers : Dequeue!CountedAt(d, p)}
  BY DEF CountedIn
<1>6. Dequeue!CountedAt(c, p)' => CountedIn(p)' = CountedIn(p) \union {c}
  BY <1>1, <1>4, <1>5
<1>7. ~Dequeue!CountedAt(c, p)' => CountedIn(p)' = CountedIn(p) \ {c}
  BY <1>1, <1>4, <1>5
<1> QED BY <1>2, <1>3, <1>6, <1>7

\* Nobody's count changes.
LEMMA SameBalance ==
    ASSUME Balance, NEW c \in Consumers,
           \A d \in Consumers : d # c => deq_pc'[d] = deq_pc[d] /\ deq_local'[d] = deq_local[d],
           \A p \in Dequeue!Producers : Dequeue!CountedAt(c, p)' = Dequeue!CountedAt(c, p),
           UNCHANGED <<headIndex, dequeueOptimisticCount, dequeueOvercommit>>
    PROVE  Balance'
<1>1. \A p \in Dequeue!Producers : CountedIn(p)' = CountedIn(p)
  <2> TAKE p \in Dequeue!Producers
  <2>1. \A d \in Consumers : Dequeue!CountedAt(d, p)' = Dequeue!CountedAt(d, p)
    BY DEF Dequeue!CountedAt
  <2> QED BY <2>1 DEF CountedIn
<1> QED BY <1>1 DEF Balance

SearchLabels == {"idle", "best", "retry", "others", "failed"} \union Scoring \union InDequeue
Between == {"recheck", "claim", "over"}

\* A step of consumer c that changes no counter, nor where c is counted.
LEMMA QuietMove ==
    ASSUME SearchInv, Dequeue!Observe, NEW c \in Consumers, NEW lab \in SearchLabels, NEW rec \in SearchLocal,
           Dequeue!Goto(c, lab), Dequeue!Set(c, rec), UNCHANGED Dequeue!producers,
           lab \in InDequeue => rec.producer \in Dequeue!Producers,
           lab \in Between <=> deq_pc[c] \in Between,
           lab \in Between => rec.producer = deq_local[c].producer,
           lab # "idle" => Scores(c)' /\ Tries(c)' /\ (lab \in InDequeue => Reads(c)')
    PROVE  SearchInv'
<1>1. /\ deq_pc' = [deq_pc EXCEPT ![c] = lab] /\ deq_local' = [deq_local EXCEPT ![c] = rec]
      /\ deq_pc'[c] = lab /\ deq_local'[c] = rec
      /\ UNCHANGED <<linked, tailIndex, headIndex, dequeueOptimisticCount, dequeueOvercommit>>
      /\ \A d \in Consumers : d # c => deq_pc'[d] = deq_pc[d] /\ deq_local'[d] = deq_local[d]
  BY DEF SearchInv, SearchTypes, Dequeue!Goto, Dequeue!Set, Dequeue!producers
<1>2. SearchTypes'
  <2>1. deq_pc' \in [Consumers -> SearchLabels] /\ deq_local' \in [Consumers -> SearchLocal]
    BY <1>1 DEF SearchInv, SearchTypes, SearchLabels
  <2>2. \A d \in Consumers : deq_pc'[d] \in InDequeue => deq_local'[d].producer \in Dequeue!Producers
    BY <1>1 DEF SearchInv, SearchTypes
  <2> QED BY <1>1, <2>1, <2>2, Observed DEF SearchInv, SearchTypes, SearchLabels
<1>3. \A p \in Dequeue!Producers : Dequeue!CountedAt(c, p)' = Dequeue!CountedAt(c, p)
  BY <1>1 DEF Dequeue!CountedAt, Between
<1>4. Balance'
  BY <1>1, <1>3, SameBalance DEF SearchInv
<1> QED BY <1>1, <1>2, <1>4, MoveKeeps DEF Moves

\* dequeue has returned false, and its producer is excused.
LEMMA FailedMoves ==
    ASSUME SearchInv, Dequeue!Observe, NEW c \in Consumers, deq_pc[c] \in InDequeue,
           Dequeue!Failed(c), deq_local[c].producer \in excused'[c]
    PROVE  \E lab \in {"retry", "others"}, rec \in SearchLocal :
                Dequeue!Goto(c, lab) /\ Dequeue!Set(c, rec) /\ Scores(c)' /\ Tries(c)'
<1> DEFINE l == deq_local[c]
<1>0. /\ Tries(c) /\ l.producer \in Dequeue!Producers /\ l \in SearchLocal /\ 0 \in 0 .. MaxProducers
      /\ deq_pc \in [Consumers -> SearchLabels] /\ SearchTypes
      /\ excused[c] \subseteq Dequeue!Producers
  BY SearchConstants DEF SearchInv, SearchTypes, Search, InDequeue, SearchLabels
<1>1. CASE l.producer = l.best
  <2> DEFINE rec == Dequeue!At(c, 0)
  <2>1. rec \in SearchLocal /\ rec.best = l.best
    BY <1>0, AtIs
  <2>2. Dequeue!Goto(c, "retry") /\ Dequeue!Set(c, rec)
    BY <1>1 DEF Dequeue!Failed
  <2> HIDE DEF rec
  <2>3. deq_pc'[c] = "retry" /\ deq_local'[c] = rec
    BY <1>0, <2>2 DEF SearchTypes, Dequeue!Goto, Dequeue!Set
  <2>4. Scores(c)' /\ Tries(c)'
    BY <1>1, <2>1, <2>3 DEF Scores, Tries, Scoring, InDequeue
  <2> QED BY <2>1, <2>2, <2>4
<1>2. CASE l.producer # l.best
  <2> DEFINE rec == Dequeue!At(c, l.ptr - 1)
  <2>0. l.ptr = l.producer /\ l.best \in excused[c] /\ SearchedTo(c) /\ l.ptr # 0
    BY <1>0, <1>2, SearchConstants DEF Tries
  <2>1. rec \in SearchLocal /\ rec.best = l.best /\ rec.ptr = l.ptr - 1
    <3>1. l.ptr - 1 \in 0 .. MaxProducers
      BY <1>0, <2>0, PtrBefore
    <3> QED BY <1>0, <3>1, AtIs
  <2>2. Dequeue!Goto(c, "others") /\ Dequeue!Set(c, rec)
    BY <1>2 DEF Dequeue!Failed
  <2> HIDE DEF rec
  <2>3. deq_pc'[c] = "others" /\ deq_local'[c] = rec
    BY <1>0, <2>2 DEF SearchTypes, Dequeue!Goto, Dequeue!Set
  <2>4. excused[c] \subseteq excused'[c]
    BY <1>0, <2>3, Observed
  <2>5. SearchedTo(c)'
    <3>1. \A p \in Dequeue!Producers : p > l.ptr - 1 => p > l.ptr \/ p = l.producer
      BY <2>0, <1>0, SearchConstants
    <3> QED BY <2>0, <2>1, <2>3, <2>4, <3>1 DEF SearchedTo
  <2>6. Scores(c)' /\ Tries(c)'
    BY <2>0, <2>1, <2>3, <2>4, <2>5 DEF Scores, Tries, Scoring, InDequeue
  <2> QED BY <2>1, <2>2, <2>6
<1> QED BY <1>1, <1>2

LEMMA ScoreStep ==
    ASSUME SearchInv, Dequeue!Observe, NEW c \in Consumers,
           Dequeue!Begin(c) \/ Dequeue!ReadTail(c) \/ Dequeue!ReadHead(c) \/ Dequeue!EndScore(c)
    PROVE  SearchInv'
<1> DEFINE l == deq_local[c]
<1>0. /\ l \in SearchLocal /\ l.ptr \in 0 .. MaxProducers /\ l.tail \in Nat /\ l.nonEmptyCount \in Nat
      /\ l.best \in 0 .. MaxProducers /\ l.bestSize \in Nat
      /\ deq_pc \in [Consumers -> SearchLabels] /\ deq_local \in [Consumers -> SearchLocal]
      /\ linked \in 0 .. MaxProducers /\ tailIndex \in Counters /\ headIndex \in Counters
      /\ excused[c] \subseteq Dequeue!Producers /\ excused'[c] \subseteq Dequeue!Producers
      /\ deq_pc[c] # "idle" => Search(c)
      /\ deq_pc'[c] # "idle" => Seen(c)' /\ excused[c] \subseteq excused'[c]
  BY Observed DEF SearchInv, SearchTypes, SearchLocal, SearchLabels
<1>1. CASE Dequeue!Begin(c)
  <2> DEFINE rec == [Dequeue!Fresh EXCEPT !.ptr = linked]
  <2>1. rec \in SearchLocal /\ rec.ptr = linked /\ rec.nonEmptyCount = 0 /\ rec.bestSize = 0
    BY <1>0, FreshSearch DEF Dequeue!Fresh
  <2>2. /\ deq_pc[c] = "idle" /\ Dequeue!Goto(c, "score") /\ Dequeue!Set(c, rec) /\ UNCHANGED Dequeue!producers
    BY <1>1 DEF Dequeue!Begin
  <2> HIDE DEF rec
  <2>3. deq_pc'[c] = "score" /\ deq_local'[c] = rec /\ linked' = linked
    BY <1>0, <2>2 DEF Dequeue!Goto, Dequeue!Set, Dequeue!producers
  <2>4. SearchedTo(c)'
    BY <1>0, <2>1, <2>3 DEF SearchedTo, Seen, Dequeue!EmptyOrBusy
  <2>5. Scores(c)' /\ Tries(c)'
    BY <2>1, <2>3, <2>4 DEF Scores, Tries, InDequeue
  <2> QED BY <2>1, <2>2, <2>5, QuietMove DEF SearchLabels, Scoring, InDequeue, Between
<1>2. CASE Dequeue!ReadTail(c)
  <2> DEFINE rec == [l EXCEPT !.tail = tailIndex[l.ptr]]
  <2>0. deq_pc[c] = "score" /\ l.ptr # 0 /\ l.ptr \in Dequeue!Producers /\ Search(c)
    BY <1>0, <1>2, SearchConstants DEF Dequeue!ReadTail
  <2>1. tailIndex[l.ptr] \in Nat
    BY <1>0, <2>0 DEF Counters
  <2>2. /\ rec \in SearchLocal /\ rec.tail = tailIndex[l.ptr] /\ rec.ptr = l.ptr
        /\ rec.nonEmptyCount = l.nonEmptyCount /\ rec.best = l.best /\ rec.bestSize = l.bestSize
    <3>1. rec \in SearchLocal
      BY <1>0, <2>1, SearchRecord
    <3> QED BY <1>0, <3>1 DEF SearchLocal
  <2>3. Dequeue!Goto(c, "size") /\ Dequeue!Set(c, rec) /\ UNCHANGED Dequeue!producers
    BY <1>2 DEF Dequeue!ReadTail
  <2> HIDE DEF rec
  <2>4. deq_pc'[c] = "size" /\ deq_local'[c] = rec /\ headIndex' = headIndex /\ tailIndex' = tailIndex
    BY <1>0, <2>3 DEF Dequeue!Goto, Dequeue!Set, Dequeue!producers
  <2>5. SearchedTo(c) => SearchedTo(c)'
    BY <1>0, <2>2, <2>4 DEF SearchedTo
  <2>6. l.ptr \notin excused'[c] => headIndex[l.ptr] < tailIndex[l.ptr]
    <3>1. headIndex[l.ptr] \in Nat
      BY <1>0, <2>0 DEF Counters
    <3> QED BY <1>0, <2>0, <2>1, <2>4, <3>1 DEF Seen, Dequeue!EmptyOrBusy
  <2>7. Scores(c)' /\ Tries(c)'
    BY <2>0, <2>2, <2>4, <2>5, <2>6 DEF Search, Scores, Tries, Scoring, InDequeue
  <2> QED BY <2>0, <2>2, <2>3, <2>7, QuietMove DEF SearchLabels, Scoring, InDequeue, Between
<1>3. CASE Dequeue!ReadHead(c)
  <2>0. deq_pc[c] = "size" /\ Search(c) /\ l.ptr # 0 /\ l.ptr \in Dequeue!Producers
    <3>1. deq_pc[c] = "size" /\ Search(c)
      BY <1>0, <1>3 DEF Dequeue!ReadHead
    <3> QED BY <1>0, <3>1, SearchConstants DEF Search, Scores
  <2>1. headIndex[l.ptr] \in Nat
    BY <1>0, <2>0 DEF Counters
  <2>2. PICK size \in Nat : size = IF headIndex[l.ptr] < l.tail THEN l.tail - headIndex[l.ptr] ELSE 0
    BY <1>0, <2>1
  <2> DEFINE rec == [l EXCEPT !.ptr = @ - 1, !.tail = 0,
                              !.nonEmptyCount = IF size > 0 THEN @ + 1 ELSE @,
                              !.best = IF size > l.bestSize THEN l.ptr ELSE @,
                              !.bestSize = IF size > l.bestSize THEN size ELSE @]
  <2>3. Dequeue!Goto(c, "score") /\ Dequeue!Set(c, rec) /\ UNCHANGED Dequeue!producers
    BY <1>3, <2>2 DEF Dequeue!ReadHead
  <2>4. /\ rec \in SearchLocal /\ rec.ptr = l.ptr - 1
        /\ rec.nonEmptyCount = IF size > 0 THEN l.nonEmptyCount + 1 ELSE l.nonEmptyCount
        /\ rec.best = IF size > l.bestSize THEN l.ptr ELSE l.best
        /\ rec.bestSize = IF size > l.bestSize THEN size ELSE l.bestSize
    <3>1. l.ptr - 1 \in 0 .. MaxProducers
      BY <1>0, <2>0, PtrBefore
    <3>2. /\ 0 \in Nat
          /\ (IF size > 0 THEN l.nonEmptyCount + 1 ELSE l.nonEmptyCount) \in Nat
          /\ (IF size > l.bestSize THEN l.ptr ELSE l.best) \in 0 .. MaxProducers
          /\ (IF size > l.bestSize THEN size ELSE l.bestSize) \in Nat
      BY <1>0, <2>2
    <3>3. rec \in SearchLocal
      <4> HIDE DEF l
      <4> DEFINE m == IF size > 0 THEN l.nonEmptyCount + 1 ELSE l.nonEmptyCount
                 b == IF size > l.bestSize THEN l.ptr ELSE l.best
                 k == IF size > l.bestSize THEN size ELSE l.bestSize
                 n == l.ptr - 1
      <4>1. rec = [l EXCEPT !.ptr = n, !.tail = 0, !.nonEmptyCount = m, !.best = b, !.bestSize = k]
        OBVIOUS
      <4>2. n \in 0 .. MaxProducers /\ m \in Nat /\ b \in 0 .. MaxProducers /\ k \in Nat
        BY <3>1, <3>2
      <4> HIDE DEF rec, n, m, b, k
      <4> QED BY <1>0, <4>1, <4>2 DEF SearchLocal
    <3> QED BY <1>0, <3>3 DEF SearchLocal
  <2> HIDE DEF rec
  <2>5. deq_pc'[c] = "score" /\ deq_local'[c] = rec
    BY <1>0, <2>3 DEF Dequeue!Goto, Dequeue!Set
  <2>6. size = 0 => l.ptr \in excused'[c]
    BY <1>0, <2>0, <2>1, <2>2, <2>5 DEF Search, Scores
  <2>7. size = 0 /\ SearchedTo(c) => SearchedTo(c)'
    <3>1. \A p \in Dequeue!Producers : p > l.ptr - 1 => p > l.ptr \/ p = l.ptr
      BY <1>0, SearchConstants
    <3> QED BY <1>0, <2>4, <2>5, <2>6, <3>1 DEF SearchedTo
  <2>8. Scores(c)'
    <3>1. rec.nonEmptyCount = 0 => size = 0 /\ l.nonEmptyCount = 0
      BY <1>0, <2>2, <2>4
    <3>2. rec.nonEmptyCount > 0 => rec.bestSize > 0
      BY <1>0, <2>0, <2>2, <2>4 DEF Search, Scores, Scoring
    <3>3. rec.bestSize > 0 => rec.best # 0
      BY <1>0, <2>0, <2>2, <2>4 DEF Search, Scores, Scoring
    <3> QED BY <2>0, <2>5, <2>7, <3>1, <3>2, <3>3 DEF Search, Scores, Scoring
  <2>9. Tries(c)'
    BY <2>5 DEF Tries, InDequeue
  <2> QED BY <2>0, <2>3, <2>4, <2>5, <2>8, <2>9, QuietMove DEF SearchLabels, Scoring, InDequeue, Between
<1>4. CASE Dequeue!EndScore(c)
  <2> DEFINE rec == Dequeue!At(c, 0)
             lab == IF l.nonEmptyCount > 0 THEN "best" ELSE "failed"
  <2>0. deq_pc[c] = "score" /\ Search(c) /\ (l.nonEmptyCount = 0 => l.ptr = 0)
    BY <1>0, <1>4, SearchConstants DEF Dequeue!EndScore
  <2>1. rec \in SearchLocal /\ rec.best = l.best
    <3>1. 0 \in 0 .. MaxProducers
      BY SearchConstants
    <3> QED BY <3>1, AtIs DEF SearchInv
  <2>2. Dequeue!Goto(c, lab) /\ Dequeue!Set(c, rec) /\ UNCHANGED Dequeue!producers
    BY <1>4 DEF Dequeue!EndScore
  <2> HIDE DEF rec
  <2>3. deq_pc'[c] = lab /\ deq_local'[c] = rec
    BY <1>0, <2>2 DEF Dequeue!Goto, Dequeue!Set
  <2>4. lab = "best" => l.best # 0
    BY <2>0 DEF Search, Scores, Scoring
  <2>5. lab = "failed" => excused'[c] = Dequeue!Producers
    <3>1. lab = "failed" => SearchedTo(c) /\ l.ptr = 0
      BY <1>0, <2>0 DEF Search, Scores, Scoring
    <3>2. \A p \in Dequeue!Producers : p > 0
      BY SearchConstants
    <3> QED BY <1>0, <2>3, <3>1, <3>2 DEF SearchedTo
  <2>6. Scores(c)' /\ Tries(c)'
    BY <2>1, <2>3, <2>4, <2>5 DEF Scores, Tries, Scoring, InDequeue
  <2> QED BY <2>0, <2>1, <2>2, <2>6, QuietMove DEF SearchLabels, Scoring, InDequeue, Between
<1> QED BY <1>1, <1>2, <1>3, <1>4

\* What a consumer that begins to dequeue from p has read.
LEMMA EnterStep ==
    ASSUME SearchInv, Dequeue!Observe, NEW c \in Consumers, NEW p \in Dequeue!Producers,
           Dequeue!Enter(c, p), deq_pc[c] \in {"best", "others"},
           deq_pc[c] = "best" => p = deq_local[c].best,
           deq_pc[c] = "others" => p = deq_local[c].ptr /\ p # deq_local[c].best
    PROVE  SearchInv'
<1> DEFINE l == deq_local[c]
           rec == [l EXCEPT !.producer = p, !.tail = tailIndex[p]]
<1>0. /\ l \in SearchLocal /\ Search(c) /\ tailIndex[p] \in Nat /\ headIndex[p] \in Nat /\ p \in 0 .. MaxProducers
      /\ deq_pc \in [Consumers -> SearchLabels] /\ deq_local \in [Consumers -> SearchLocal]
  BY SearchConstants DEF SearchInv, SearchTypes, Counters, SearchLabels
<1>1. rec \in SearchLocal
  BY <1>0 DEF SearchLocal
<1>2. rec.producer = p /\ rec.tail = tailIndex[p] /\ rec.ptr = l.ptr /\ rec.best = l.best
  BY <1>0 DEF SearchLocal
<1>3. Dequeue!Goto(c, "overcommit") /\ Dequeue!Set(c, rec) /\ UNCHANGED Dequeue!producers
  BY DEF Dequeue!Enter
<1> HIDE DEF rec
<1>4. deq_pc'[c] = "overcommit" /\ deq_local'[c] = rec /\ headIndex' = headIndex /\ tailIndex' = tailIndex
  BY <1>0, <1>3 DEF Dequeue!Goto, Dequeue!Set, Dequeue!producers
<1>5. Seen(c)' /\ excused[c] \subseteq excused'[c]
  BY <1>4, Observed DEF SearchInv
<1>6. Scores(c)' /\ Reads(c)'
  <2>1. p \notin excused'[c] => headIndex[p] < tailIndex[p]
    BY <1>0, <1>4, <1>5 DEF Seen, Dequeue!EmptyOrBusy
  <2> QED BY <1>2, <1>4, <2>1 DEF Scores, Reads, Scoring
<1>7. Tries(c)'
  BY <1>0, <1>2, <1>4, <1>5 DEF Search, Tries, InDequeue, SearchedTo
<1> QED BY <1>1, <1>2, <1>3, <1>6, <1>7, QuietMove DEF SearchLabels, Scoring, InDequeue, Between

LEMMA WalkStep ==
    ASSUME SearchInv, Dequeue!Observe, NEW c \in Consumers,
           \/ Dequeue!DequeueBest(c) \/ Dequeue!BeginOthers(c) \/ Dequeue!DequeueOther(c)
           \/ Dequeue!SkipBest(c) \/ Dequeue!EndOthers(c) \/ Dequeue!Fail(c)
    PROVE  SearchInv'
<1> DEFINE l == deq_local[c]
<1>0. /\ l \in SearchLocal /\ l.ptr \in 0 .. MaxProducers /\ l.best \in 0 .. MaxProducers
      /\ deq_pc \in [Consumers -> SearchLabels] /\ deq_local \in [Consumers -> SearchLocal] /\ SearchTypes
      /\ linked \in 0 .. MaxProducers
      /\ excused[c] \subseteq Dequeue!Producers /\ excused'[c] \subseteq Dequeue!Producers
      /\ deq_pc[c] # "idle" => Search(c)
      /\ deq_pc'[c] # "idle" => Seen(c)' /\ excused[c] \subseteq excused'[c]
  BY Observed DEF SearchInv, SearchTypes, SearchLocal, SearchLabels
<1>1. CASE Dequeue!DequeueBest(c)
  <2>1. deq_pc[c] = "best" /\ l.best \in Dequeue!Producers
    <3>1. deq_pc[c] = "best" /\ l.best # 0
      BY <1>0, <1>1 DEF Dequeue!DequeueBest, Search, Tries
    <3> QED BY <1>0, <3>1, SearchConstants
  <2> QED BY <1>1, <2>1, EnterStep DEF Dequeue!DequeueBest
<1>2. CASE Dequeue!BeginOthers(c)
  <2> DEFINE rec == Dequeue!At(c, linked)
  <2>1. rec \in SearchLocal /\ rec.ptr = linked /\ rec.best = l.best
    BY <1>0, AtIs
  <2>2. deq_pc[c] = "retry" /\ Dequeue!Goto(c, "others") /\ Dequeue!Set(c, rec) /\ UNCHANGED Dequeue!producers
    BY <1>2 DEF Dequeue!BeginOthers
  <2> HIDE DEF rec
  <2>3. deq_pc'[c] = "others" /\ deq_local'[c] = rec /\ linked' = linked
    BY <1>0, <2>2 DEF Dequeue!Goto, Dequeue!Set, Dequeue!producers
  <2>4. SearchedTo(c)'
    BY <1>0, <2>1, <2>3 DEF SearchedTo, Seen, Dequeue!EmptyOrBusy
  <2>5. Scores(c)' /\ Tries(c)'
    BY <1>0, <2>1, <2>2, <2>3, <2>4 DEF Search, Scores, Tries, Scoring, InDequeue
  <2> QED BY <2>1, <2>2, <2>5, QuietMove DEF SearchLabels, Scoring, InDequeue, Between
<1>3. CASE Dequeue!DequeueOther(c)
  <2>1. deq_pc[c] = "others" /\ l.ptr \in Dequeue!Producers /\ l.ptr # l.best
    BY <1>0, <1>3, SearchConstants DEF Dequeue!DequeueOther
  <2> QED BY <1>3, <2>1, EnterStep DEF Dequeue!DequeueOther
<1>4. CASE Dequeue!SkipBest(c)
  <2> DEFINE rec == Dequeue!At(c, l.ptr - 1)
  <2>0. deq_pc[c] = "others" /\ l.ptr # 0 /\ l.ptr = l.best /\ Search(c)
    BY <1>0, <1>4 DEF Dequeue!SkipBest
  <2>1. rec \in SearchLocal /\ rec.ptr = l.ptr - 1 /\ rec.best = l.best
    <3>1. l.ptr - 1 \in 0 .. MaxProducers
      BY <1>0, <2>0, PtrBefore
    <3> QED BY <1>0, <3>1, AtIs
  <2>2. Dequeue!Goto(c, "others") /\ Dequeue!Set(c, rec) /\ UNCHANGED Dequeue!producers
    BY <1>0, <1>4 DEF Dequeue!SkipBest, Dequeue!Goto
  <2> HIDE DEF rec
  <2>3. deq_pc'[c] = "others" /\ deq_local'[c] = rec
    BY <1>0, <2>2 DEF Dequeue!Goto, Dequeue!Set
  <2>4. SearchedTo(c)'
    <3>1. \A p \in Dequeue!Producers : p > l.ptr - 1 => p > l.ptr \/ p = l.best
      BY <1>0, <2>0, SearchConstants
    <3> QED BY <1>0, <2>0, <2>1, <2>3, <3>1 DEF Search, Tries, SearchedTo
  <2>5. Scores(c)' /\ Tries(c)'
    BY <1>0, <2>0, <2>1, <2>3, <2>4 DEF Search, Scores, Tries, Scoring, InDequeue
  <2> QED BY <2>0, <2>1, <2>2, <2>5, QuietMove DEF SearchLabels, Scoring, InDequeue, Between
<1>5. CASE Dequeue!EndOthers(c)
  <2>0. deq_pc[c] = "others" /\ l.ptr = 0 /\ Search(c)
    BY <1>0, <1>5 DEF Dequeue!EndOthers
  <2>1. Dequeue!Goto(c, "failed") /\ Dequeue!Set(c, l) /\ UNCHANGED Dequeue!producers
    BY <1>0, <1>5 DEF Dequeue!EndOthers, Dequeue!Set
  <2>2. deq_pc'[c] = "failed" /\ deq_local'[c] = l
    BY <1>0, <2>1 DEF Dequeue!Goto, Dequeue!Set
  <2>3. excused'[c] = Dequeue!Producers
    <3>1. \A p \in Dequeue!Producers : p > 0
      BY SearchConstants
    <3> QED BY <1>0, <2>0, <2>2, <3>1 DEF Search, Tries, SearchedTo
  <2>4. Scores(c)' /\ Tries(c)'
    BY <2>2, <2>3 DEF Scores, Tries, Scoring, InDequeue
  <2> QED BY <1>0, <2>0, <2>1, <2>4, QuietMove DEF SearchLabels, Scoring, InDequeue, Between
<1>6. CASE Dequeue!Fail(c)
  <2>1. Dequeue!Fresh \in SearchLocal
    BY <1>0, FreshSearch
  <2> QED BY <1>6, <2>1, QuietMove DEF Dequeue!Fail, SearchLabels, Scoring, InDequeue, Between
<1> QED BY <1>1, <1>2, <1>3, <1>4, <1>5, <1>6

LEMMA TestStep ==
    ASSUME SearchInv, Dequeue!Observe, NEW c \in Consumers,
           Dequeue!LoadOvercommit(c) \/ Dequeue!Test(c) \/ Dequeue!Recheck(c)
    PROVE  SearchInv'
<1> DEFINE l == deq_local[c]
           p == l.producer
<1>0. /\ l \in SearchLocal /\ l.tail \in Nat /\ l.overcommit \in Nat /\ l.myDequeueCount \in Nat
      /\ deq_pc[c] \in InDequeue /\ p \in Dequeue!Producers /\ Search(c)
      /\ deq_pc \in [Consumers -> SearchLabels] /\ deq_local \in [Consumers -> SearchLocal]
      /\ tailIndex[p] \in Nat /\ headIndex[p] \in Nat /\ dequeueOvercommit[p] \in Nat
      /\ dequeueOptimisticCount[p] \in Nat
      /\ deq_pc'[c] # "idle" => Seen(c)' /\ excused[c] \subseteq excused'[c]
  <2>1. deq_pc[c] \in InDequeue
    BY DEF InDequeue, Dequeue!LoadOvercommit, Dequeue!Test, Dequeue!Recheck
  <2>2. deq_pc[c] # "idle" /\ p \in Dequeue!Producers
    BY <2>1 DEF InDequeue, SearchInv, SearchTypes
  <2> QED BY <2>1, <2>2, Observed DEF SearchInv, SearchTypes, SearchLocal, SearchLabels, Counters
<1> HIDE DEF p
<1>1. CASE Dequeue!LoadOvercommit(c)
  <2> DEFINE rec == [l EXCEPT !.overcommit = dequeueOvercommit[p]]
  <2>1. rec \in SearchLocal
    BY <1>0, SearchRecord
  <2>2. rec.producer = l.producer /\ rec.tail = l.tail /\ rec.ptr = l.ptr /\ rec.best = l.best
        /\ rec.overcommit = dequeueOvercommit[p]
    BY <1>0 DEF SearchLocal
  <2>3. deq_pc[c] = "overcommit" /\ Dequeue!Goto(c, "test") /\ Dequeue!Set(c, rec) /\ UNCHANGED Dequeue!producers
    BY <1>1 DEF Dequeue!LoadOvercommit, p
  <2> HIDE DEF rec
  <2>4. deq_pc'[c] = "test" /\ deq_local'[c] = rec
        /\ headIndex' = headIndex /\ dequeueOvercommit' = dequeueOvercommit
    BY <1>0, <2>3 DEF Dequeue!Goto, Dequeue!Set, Dequeue!producers
  <2>5. Scores(c)' /\ Reads(c)'
    BY <1>0, <2>2, <2>3, <2>4 DEF Search, Scores, Reads, Scoring, InDequeue, p
  <2>6. Tries(c)'
    BY <1>0, <2>2, <2>3, <2>4 DEF Search, Tries, SearchedTo, InDequeue
  <2> QED BY <1>0, <2>1, <2>2, <2>3, <2>5, <2>6, QuietMove DEF SearchLabels, Scoring, InDequeue, Between, p
<1>2. CASE Dequeue!Test(c)
  <2>0. deq_pc[c] = "test" /\ UNCHANGED Dequeue!producers
    BY <1>2 DEF Dequeue!Test
  <2>1. CASE dequeueOptimisticCount[p] - l.overcommit < l.tail
    <3>1. Dequeue!Goto(c, "count") /\ Dequeue!Set(c, l)
      BY <1>0, <1>2, <2>1 DEF Dequeue!Test, Dequeue!Set, p
    <3>2. deq_pc'[c] = "count" /\ deq_local'[c] = l
          /\ headIndex' = headIndex /\ dequeueOvercommit' = dequeueOvercommit
      BY <1>0, <2>0, <3>1 DEF Dequeue!Goto, Dequeue!Set, Dequeue!producers
    <3>3. Scores(c)' /\ Reads(c)'
      BY <1>0, <2>0, <3>2 DEF Search, Scores, Reads, Scoring, InDequeue
    <3>4. Tries(c)'
      BY <1>0, <2>0, <3>2 DEF Search, Tries, SearchedTo, InDequeue
    <3> QED BY <1>0, <2>0, <3>1, <3>3, <3>4, QuietMove DEF SearchLabels, Scoring, InDequeue, Between, p
  <2>2. CASE ~(dequeueOptimisticCount[p] - l.overcommit < l.tail)
    <3>1. Dequeue!Failed(c)
      BY <1>2, <2>2 DEF Dequeue!Test, p
    \* Where nobody is counted, the counts are of the elements taken.
    <3>2. p \in excused'[c]
      <4>1. deq_pc'[c] \in {"retry", "others"}
        BY <1>0, <3>1 DEF Dequeue!Failed, Dequeue!Goto
      <4>2. SUFFICES ASSUME p \notin excused'[c] PROVE FALSE
        OBVIOUS
      <4>3. p \notin excused[c] /\ \A d \in Consumers : d # c => ~Dequeue!CountedAt(d, p)
        BY <1>0, <4>1, <4>2 DEF Search, Seen, Dequeue!EmptyOrBusy
      <4>4. ~Dequeue!CountedAt(c, p)
        BY <2>0 DEF Dequeue!CountedAt
      <4>5. CountedIn(p) = {}
        BY <4>3, <4>4 DEF CountedIn
      <4>6. dequeueOptimisticCount[p] = headIndex[p] + dequeueOvercommit[p] + 0
        BY <1>0, <4>5, FS_EmptySet DEF SearchInv, Balance
      <4>7. headIndex[p] < l.tail /\ l.overcommit = dequeueOvercommit[p]
        BY <1>0, <2>0, <4>3 DEF Search, Reads, p
      <4> QED BY <1>0, <2>2, <4>6, <4>7
    <3>3. PICK lab \in {"retry", "others"}, rec \in SearchLocal :
            Dequeue!Goto(c, lab) /\ Dequeue!Set(c, rec) /\ Scores(c)' /\ Tries(c)'
      BY <1>0, <3>1, <3>2, FailedMoves DEF p
    <3> QED BY <2>0, <3>3, QuietMove DEF SearchLabels, Scoring, InDequeue, Between
  <2> QED BY <2>1, <2>2
<1>3. CASE Dequeue!Recheck(c)
  <2> DEFINE lab == IF l.myDequeueCount - l.overcommit < tailIndex[p] THEN "claim" ELSE "over"
  <2>0. deq_pc[c] = "recheck" /\ Dequeue!Goto(c, lab) /\ Dequeue!Set(c, l) /\ UNCHANGED Dequeue!producers
    BY <1>0, <1>3 DEF Dequeue!Recheck, Dequeue!Set, p
  <2>1. deq_pc'[c] = lab /\ deq_local'[c] = l
    BY <1>0, <2>0 DEF Dequeue!Goto, Dequeue!Set
  <2>2. lab = "over" => p \in excused'[c]
    <3>1. SUFFICES ASSUME p \notin excused[c] PROVE lab # "over"
      BY <1>0, <2>1
    <3>2. headIndex[p] < tailIndex[p]
      BY <1>0, <3>1 DEF Search, Seen, Dequeue!EmptyOrBusy
    <3>3. l.myDequeueCount = headIndex[p] + l.overcommit
      BY <1>0, <2>0, <3>1 DEF Search, Reads, p
    <3> QED BY <1>0, <3>2, <3>3
  <2>3. lab \in {"claim", "over"}
    OBVIOUS
  <2> HIDE DEF lab
  <2>4. Scores(c)' /\ Reads(c)'
    BY <1>0, <2>1, <2>2, <2>3 DEF Scores, Reads, Scoring, p
  <2>5. Tries(c)'
    BY <1>0, <2>1, <2>3 DEF Search, Tries, SearchedTo, InDequeue
  <2> QED BY <1>0, <2>0, <2>3, <2>4, <2>5, QuietMove DEF SearchLabels, Scoring, InDequeue, Between, p
<1> QED BY <1>1, <1>2, <1>3

\* A counted consumer leaves, with an element or with its count taken back.
LEMMA LeaveBalance ==
    ASSUME SearchInv, NEW c \in Consumers, NEW p \in Dequeue!Producers, Dequeue!CountedAt(c, p),
           \A d \in Consumers : d # c => deq_pc'[d] = deq_pc[d] /\ deq_local'[d] = deq_local[d],
           deq_pc'[c] \notin Between, UNCHANGED dequeueOptimisticCount,
           \A q \in Dequeue!Producers :
                headIndex'[q] + dequeueOvercommit'[q] =
                    headIndex[q] + dequeueOvercommit[q] + (IF q = p THEN 1 ELSE 0),
           headIndex' \in Counters, dequeueOvercommit' \in Counters
    PROVE  Balance'
<1> SUFFICES ASSUME NEW q \in Dequeue!Producers
             PROVE  dequeueOptimisticCount[q] = headIndex'[q] + dequeueOvercommit'[q] + Cardinality(CountedIn(q)')
  BY DEF Balance
<1>1. /\ IsFiniteSet(CountedIn(q)) /\ Cardinality(CountedIn(q)) \in Nat
      /\ CountedIn(q)' = CountedIn(q) \ {c} /\ (c \in CountedIn(q) <=> q = p)
  <2>1. ~Dequeue!CountedAt(c, q)'
    BY DEF Dequeue!CountedAt, Between
  <2>2. Dequeue!CountedAt(c, q) <=> q = p
    BY DEF Dequeue!CountedAt
  <2> QED BY <2>1, <2>2, CountedInMoves
<1>2. Cardinality(CountedIn(q)') = IF q = p THEN Cardinality(CountedIn(q)) - 1 ELSE Cardinality(CountedIn(q))
  BY <1>1, FS_RemoveElement
<1>3. /\ dequeueOptimisticCount[q] = headIndex[q] + dequeueOvercommit[q] + Cardinality(CountedIn(q))
      /\ headIndex[q] \in Nat /\ dequeueOvercommit[q] \in Nat
      /\ headIndex'[q] \in Nat /\ dequeueOvercommit'[q] \in Nat
  BY DEF SearchInv, SearchTypes, Balance, Counters
<1> DEFINE n == Cardinality(CountedIn(q))
           m == Cardinality(CountedIn(q)')
<1>4. n \in Nat /\ m = (IF q = p THEN n - 1 ELSE n)
      /\ dequeueOptimisticCount[q] = headIndex[q] + dequeueOvercommit[q] + n
  BY <1>1, <1>2, <1>3
<1> HIDE DEF n, m
<1>5. dequeueOptimisticCount[q] = headIndex'[q] + dequeueOvercommit'[q] + m
  BY <1>3, <1>4
<1> QED BY <1>5 DEF m

LEMMA CountStep ==
    ASSUME SearchInv, Dequeue!Observe, NEW c \in Consumers,
           Dequeue!Count(c) \/ Dequeue!Claim(c) \/ Dequeue!Overcommit(c)
    PROVE  SearchInv'
<1> DEFINE l == deq_local[c]
           p == l.producer
<1>0. /\ l \in SearchLocal /\ l.overcommit \in Nat
      /\ deq_pc[c] \in InDequeue /\ p \in Dequeue!Producers /\ Search(c)
      /\ deq_pc \in [Consumers -> SearchLabels] /\ deq_local \in [Consumers -> SearchLocal]
      /\ headIndex \in Counters /\ dequeueOvercommit \in Counters /\ dequeueOptimisticCount \in Counters
      /\ tailIndex \in Counters /\ linked \in 0 .. MaxProducers
      /\ excused' \in [Consumers -> SUBSET Dequeue!Producers]
      /\ deq_pc'[c] # "idle" => Seen(c)' /\ excused[c] \subseteq excused'[c]
  <2>1. deq_pc[c] \in InDequeue
    BY DEF InDequeue, Dequeue!Count, Dequeue!Claim, Dequeue!Overcommit
  <2>2. deq_pc[c] # "idle" /\ p \in Dequeue!Producers
    BY <2>1 DEF InDequeue, SearchInv, SearchTypes
  <2> QED BY <2>1, <2>2, Observed DEF SearchInv, SearchTypes, SearchLocal, SearchLabels
<1> HIDE DEF p
<1>t. ASSUME NEW lab \in SearchLabels, NEW rec \in SearchLocal, Dequeue!Goto(c, lab), Dequeue!Set(c, rec),
             lab \in InDequeue => rec.producer \in Dequeue!Producers,
             headIndex' \in Counters, dequeueOvercommit' \in Counters, dequeueOptimisticCount' \in Counters,
             UNCHANGED <<linked, tailIndex>>
      PROVE  /\ SearchTypes' /\ deq_pc'[c] = lab /\ deq_local'[c] = rec
             /\ \A d \in Consumers : d # c => deq_pc'[d] = deq_pc[d] /\ deq_local'[d] = deq_local[d]
  <2>1. /\ deq_pc' \in [Consumers -> SearchLabels] /\ deq_local' \in [Consumers -> SearchLocal]
        /\ deq_pc'[c] = lab /\ deq_local'[c] = rec
        /\ \A d \in Consumers : d # c => deq_pc'[d] = deq_pc[d] /\ deq_local'[d] = deq_local[d]
    BY <1>0, <1>t DEF Dequeue!Goto, Dequeue!Set
  <2>2. \A d \in Consumers : deq_pc'[d] \in InDequeue => deq_local'[d].producer \in Dequeue!Producers
    BY <1>t, <2>1 DEF SearchInv, SearchTypes
  <2> QED BY <1>0, <1>t, <2>1, <2>2 DEF SearchTypes, SearchLabels
<1>1. CASE Dequeue!Count(c)
  <2> DEFINE my == dequeueOptimisticCount[p]
             rec == [l EXCEPT !.myDequeueCount = my]
  <2>1. my \in Nat /\ rec \in SearchLocal
    <3>1. my \in Nat
      BY <1>0 DEF Counters
    <3> QED BY <1>0, <3>1, SearchRecord
  <2>2. rec.producer = p /\ rec.ptr = l.ptr /\ rec.best = l.best /\ rec.overcommit = l.overcommit
        /\ rec.myDequeueCount = my
    BY <1>0 DEF SearchLocal, p
  <2>3. /\ deq_pc[c] = "count" /\ Dequeue!Goto(c, "recheck") /\ Dequeue!Set(c, rec)
        /\ dequeueOptimisticCount' = [dequeueOptimisticCount EXCEPT ![p] = @ + 1]
        /\ UNCHANGED <<linked, tailIndex, headIndex, dequeueOvercommit>>
    BY <1>1 DEF Dequeue!Count, p
  <2>4. dequeueOptimisticCount' \in Counters
    BY <1>0, <2>1, <2>3 DEF Counters
  <2> HIDE DEF rec
  <2>5. /\ SearchTypes' /\ deq_pc'[c] = "recheck" /\ deq_local'[c] = rec
        /\ \A d \in Consumers : d # c => deq_pc'[d] = deq_pc[d] /\ deq_local'[d] = deq_local[d]
    BY <1>0, <1>t, <2>1, <2>2, <2>3, <2>4 DEF SearchLabels, InDequeue
  <2>6. ASSUME NEW q \in Dequeue!Producers
        PROVE  dequeueOptimisticCount'[q] = headIndex[q] + dequeueOvercommit[q] + Cardinality(CountedIn(q)')
    <3>0. /\ dequeueOptimisticCount[q] = headIndex[q] + dequeueOvercommit[q] + Cardinality(CountedIn(q))
          /\ headIndex[q] \in Nat /\ dequeueOvercommit[q] \in Nat /\ dequeueOptimisticCount[q] \in Nat
      BY <1>0 DEF SearchInv, Balance, Counters
    <3>1. /\ Dequeue!CountedAt(c, q)' <=> q = p
          /\ ~Dequeue!CountedAt(c, q)
      BY <2>2, <2>3, <2>5 DEF Dequeue!CountedAt
    <3>2. IsFiniteSet(CountedIn(q)) /\ Cardinality(CountedIn(q)) \in Nat /\ c \notin CountedIn(q)
      BY <2>5, <3>1, CountedInMoves
    <3>3. CASE q = p
      <4>1. CountedIn(q)' = CountedIn(q) \union {c}
        BY <2>5, <3>1, <3>3, CountedInMoves
      <4>2. Cardinality(CountedIn(q)') = Cardinality(CountedIn(q)) + 1
        BY <3>2, <4>1, FS_AddElement
      <4>3. dequeueOptimisticCount'[q] = dequeueOptimisticCount[q] + 1
        BY <1>0, <2>3, <3>3 DEF Counters
      <4> QED BY <3>0, <3>2, <4>2, <4>3
    <3>4. CASE q # p
      <4>1. CountedIn(q)' = CountedIn(q) \ {c}
        BY <2>5, <3>1, <3>4, CountedInMoves
      <4>2. CountedIn(q)' = CountedIn(q)
        BY <3>2, <4>1
      <4>3. dequeueOptimisticCount'[q] = dequeueOptimisticCount[q]
        BY <1>0, <2>3, <3>4 DEF Counters
      <4> QED BY <3>0, <4>2, <4>3
    <3> QED BY <3>3, <3>4
  <2>7. Balance'
    BY <2>3, <2>6 DEF Balance
  <2>8. Reads(c)'
    <3>1. SUFFICES ASSUME p \notin excused'[c] PROVE my = headIndex[p] + l.overcommit
      BY <2>2, <2>3, <2>5 DEF Reads
    <3>2. p \notin excused[c] /\ \A d \in Consumers : d # c => ~Dequeue!CountedAt(d, p)
      BY <1>0, <2>5, <3>1 DEF Search, Seen, Dequeue!EmptyOrBusy
    <3>3. ~Dequeue!CountedAt(c, p)
      BY <2>3 DEF Dequeue!CountedAt
    <3>4. CountedIn(p) = {}
      BY <3>2, <3>3 DEF CountedIn
    <3>5. my = headIndex[p] + dequeueOvercommit[p] + 0
      BY <1>0, <3>4, FS_EmptySet DEF SearchInv, Balance
    <3>6. l.overcommit = dequeueOvercommit[p]
      BY <1>0, <2>3, <3>2 DEF Search, Reads, p
    <3>7. headIndex[p] \in Nat
      BY <1>0 DEF Counters
    <3> HIDE DEF my
    <3> QED BY <1>0, <3>5, <3>6, <3>7
  <2>9. Scores(c)' /\ Tries(c)'
    BY <1>0, <2>2, <2>3, <2>5 DEF Search, Scores, Tries, SearchedTo, Scoring, InDequeue, p
  <2>10. Moves(c)
    BY <2>3, <2>5 DEF Moves
  <2> QED BY <2>5, <2>7, <2>8, <2>9, <2>10, MoveKeeps
<1>2. CASE Dequeue!Claim(c)
  <2>1. /\ deq_pc[c] = "claim" /\ Dequeue!Goto(c, "idle") /\ Dequeue!Set(c, Dequeue!Fresh)
        /\ headIndex' = [headIndex EXCEPT ![p] = @ + 1]
        /\ UNCHANGED <<linked, tailIndex, dequeueOptimisticCount, dequeueOvercommit>>
    BY <1>2 DEF Dequeue!Claim, p
  <2>2. headIndex' \in Counters /\ \A q \in Dequeue!Producers :
            headIndex'[q] = headIndex[q] + (IF q = p THEN 1 ELSE 0)
    BY <1>0, <2>1 DEF Counters
  <2>3. Dequeue!Fresh \in SearchLocal
    BY <1>0, FreshSearch
  <2>4. /\ SearchTypes' /\ deq_pc'[c] = "idle"
        /\ \A d \in Consumers : d # c => deq_pc'[d] = deq_pc[d] /\ deq_local'[d] = deq_local[d]
    BY <1>0, <1>t, <2>1, <2>2, <2>3 DEF SearchLabels, InDequeue
  <2>5. Dequeue!CountedAt(c, p)
    BY <2>1 DEF Dequeue!CountedAt, p
  <2>6. \A q \in Dequeue!Producers :
            headIndex'[q] + dequeueOvercommit'[q] =
                headIndex[q] + dequeueOvercommit[q] + (IF q = p THEN 1 ELSE 0)
    <3>1. \A q \in Dequeue!Producers : headIndex[q] \in Nat /\ dequeueOvercommit[q] \in Nat
      BY <1>0 DEF Counters
    <3> QED BY <2>1, <2>2, <3>1
  <2>7. Balance'
    BY <1>0, <2>1, <2>2, <2>4, <2>5, <2>6, LeaveBalance DEF Between
  <2>8. Moves(c)
    BY <1>0, <2>1, <2>2, <2>4, <2>5 DEF Moves, Counters
  <2> QED BY <2>4, <2>7, <2>8, MoveKeeps
<1>3. CASE Dequeue!Overcommit(c)
  <2>1. /\ deq_pc[c] = "over" /\ Dequeue!Failed(c)
        /\ dequeueOvercommit' = [dequeueOvercommit EXCEPT ![p] = @ + 1]
        /\ UNCHANGED <<linked, tailIndex, headIndex, dequeueOptimisticCount>>
    BY <1>3 DEF Dequeue!Overcommit, p
  <2>2. dequeueOvercommit' \in Counters /\ \A q \in Dequeue!Producers :
            dequeueOvercommit'[q] = dequeueOvercommit[q] + (IF q = p THEN 1 ELSE 0)
    BY <1>0, <2>1 DEF Counters
  <2>3. p \in excused'[c]
    <3>1. deq_pc'[c] # "idle"
      BY <1>0, <2>1 DEF Dequeue!Failed, Dequeue!Goto
    <3> QED BY <1>0, <2>1, <3>1 DEF Search, Reads, p
  <2>4. PICK lab \in {"retry", "others"}, rec \in SearchLocal :
            Dequeue!Goto(c, lab) /\ Dequeue!Set(c, rec) /\ Scores(c)' /\ Tries(c)'
    BY <1>0, <2>1, <2>3, FailedMoves DEF p
  <2>5. /\ SearchTypes' /\ deq_pc'[c] = lab
        /\ \A d \in Consumers : d # c => deq_pc'[d] = deq_pc[d] /\ deq_local'[d] = deq_local[d]
    BY <1>0, <1>t, <2>1, <2>2, <2>4 DEF SearchLabels, InDequeue
  <2>6. Dequeue!CountedAt(c, p)
    BY <2>1 DEF Dequeue!CountedAt, p
  <2>7. \A q \in Dequeue!Producers :
            headIndex'[q] + dequeueOvercommit'[q] =
                headIndex[q] + dequeueOvercommit[q] + (IF q = p THEN 1 ELSE 0)
    <3>1. \A q \in Dequeue!Producers : headIndex[q] \in Nat /\ dequeueOvercommit[q] \in Nat
      BY <1>0 DEF Counters
    <3> QED BY <2>1, <2>2, <3>1
  <2>8. Balance'
    BY <1>0, <2>1, <2>2, <2>5, <2>6, <2>7, LeaveBalance DEF Between
  <2>9. Moves(c)
    BY <1>0, <2>1, <2>2, <2>5, <2>6 DEF Moves, Counters
  <2> QED BY <2>4, <2>5, <2>8, <2>9, MoveKeeps DEF InDequeue
<1> QED BY <1>1, <1>2, <1>3

LEMMA SearchStep == SearchInv /\ Dequeue!Next => SearchInv'
<1> SUFFICES ASSUME SearchInv, Dequeue!Step, Dequeue!Observe PROVE SearchInv'
  BY DEF Dequeue!Next
<1>1. ASSUME UNCHANGED <<deq_pc, deq_local, headIndex, dequeueOptimisticCount, dequeueOvercommit>>,
             linked' \in 0 .. MaxProducers, tailIndex' \in Counters
      PROVE  SearchInv'
  <2>1. SearchTypes'
    BY <1>1, Observed DEF SearchInv, SearchTypes
  <2>2. Balance'
    <3>1. \A p : CountedIn(p)' = CountedIn(p)
      BY <1>1 DEF CountedIn, Dequeue!CountedAt
    <3> QED BY <1>1, <3>1 DEF SearchInv, Balance
  <2>3. ASSUME NEW d \in Consumers, deq_pc'[d] # "idle" PROVE Search(d)'
    <3>1. Search(d) /\ Seen(d)' /\ excused[d] \subseteq excused'[d]
      BY <1>1, <2>3, Observed DEF SearchInv
    <3> QED BY <1>1, <2>1, <3>1, KeepsSearch DEF SearchInv
  <2> QED BY <2>1, <2>2, <2>3 DEF SearchInv
<1>2. CASE Dequeue!AddProducer
  <2>1. linked' \in 0 .. MaxProducers
    BY <1>2, SearchConstants DEF Dequeue!AddProducer, SearchInv, SearchTypes
  <2> QED BY <1>1, <1>2, <2>1 DEF Dequeue!AddProducer, SearchInv, SearchTypes
<1>3. ASSUME NEW p \in Dequeue!Producers, Dequeue!Push(p) PROVE SearchInv'
  <2>1. tailIndex' \in Counters
    BY <1>3 DEF Dequeue!Push, SearchInv, SearchTypes, Counters
  <2> QED BY <1>1, <1>3, <2>1 DEF Dequeue!Push, SearchInv, SearchTypes
<1>4. ASSUME NEW c \in Consumers, Dequeue!Consume(c) PROVE SearchInv'
  BY <1>4, ScoreStep, WalkStep, TestStep, CountStep DEF Dequeue!Consume
<1> QED BY <1>2, <1>3, <1>4 DEF Dequeue!Step

\* A try_dequeue that fails has found every producer empty at some time in the call, or another
\* consumer between its count and its claim or overcommit there, for any producers and consumers.
THEOREM MissesOnlyBusyCorrect == MCSpec => []MissesOnlyBusy
<1>1. MCInit => SearchInv
  BY SearchInit DEF MCInit
<1>2. SearchInv /\ [MCNext]_<<part, vars, hashVars, dequeueVars, collectionVars>> => SearchInv'
  <2> SUFFICES ASSUME SearchInv, [MCNext]_<<part, vars, hashVars, dequeueVars, collectionVars>>
               PROVE  SearchInv'
    OBVIOUS
  <2>1. CASE UNCHANGED dequeueVars
    <3>1. UNCHANGED <<linked, tailIndex, headIndex, dequeueOptimisticCount, dequeueOvercommit,
                      deq_pc, deq_local, excused>>
      BY <2>1 DEF dequeueVars
    <3>2. SearchTypes' /\ \A p : CountedIn(p)' = CountedIn(p)
      BY <3>1 DEF SearchInv, SearchTypes, CountedIn, Dequeue!CountedAt
    <3>3. Balance'
      BY <3>1, <3>2 DEF SearchInv, Balance
    <3>4. \A c \in Consumers : Search(c) => Search(c)'
      BY <3>1 DEF Search, Seen, Dequeue!EmptyOrBusy, Dequeue!CountedAt, Scores, Reads, Tries, SearchedTo
    <3> QED BY <3>1, <3>2, <3>3, <3>4 DEF SearchInv
  <2>2. CASE Dequeue!Next
    BY <2>2, SearchStep
  <2> QED BY <2>1, <2>2 DEF MCNext
<1>3. SearchInv => MissesOnlyBusy
  BY DEF SearchInv, Search, Tries, MissesOnlyBusy, Dequeue!MissesOnlyBusy
<1> QED BY <1>1, <1>2, <1>3, PTL DEF MCSpec

-----------------------------------------------------------------------------
(* The hash of producers: doubling a capacity.                             *)

\* A set of numbers that is not empty has a least one.
LEMMA Smallest ==
    ASSUME NEW T \in SUBSET Nat, T # {}
    PROVE  \E n \in T : \A m \in T : n <= m
<1>1. IsWellFoundedOn({ss \in Nat \X Nat : ss[1] < ss[2]}, Nat)
  BY NatLessThanWellFounded DEF OpToRel
<1>2. PICK n \in T : \A m \in T : ~(<<m, n>> \in {ss \in Nat \X Nat : ss[1] < ss[2]})
  BY <1>1, WFMin
<1>3. ASSUME NEW m \in T, m < n PROVE FALSE
  <2>1. <<m, n>> \in {ss \in Nat \X Nat : ss[1] < ss[2]}
    BY <1>3
  <2> QED BY <1>2, <2>1
<1> QED BY <1>3

Doubles(c, n, g) == g \in [0 .. n -> Nat] /\ g[0] = c /\ \A i \in 1 .. n : g[i] = 2 * g[i - 1]

\* However far one doubles, there is one way to do it.
LEMMA DoublesExist == ASSUME NEW c \in Nat PROVE \A n \in Nat : \E g : Doubles(c, n, g)
<1> DEFINE T == {n \in Nat : ~\E g : Doubles(c, n, g)}
<1>1. ASSUME NEW n \in T, \A m \in T : n <= m PROVE FALSE
  <2>1. CASE n = 0
    <3>1. Doubles(c, 0, [i \in 0 .. 0 |-> c])
      BY DEF Doubles
    <3> QED BY <1>1, <2>1, <3>1
  <2>2. CASE n # 0
    <3>1. n - 1 \in Nat /\ n - 1 \notin T
      BY <1>1, <2>2
    <3>2. PICK g : Doubles(c, n - 1, g)
      BY <3>1
    <3> DEFINE h == [i \in 0 .. n |-> IF i = n THEN 2 * g[n - 1] ELSE g[i]]
    <3>3. g \in [0 .. n - 1 -> Nat] /\ n - 1 \in 0 .. n - 1 /\ n \in Nat
      BY <3>1, <3>2 DEF Doubles
    <3>4. h \in [0 .. n -> Nat]
      BY <3>3
    <3>5. h[0] = c /\ \A i \in 1 .. n : h[i] = 2 * h[i - 1]
      BY <2>2, <3>2, <3>3 DEF Doubles
    <3>6. Doubles(c, n, h)
      BY <3>4, <3>5 DEF Doubles
    <3> QED BY <3>6
  <2> QED BY <2>1, <2>2
<1>2. T \in SUBSET Nat
  OBVIOUS
<1> HIDE DEF T
<1>3. T = {}
  BY <1>1, <1>2, Smallest
<1> QED BY <1>3 DEF T

\* Two ways to double agree on what both reach.
LEMMA DoublesAgree ==
    ASSUME NEW c \in Nat, NEW n \in Nat, NEW m \in Nat, NEW g, NEW h, n <= m,
           Doubles(c, n, g), Doubles(c, m, h)
    PROVE  \A i \in 0 .. n : g[i] = h[i]
<1> DEFINE T == {i \in 0 .. n : g[i] # h[i]}
<1>1. ASSUME NEW i \in T, \A j \in T : i <= j PROVE FALSE
  <2>1. i # 0 /\ i \in 1 .. n /\ i - 1 \in 0 .. n
    BY DEF Doubles
  <2>2. i - 1 \notin T
    BY <1>1, <2>1
  <2> QED BY <2>1, <2>2 DEF Doubles
<1>2. T \in SUBSET Nat
  OBVIOUS
<1> HIDE DEF T
<1>3. T = {}
  BY <1>1, <1>2, Smallest
<1> QED BY <1>3 DEF T

\* The recursive function of the model is that way.
LEMMA DoubledStep ==
    ASSUME NEW c \in Nat
    PROVE  /\ Hash!Doubled(c) \in [Nat -> Nat] /\ Hash!Doubled(c)[0] = c
           /\ \A i \in Nat : Hash!Doubled(c)[i + 1] = 2 * Hash!Doubled(c)[i]
<1> DEFINE g(n) == CHOOSE g : Doubles(c, n, g)
           f == [n \in Nat |-> g(n)[n]]
<1>1. \A n \in Nat : Doubles(c, n, g(n))
  BY DoublesExist
<1> HIDE DEF g
<1>2. f \in [Nat -> Nat] /\ f[0] = c
  BY <1>1 DEF Doubles
<1>3. ASSUME NEW n \in Nat PROVE f[n + 1] = 2 * f[n]
  <2>1. g(n + 1)[n + 1] = 2 * g(n + 1)[n]
    BY <1>1 DEF Doubles
  <2>2. g(n + 1)[n] = g(n)[n]
    BY <1>1, DoublesAgree
  <2> QED BY <2>1, <2>2
<1> HIDE DEF f
<1>4. f = [i \in Nat |-> IF i = 0 THEN c ELSE 2 * f[i - 1]]
  <2>1. \A i \in Nat : f[i] = IF i = 0 THEN c ELSE 2 * f[i - 1]
    <3> SUFFICES ASSUME NEW i \in Nat, i # 0 PROVE f[i] = 2 * f[i - 1]
      BY <1>2
    <3>1. i - 1 \in Nat /\ (i - 1) + 1 = i
      OBVIOUS
    <3> QED BY <1>3, <3>1
  <2> QED BY <1>2, <2>1
<1> DEFINE d == Hash!Doubled(c)
<1>5. d = [i \in Nat |-> IF i = 0 THEN c ELSE 2 * d[i - 1]]
  BY <1>4 DEF Hash!Doubled
<1> HIDE DEF d
<1>6. d[0] = c /\ \A i \in Nat : d[i + 1] = 2 * d[i]
  BY <1>5
<1>7. d \in [Nat -> Nat]
  <2> DEFINE T == {i \in Nat : d[i] \notin Nat}
  <2>1. ASSUME NEW i \in T, \A j \in T : i <= j PROVE FALSE
    <3>1. i # 0 /\ i - 1 \in Nat /\ (i - 1) + 1 = i
      BY <1>6
    <3>2. d[i - 1] \in Nat
      BY <2>1, <3>1
    <3>3. d[i] = 2 * d[i - 1]
      BY <1>6, <3>1
    <3> QED BY <2>1, <3>2, <3>3
  <2>2. T \in SUBSET Nat
    OBVIOUS
  <2> HIDE DEF T
  <2>3. T = {}
    BY <2>1, <2>2, Smallest
  <2> QED BY <1>5, <2>3 DEF T
<1> QED BY <1>6, <1>7 DEF d

\* Doubled n times, a capacity is large enough for n.
LEMMA DoubledGrows ==
    ASSUME NEW c \in Nat \ {0, 1}
    PROVE  \A i \in Nat \ {0} :
                /\ Hash!Doubled(c)[i] \in Nat
                /\ Hash!Doubled(c)[i] >= 2 * c /\ Hash!Doubled(c)[i] >= 2 * i + 2
<1> DEFINE d == Hash!Doubled(c)
           T == {i \in Nat : i # 0 /\ (d[i] < 2 * c \/ d[i] < 2 * i + 2)}
<1>1. d \in [Nat -> Nat] /\ d[0] = c /\ \A i \in Nat : d[i + 1] = 2 * d[i]
  BY DoubledStep
<1> HIDE DEF d
<1>2. ASSUME NEW i \in T, \A j \in T : i <= j PROVE FALSE
  <2>1. PICK j \in Nat : i = j + 1
    <3>1. i - 1 \in Nat /\ i = (i - 1) + 1
      OBVIOUS
    <3> QED BY <3>1
  <2>2. d[i] = 2 * d[j] /\ d[j] \in Nat
    BY <1>1, <2>1
  <2>3. j \notin T
    BY <1>2, <2>1
  <2> QED BY <1>1, <2>1, <2>2, <2>3
<1>3. T \in SUBSET Nat
  OBVIOUS
<1> HIDE DEF T
<1>4. T = {}
  BY <1>2, <1>3, Smallest
<1>5. \A i \in Nat \ {0} : d[i] \in Nat /\ d[i] >= 2 * c /\ d[i] >= 2 * i + 2
  <2> SUFFICES ASSUME NEW i \in Nat \ {0} PROVE d[i] \in Nat /\ d[i] >= 2 * c /\ d[i] >= 2 * i + 2
    OBVIOUS
  <2>1. d[i] \in Nat
    BY <1>1
  <2>2. i \notin T
    BY <1>4
  <2> QED BY <2>1, <2>2 DEF T
<1> QED BY <1>5 DEF d

-----------------------------------------------------------------------------
(* The hash of producers: its tables.                                      *)

\* The operator of the instance.
LEMMA HashCardinality == \A S : Hash!Cardinality(S) = Cardinality(S)
  BY DEF Hash!Cardinality, Cardinality

HashEntry == [key : Threads \union {Null}, value : Nat \union {Null}]
HashTable == UNION {[0 .. c - 1 -> HashEntry] : c \in Nat \ {0, 1}}

\* The slots of a table.
LEMMA TableIs ==
    ASSUME NEW T \in HashTable
    PROVE  /\ Cardinality(DOMAIN T) \in Nat /\ Cardinality(DOMAIN T) >= 2
           /\ DOMAIN T = 0 .. Cardinality(DOMAIN T) - 1 /\ \A i \in DOMAIN T : T[i] \in HashEntry
<1>1. PICK c \in Nat \ {0, 1} : T \in [0 .. c - 1 -> HashEntry]
  BY DEF HashTable
<1>2. DOMAIN T = 0 .. c - 1
  BY <1>1
<1>3. Cardinality(0 .. c - 1) = c
  <2>1. 0 \in Int /\ c - 1 \in Int /\ ~(0 > c - 1) /\ (c - 1) - 0 + 1 = c
    OBVIOUS
  <2> QED BY <2>1, FS_Interval
<1> QED BY <1>1, <1>2, <1>3

\* A table that was just made is free.
LEMMA SlotsIs ==
    ASSUME NEW c \in Nat \ {0, 1}
    PROVE  /\ Hash!Slots(c) \in HashTable /\ Cardinality(DOMAIN Hash!Slots(c)) = c
           /\ \A i \in DOMAIN Hash!Slots(c) : Hash!Slots(c)[i].key = Null
<1>1. Hash!Slots(c) \in [0 .. c - 1 -> HashEntry] /\ DOMAIN Hash!Slots(c) = 0 .. c - 1
  BY DEF Hash!Slots, HashEntry
<1>2. Cardinality(0 .. c - 1) = c
  <2>1. 0 \in Int /\ c - 1 \in Int /\ ~(0 > c - 1) /\ (c - 1) - 0 + 1 = c
    OBVIOUS
  <2> QED BY <2>1, FS_Interval
<1> QED BY <1>1, <1>2 DEF HashTable, Hash!Slots

\* The constants.
LEMMA HashConstants ==
    /\ IsFiniteSet(Threads) /\ Null \notin Threads /\ Null \notin Nat
    /\ \A t \in Threads : HashOf[t] \in Nat
    /\ INITIAL_IMPLICIT_PRODUCER_HASH_SIZE \in Nat \ {0, 1}
<1>1. INITIAL_IMPLICIT_PRODUCER_HASH_SIZE \in {2 ^ i : i \in 1 .. 10}
  BY InstancesAssumption DEF Hash!HashAssumption
<1>2. \A n \in {2 ^ i : i \in 1 .. 10} : n \in Nat /\ n >= 2
  BY SMT
<1>3. INITIAL_IMPLICIT_PRODUCER_HASH_SIZE \in Nat /\ INITIAL_IMPLICIT_PRODUCER_HASH_SIZE >= 2
  BY <1>1, <1>2
<1>6. IsFiniteSet(Threads) /\ Null \notin Threads \union Nat /\ HashOf \in [Threads -> Nat]
  BY InstancesAssumption DEF Hash!HashAssumption, Hash!IsFiniteSet, IsFiniteSet
<1> QED BY <1>3, <1>6

HashLocal ==
    [mainHash : Nat, hash : Nat, index : Nat, newCount : Int,
     producer : Nat \union {Null}, prevTail : Nat \union {Null}]

Labels == {"idle", "find", "count", "resize", "grow", "clear", "failed", "fit", "create", "link", "insert"}

\* The thread resizes the table.
Resizing(t) == hash_pc[t] \in {"grow", "clear", "failed"}

\* What a thread knows where it is.
AtTable(t) ==
    LET l == hash_local[t]
    IN  /\ hash_pc[t] # "idle" => l.mainHash \in 1 .. Len(tables)
        /\ hash_pc[t] = "find" => l.hash \in 1 .. l.mainHash
        /\ hash_pc[t] = "grow" => l.mainHash = Len(tables)

\* No table is smaller than one it replaced.
Ascending == \A g, h \in 1 .. Len(tables) : g <= h => Hash!Capacity(g) <= Hash!Capacity(h)

HashShape ==
    /\ tables \in Seq(HashTable) /\ Len(tables) >= 1 /\ Ascending
    /\ implicitProducerHashCount \in Int
    /\ resizeInProgress \in BOOLEAN
    /\ producers \in Seq(Nat \union {Null})
    /\ producerListTail \in Nat \union {Null}
    /\ hash_pc \in [Threads -> Labels]
    /\ hash_local \in [Threads -> HashLocal]
    /\ returned \in [Threads -> SUBSET (Nat \union {Null})]

HashTypes ==
    /\ HashShape
    /\ \A t \in Threads : AtTable(t)
    /\ resizeInProgress <=> \E t \in Threads : Resizing(t)
    /\ \A t, u \in Threads : Resizing(t) /\ Resizing(u) => t = u

\* The slot that probe j comes to.
At(h, j) == tables[h][j % Hash!Capacity(h)]

\* The slots of the tables there are, and where a probe comes to.
LEMMA Tables ==
    ASSUME HashShape, NEW h \in 1 .. Len(tables)
    PROVE  /\ Hash!Capacity(h) \in Nat /\ Hash!Capacity(h) >= 2
           /\ DOMAIN tables[h] = 0 .. Hash!Capacity(h) - 1
           /\ \A i \in DOMAIN tables[h] : tables[h][i] \in HashEntry
           /\ \A j \in Nat : j % Hash!Capacity(h) \in DOMAIN tables[h] /\ At(h, j) \in HashEntry
<1>1. tables[h] \in HashTable
  BY DEF HashShape
<1>2. /\ Hash!Capacity(h) \in Nat /\ Hash!Capacity(h) >= 2
      /\ DOMAIN tables[h] = 0 .. Hash!Capacity(h) - 1
      /\ \A i \in DOMAIN tables[h] : tables[h][i] \in HashEntry
  BY <1>1, TableIs, HashCardinality DEF Hash!Capacity
<1>3. \A c \in Nat, j \in Nat : c >= 2 => j % c \in 0 .. c - 1
  OBVIOUS
<1> QED BY <1>2, <1>3 DEF At

\* How a step changes the tables: it fills a free slot of one, or adds one, or neither.
Filled(h, i, e) ==
    /\ Len(tables') = Len(tables)
    /\ \A g \in 1 .. Len(tables) : DOMAIN tables'[g] = DOMAIN tables[g]
    /\ \A g \in 1 .. Len(tables) : \A j \in DOMAIN tables[g] :
            tables'[g][j] = IF g = h /\ j = i THEN e ELSE tables[g][j]

\* Insert fills one slot.
LEMMA FilledIs ==
    ASSUME HashShape, NEW h \in 1 .. Len(tables), NEW i \in DOMAIN tables[h], NEW e \in HashEntry,
           tables' = [tables EXCEPT ![h][i] = e]
    PROVE  Filled(h, i, e) /\ tables' \in Seq(HashTable)
<1>1. tables' = [tables EXCEPT ![h] = [tables[h] EXCEPT ![i] = e]]
  OBVIOUS
<1>0. tables[h] \in HashTable /\ Len(tables) \in Nat /\ DOMAIN tables = 1 .. Len(tables)
  BY DEF HashShape
<1>2. PICK c \in Nat \ {0, 1} : tables[h] \in [0 .. c - 1 -> HashEntry]
  BY <1>0 DEF HashTable
<1>3. i \in 0 .. c - 1
  BY <1>2
<1>4. [tables[h] EXCEPT ![i] = e] \in [0 .. c - 1 -> HashEntry]
  BY <1>2, <1>3
<1>5. [tables[h] EXCEPT ![i] = e] \in HashTable
  BY <1>4 DEF HashTable
<1>6. tables' \in Seq(HashTable) /\ Len(tables') = Len(tables)
      /\ \A g \in 1 .. Len(tables) : tables'[g] = IF g = h THEN [tables[h] EXCEPT ![i] = e] ELSE tables[g]
  <2> DEFINE T == [tables[h] EXCEPT ![i] = e]
  <2>1. tables \in Seq(HashTable) /\ T \in HashTable /\ tables' = [tables EXCEPT ![h] = T]
    BY <1>1, <1>5 DEF HashShape
  <2> HIDE DEF T
  <2>2. tables' \in Seq(HashTable) /\ Len(tables') = Len(tables)
        /\ \A g \in 1 .. Len(tables) : tables'[g] = IF g = h THEN T ELSE tables[g]
    BY <2>1
  <2> QED BY <2>2 DEF T
<1>7. DOMAIN [tables[h] EXCEPT ![i] = e] = DOMAIN tables[h]
      /\ \A j \in DOMAIN tables[h] : [tables[h] EXCEPT ![i] = e][j] = IF j = i THEN e ELSE tables[h][j]
  OBVIOUS
<1> QED BY <1>6, <1>7 DEF Filled

Grown ==
    /\ Len(tables') = Len(tables) + 1
    /\ \A g \in 1 .. Len(tables) : tables'[g] = tables[g]
    /\ \A i \in DOMAIN tables'[Len(tables) + 1] : tables'[Len(tables) + 1][i].key = Null
    /\ \A h \in {Len(tables) + 1} : Hash!Capacity(h)' >= 2 * Hash!Capacity(Len(tables))

\* The capacity that a thread asks for is twice the old one or more, and is there.
LEMMA NewCapacityIs ==
    ASSUME HashShape, NEW t \in Threads, hash_local[t].mainHash = Len(tables),
           hash_local[t].newCount <= Cardinality(Threads)
    PROVE  Hash!NewCapacity(t) \in Nat /\ Hash!NewCapacity(t) >= 2 * Hash!Capacity(Len(tables))
<1> DEFINE c == Hash!Capacity(hash_local[t].mainHash)
           d == Hash!Doubled(c)
           m == hash_local[t].newCount
           enough == {x \in {d[i] : i \in 1 .. Cardinality(Threads) + 1} : m < x \div 2}
<1>1. c \in Nat \ {0, 1} /\ c = Hash!Capacity(Len(tables))
  <2>1. Len(tables) \in 1 .. Len(tables)
    BY DEF HashShape
  <2>2. Hash!Capacity(Len(tables)) \in Nat /\ Hash!Capacity(Len(tables)) >= 2
    BY <2>1, Tables
  <2> QED BY <2>2
<1>2. m \in Int /\ Cardinality(Threads) \in Nat /\ m <= Cardinality(Threads)
  BY HashConstants, FS_CardinalityType DEF HashShape, HashLocal
<1>3. \A i \in Nat \ {0} : d[i] \in Nat /\ d[i] >= 2 * c /\ d[i] >= 2 * i + 2
  BY <1>1, DoubledGrows
<1>4. Hash!NewCapacity(t) = CHOOSE x \in enough : \A y \in enough : x <= y
  BY HashCardinality DEF Hash!NewCapacity
<1> HIDE DEF c, d, m
<1>5. ASSUME NEW x \in enough PROVE x \in Nat /\ x >= 2 * c
  <2>1. PICK i \in 1 .. Cardinality(Threads) + 1 : x = d[i]
    OBVIOUS
  <2>2. i \in Nat \ {0}
    BY <1>2
  <2> QED BY <1>3, <2>1, <2>2
<1>6. d[Cardinality(Threads) + 1] \in enough
  <2> DEFINE n == Cardinality(Threads) + 1
  <2>1. n \in Nat \ {0} /\ m < n /\ n \in 1 .. n
    BY <1>2
  <2>2. d[n] \in Nat /\ d[n] >= 2 * n + 2
    BY <1>3, <2>1
  <2> HIDE DEF n
  <2>3. m < d[n] \div 2
    BY <1>2, <2>1, <2>2
  <2> QED BY <2>1, <2>3 DEF n
<1> HIDE DEF enough
<1>7. \E x \in enough : \A y \in enough : x <= y
  <2>1. enough \in SUBSET Nat /\ enough # {}
    BY <1>5, <1>6
  <2> QED BY <2>1, Smallest
<1>8. Hash!NewCapacity(t) \in enough
  BY <1>4, <1>7
<1> QED BY <1>1, <1>5, <1>8

\* Grow adds a free table, twice as large or more.
LEMMA GrownIs ==
    ASSUME HashTypes, NEW t \in Threads, hash_local[t].newCount <= Cardinality(Threads), Hash!Grow(t)
    PROVE  Grown /\ tables' \in Seq(HashTable)
<1> DEFINE c == Hash!NewCapacity(t)
<1>1. /\ hash_local[t].mainHash = Len(tables) /\ hash_local[t].newCount <= Cardinality(Threads)
      /\ tables' = Append(tables, Hash!Slots(c)) /\ HashShape
  BY DEF Hash!Grow, HashTypes, AtTable
<1>2. c \in Nat /\ c >= 2 * Hash!Capacity(Len(tables))
  BY <1>1, NewCapacityIs
<1>3. Hash!Capacity(Len(tables)) \in Nat /\ Hash!Capacity(Len(tables)) >= 2
  <2>1. Len(tables) \in 1 .. Len(tables)
    BY <1>1 DEF HashShape
  <2> QED BY <1>1, <2>1, Tables
<1>4. c \in Nat \ {0, 1}
  BY <1>2, <1>3
<1> HIDE DEF c
<1>5. /\ Hash!Slots(c) \in HashTable /\ Cardinality(DOMAIN Hash!Slots(c)) = c
      /\ \A i \in DOMAIN Hash!Slots(c) : Hash!Slots(c)[i].key = Null
  BY <1>4, SlotsIs
<1>6. /\ tables' \in Seq(HashTable) /\ Len(tables') = Len(tables) + 1
      /\ tables'[Len(tables) + 1] = Hash!Slots(c)
      /\ \A g \in 1 .. Len(tables) : tables'[g] = tables[g]
  BY <1>1, <1>5 DEF HashShape
<1>7. ASSUME NEW h \in {Len(tables) + 1} PROVE Hash!Capacity(h)' = c
  <2>1. tables'[h] = Hash!Slots(c)
    BY <1>6
  <2>2. Cardinality(DOMAIN tables'[h]) = c
    BY <1>5, <2>1
  <2> QED BY <2>2, HashCardinality DEF Hash!Capacity
<1> QED BY <1>2, <1>5, <1>6, <1>7 DEF Grown

\* One element of a sequence is replaced.
LEMMA ReplaceOne ==
    ASSUME NEW S, NEW s \in Seq(S), NEW i, NEW e \in S
    PROVE  [s EXCEPT ![i] = e] \in Seq(S) /\ Len([s EXCEPT ![i] = e]) = Len(s)
<1>1. Len(s) \in Nat /\ s \in [1 .. Len(s) -> S]
  OBVIOUS
<1>2. [s EXCEPT ![i] = e] \in [1 .. Len(s) -> S]
  BY <1>1
<1> QED BY <1>1, <1>2

\* What the steps change in the local variables.
LEMMA HashRecord ==
    ASSUME NEW l \in HashLocal, NEW n \in Nat, NEW m \in Nat, NEW c \in Int, NEW p \in Nat \union {Null},
           NEW q \in Nat \union {Null}
    PROVE  /\ [l EXCEPT !.mainHash = n] \in HashLocal
           /\ [l EXCEPT !.index = n] \in HashLocal
           /\ [l EXCEPT !.newCount = c] \in HashLocal
           /\ [l EXCEPT !.prevTail = p] \in HashLocal
           /\ [l EXCEPT !.producer = p, !.index = n] \in HashLocal
           /\ [l EXCEPT !.hash = n, !.index = m] \in HashLocal
           /\ [l EXCEPT !.producer = p, !.prevTail = q] \in HashLocal
           /\ [l EXCEPT !.mainHash = n, !.hash = n, !.index = m] \in HashLocal
  BY DEF HashLocal

LEMMA FreshIs == Hash!Fresh \in HashLocal
  BY DEF HashLocal, Hash!Fresh

\* What the step of a thread does to where it is; the others stay.
Moved(t, label, l) ==
    /\ hash_pc' = [hash_pc EXCEPT ![t] = label]
    /\ hash_local' = [hash_local EXCEPT ![t] = l]

\* Only the thread that resizes has the flag, and takes it from nobody.
FlagMoves(t) ==
    /\ resizeInProgress' \in BOOLEAN
    /\ Resizing(t)' => Resizing(t) \/ ~resizeInProgress
    /\ resizeInProgress' <=> Resizing(t)' \/ (resizeInProgress /\ ~Resizing(t))

\* A step of one thread keeps the types.
LEMMA TypesChange ==
    ASSUME HashTypes, NEW t \in Threads, NEW label \in Labels, NEW l \in HashLocal, Moved(t, label, l),
           tables' \in Seq(HashTable), Len(tables') >= Len(tables), Len(tables') # Len(tables) => Resizing(t),
           Ascending',
           implicitProducerHashCount' \in Int,
           producers' \in Seq(Nat \union {Null}), producerListTail' \in Nat \union {Null},
           returned' \in [Threads -> SUBSET (Nat \union {Null})],
           FlagMoves(t),
           label # "idle" => l.mainHash \in 1 .. Len(tables'),
           label = "find" => l.hash \in 1 .. l.mainHash,
           label = "grow" => l.mainHash = Len(tables')
    PROVE  HashTypes'
<1>1. /\ hash_pc' \in [Threads -> Labels] /\ hash_local' \in [Threads -> HashLocal]
      /\ hash_pc'[t] = label /\ hash_local'[t] = l
      /\ \A u \in Threads : u # t => hash_pc'[u] = hash_pc[u] /\ hash_local'[u] = hash_local[u]
  BY DEF HashTypes, HashShape, Moved
<1>2. HashShape'
  BY <1>1 DEF HashTypes, HashShape, FlagMoves
<1>3. /\ \A u \in Threads : u # t => (Resizing(u)' <=> Resizing(u))
      /\ resizeInProgress \in BOOLEAN /\ Len(tables) \in Nat /\ Len(tables') \in Nat
      /\ resizeInProgress <=> \E u \in Threads : Resizing(u)
      /\ \A u, v \in Threads : Resizing(u) /\ Resizing(v) => u = v
  BY <1>1 DEF HashTypes, HashShape, Resizing
<1>5. /\ resizeInProgress' <=> \E u \in Threads : Resizing(u)'
      /\ \A u, v \in Threads : Resizing(u)' /\ Resizing(v)' => u = v
  BY <1>3 DEF FlagMoves
<1>4. ASSUME NEW u \in Threads PROVE AtTable(u)'
  <2>1. AtTable(u)
    BY DEF HashTypes
  <2>2. CASE u = t
    BY <1>1, <2>2 DEF AtTable
  <2>3. CASE u # t
    <3>1. hash_pc[u] = "grow" => Len(tables') = Len(tables)
      BY <1>3, <2>3 DEF Resizing
    <3>2. 1 .. Len(tables) \subseteq 1 .. Len(tables')
      BY <1>3
    <3> QED BY <1>1, <2>1, <2>3, <3>1, <3>2 DEF AtTable
  <2> QED BY <2>2, <2>3
<1> QED BY <1>2, <1>4, <1>5 DEF HashTypes

\* Steps that leave the tables and the flag.
LEMMA TypesMove ==
    ASSUME HashTypes, NEW t \in Threads, NEW label \in Labels, NEW l \in HashLocal, Moved(t, label, l),
           UNCHANGED <<tables, resizeInProgress>>, implicitProducerHashCount' \in Int,
           producers' \in Seq(Nat \union {Null}), producerListTail' \in Nat \union {Null},
           returned' \in [Threads -> SUBSET (Nat \union {Null})],
           Resizing(t) <=> label \in {"clear", "failed"}, label # "grow",
           label # "idle" => l.mainHash \in 1 .. Len(tables),
           label = "find" => l.hash \in 1 .. l.mainHash
    PROVE  HashTypes'
<1>1. /\ tables' \in Seq(HashTable) /\ Len(tables') = Len(tables) /\ Len(tables) \in Nat
      /\ Ascending' /\ resizeInProgress' \in BOOLEAN
  BY DEF HashTypes, HashShape, Ascending, Hash!Capacity
<1>2. Resizing(t)' <=> Resizing(t)
  BY DEF Resizing, Moved, HashTypes, HashShape
<1>3. resizeInProgress' <=> Resizing(t)' \/ (resizeInProgress /\ ~Resizing(t))
  BY <1>1, <1>2 DEF HashTypes
<1>4. FlagMoves(t)
  BY <1>1, <1>2, <1>3 DEF FlagMoves
<1>5. Len(tables') >= Len(tables) /\ ~(Len(tables') # Len(tables))
  BY <1>1
<1> QED BY <1>1, <1>4, <1>5, TypesChange

LEMMA HashTypesInit == Hash!Init => HashTypes
<1> SUFFICES ASSUME Hash!Init PROVE HashTypes
  OBVIOUS
<1>1. tables = <<Hash!Slots(INITIAL_IMPLICIT_PRODUCER_HASH_SIZE)>>
  BY DEF Hash!Init
<1>2. Hash!Slots(INITIAL_IMPLICIT_PRODUCER_HASH_SIZE) \in HashTable
  BY HashConstants, SlotsIs
<1>3. tables \in Seq(HashTable) /\ Len(tables) = 1
  BY <1>1, <1>2
<1>4. Hash!Capacity(1) \in Nat
  <2>1. tables[1] \in HashTable
    BY <1>1, <1>2
  <2> QED BY <2>1, TableIs, HashCardinality DEF Hash!Capacity
<1>5. Ascending
  <2> SUFFICES ASSUME NEW g \in 1 .. Len(tables), NEW h \in 1 .. Len(tables)
               PROVE  Hash!Capacity(g) <= Hash!Capacity(h)
    BY DEF Ascending
  <2>1. g = 1 /\ h = 1
    BY <1>3
  <2> QED BY <1>4, <2>1
<1>6. HashShape
  <2>1. hash_local \in [Threads -> HashLocal]
    BY FreshIs DEF Hash!Init
  <2>2. hash_pc \in [Threads -> Labels] /\ returned \in [Threads -> SUBSET (Nat \union {Null})]
    BY DEF Hash!Init, Labels
  <2>3. producers \in Seq(Nat \union {Null}) /\ producerListTail \in Nat \union {Null}
    BY DEF Hash!Init
  <2>4. implicitProducerHashCount \in Int
    BY DEF Hash!Init
  <2>5. resizeInProgress \in BOOLEAN
    BY DEF Hash!Init
  <2>6. tables \in Seq(HashTable) /\ Len(tables) >= 1
    BY <1>3
  <2> QED BY <1>5, <2>1, <2>2, <2>3, <2>4, <2>5, <2>6, Zenon DEF HashShape
<1>7. resizeInProgress = FALSE /\ \A t \in Threads : hash_pc[t] = "idle"
  BY DEF Hash!Init
<1>8. \A t \in Threads : hash_local[t] = Hash!Fresh
  BY DEF Hash!Init
<1> QED BY <1>6, <1>7 DEF HashTypes, AtTable, Resizing

\* The five outcomes of a probe.
FindMoved(t) ==
    LET l == hash_local[t]
        entry == At(l.hash, l.index)
    IN  \/ /\ entry.key = t /\ l.hash = l.mainHash /\ Moved(t, "idle", Hash!Fresh)
           /\ returned' = [returned EXCEPT ![t] = @ \union {entry.value}]
        \/ /\ entry.key = t /\ l.hash # l.mainHash /\ UNCHANGED returned
           /\ Moved(t, "insert", [l EXCEPT !.producer = entry.value, !.index = HashOf[t]])
        \/ /\ entry.key = Null /\ l.hash > 1 /\ UNCHANGED returned
           /\ Moved(t, "find", [l EXCEPT !.hash = @ - 1, !.index = HashOf[t]])
        \/ entry.key = Null /\ l.hash = 1 /\ UNCHANGED returned /\ Moved(t, "count", l)
        \/ /\ entry.key \notin {t, Null} /\ UNCHANGED returned
           /\ Moved(t, "find", [l EXCEPT !.index = @ + 1])

\* Find has these outcomes.
LEMMA FindMoves ==
    ASSUME HashTypes, NEW t \in Threads, Hash!Find(t)
    PROVE  FindMoved(t)
<1> DEFINE l == hash_local[t]
           entry == At(l.hash, l.index)
<1>1. /\ hash_pc[t] = "find" /\ l.hash \in Nat /\ l.hash >= 1
      /\ hash_local = [hash_local EXCEPT ![t] = l] /\ hash_pc = [hash_pc EXCEPT ![t] = "find"]
  <2>1. /\ AtTable(t) /\ hash_pc[t] = "find" /\ l \in HashLocal
        /\ hash_local = [hash_local EXCEPT ![t] = l] /\ hash_pc = [hash_pc EXCEPT ![t] = "find"]
    BY DEF HashTypes, HashShape, Hash!Find
  <2> QED BY <2>1 DEF AtTable, HashLocal
<1>2. entry = tables[l.hash][Hash!Slot(t, l.hash)]
  BY DEF At, Hash!Slot
<1> USE DEF Hash!Find, Hash!Goto, Hash!Set, Hash!Return, Hash!shared, Moved, FindMoved
<1> HIDE DEF entry
<1>3. CASE entry.key = t
  <2>1. CASE l.hash = l.mainHash
    BY <1>2, <1>3, <2>1, HashConstants DEF entry
  <2>2. CASE l.hash # l.mainHash
    BY <1>2, <1>3, <2>2, HashConstants DEF entry
  <2> QED BY <2>1, <2>2
<1>4. CASE entry.key = Null /\ l.hash > 1
  <2>1. /\ ~(entry.key = t /\ l.hash = l.mainHash) /\ ~(entry.key = t /\ l.hash # l.mainHash)
        /\ entry.key = Null /\ l.hash > 1
    BY <1>4, HashConstants
  <2>2. Moved(t, "find", [l EXCEPT !.hash = @ - 1, !.index = HashOf[t]]) /\ UNCHANGED returned
    <3> HIDE DEF FindMoved
    <3> QED BY <1>1, <1>2, <2>1
  <2> QED BY <1>4, <2>2 DEF entry
<1>5. CASE entry.key = Null /\ l.hash = 1
  BY <1>1, <1>2, <1>5, HashConstants DEF entry
<1>6. CASE entry.key \notin {t, Null}
  <2>1. entry.key # t /\ entry.key # Null
    BY <1>6
  <2>2. /\ ~(entry.key = t /\ l.hash = l.mainHash) /\ ~(entry.key = t /\ l.hash # l.mainHash)
        /\ ~(entry.key = Null /\ l.hash > 1) /\ ~(entry.key = Null /\ l.hash = 1)
    BY <2>1
  <2>3. Moved(t, "find", [l EXCEPT !.index = @ + 1]) /\ UNCHANGED returned
    <3> HIDE DEF FindMoved
    <3> QED BY <1>1, <1>2, <2>2
  <2> QED BY <1>6, <2>3 DEF entry
<1> QED BY <1>1, <1>3, <1>4, <1>5, <1>6

LEMMA HashTypesStep ==
    ASSUME HashTypes, NEW t \in Threads, hash_local[t].newCount <= Cardinality(Threads),
           Hash!Begin(t) \/ Hash!Go(t)
    PROVE  HashTypes'
<1> DEFINE l == hash_local[t]
<1>0. /\ HashShape /\ AtTable(t) /\ l \in HashLocal /\ Len(tables) \in Nat \ {0}
      /\ l.mainHash \in Nat /\ l.hash \in Nat /\ l.index \in Nat /\ HashOf[t] \in Nat
      /\ l.producer \in Nat \union {Null} /\ l.prevTail \in Nat \union {Null} /\ l.newCount \in Int
      /\ hash_pc[t] \in Labels
  BY HashConstants DEF HashTypes, HashShape, HashLocal
<1> USE DEF Hash!Goto, Hash!Set, Hash!shared, Moved
<1>1. CASE Hash!Begin(t)
  <2>1. Moved(t, "find", [Hash!Fresh EXCEPT !.mainHash = Len(tables), !.hash = Len(tables), !.index = HashOf[t]])
    BY <1>1 DEF Hash!Begin, Hash!implicitProducerHash
  <2>2. [Hash!Fresh EXCEPT !.mainHash = Len(tables), !.hash = Len(tables), !.index = HashOf[t]] \in HashLocal
    BY <1>0, FreshIs, HashRecord
  <2>3. /\ [Hash!Fresh EXCEPT !.mainHash = Len(tables), !.hash = Len(tables), !.index = HashOf[t]].mainHash
                \in 1 .. Len(tables)
        /\ [Hash!Fresh EXCEPT !.mainHash = Len(tables), !.hash = Len(tables), !.index = HashOf[t]].hash
                \in 1 .. [Hash!Fresh EXCEPT !.mainHash = Len(tables), !.hash = Len(tables), !.index = HashOf[t]].mainHash
    BY <1>0 DEF Hash!Fresh
  <2>4. ~Resizing(t) /\ "find" \in Labels
    BY <1>1 DEF Hash!Begin, Resizing, Labels
  <2>5. UNCHANGED <<tables, resizeInProgress, implicitProducerHashCount, producers, producerListTail, returned>>
    BY <1>1 DEF Hash!Begin
  <2> HIDE DEF Moved
  <2> QED BY <1>0, <2>1, <2>2, <2>3, <2>4, <2>5, TypesMove DEF HashShape
<1>2. CASE Hash!Find(t)
  <2>1. /\ hash_pc[t] = "find" /\ l.hash \in 1 .. l.mainHash /\ l.mainHash \in 1 .. Len(tables)
        /\ UNCHANGED <<tables, resizeInProgress, implicitProducerHashCount, producers, producerListTail>>
    BY <1>0, <1>2 DEF Hash!Find, AtTable
  <2> DEFINE entry == At(l.hash, l.index)
  <2>2. entry \in HashEntry /\ entry.value \in Nat \union {Null}
    <3>1. l.hash \in 1 .. Len(tables)
      BY <1>0, <2>1
    <3> QED BY <1>0, <3>1, Tables DEF HashEntry
  <2>3. \/ /\ Moved(t, "idle", Hash!Fresh)
           /\ returned' = [returned EXCEPT ![t] = @ \union {entry.value}]
        \/ Moved(t, "insert", [l EXCEPT !.producer = entry.value, !.index = HashOf[t]]) /\ UNCHANGED returned
        \/ l.hash > 1 /\ Moved(t, "find", [l EXCEPT !.hash = @ - 1, !.index = HashOf[t]]) /\ UNCHANGED returned
        \/ Moved(t, "count", l) /\ UNCHANGED returned
        \/ Moved(t, "find", [l EXCEPT !.index = @ + 1]) /\ UNCHANGED returned
    <3> HIDE DEF Moved
    <3> QED BY <1>2, FindMoves DEF FindMoved
  <2>4. ~Resizing(t) /\ {"idle", "insert", "find", "count"} \subseteq Labels
    BY <2>1 DEF Resizing, Labels
  <2>5. /\ [l EXCEPT !.producer = entry.value, !.index = HashOf[t]] \in HashLocal
        /\ l.hash > 1 => [l EXCEPT !.hash = @ - 1, !.index = HashOf[t]] \in HashLocal
        /\ [l EXCEPT !.index = @ + 1] \in HashLocal
    <3>1. l.hash > 1 => l.hash - 1 \in Nat
      BY <1>0
    <3>2. l.index + 1 \in Nat
      BY <1>0
    <3> HIDE DEF l, entry
    <3> QED BY <1>0, <2>2, <3>1, <3>2, HashRecord
  <2>6. /\ [l EXCEPT !.producer = entry.value, !.index = HashOf[t]].mainHash = l.mainHash
        /\ [l EXCEPT !.hash = @ - 1, !.index = HashOf[t]].mainHash = l.mainHash
        /\ [l EXCEPT !.hash = @ - 1, !.index = HashOf[t]].hash = l.hash - 1
        /\ [l EXCEPT !.index = @ + 1].mainHash = l.mainHash
        /\ [l EXCEPT !.index = @ + 1].hash = l.hash
    BY <1>0 DEF HashLocal
  <2>7. l.hash > 1 => l.hash - 1 \in 1 .. l.mainHash
    BY <1>0, <2>1
  <2>8. returned' \in [Threads -> SUBSET (Nat \union {Null})]
    BY <1>0, <2>2, <2>3 DEF HashShape
  <2> HIDE DEF Moved, entry, l
  <2>9. CASE Moved(t, "idle", Hash!Fresh)
    BY <1>0, <2>1, <2>4, <2>8, <2>9, FreshIs, TypesMove DEF HashShape
  <2>10. CASE Moved(t, "insert", [l EXCEPT !.producer = entry.value, !.index = HashOf[t]])
    BY <1>0, <2>1, <2>4, <2>5, <2>6, <2>8, <2>10, TypesMove DEF HashShape
  <2>11. CASE l.hash > 1 /\ Moved(t, "find", [l EXCEPT !.hash = @ - 1, !.index = HashOf[t]])
    BY <1>0, <2>1, <2>4, <2>5, <2>6, <2>7, <2>8, <2>11, TypesMove DEF HashShape
  <2>12. CASE Moved(t, "count", l)
    BY <1>0, <2>1, <2>4, <2>8, <2>12, TypesMove DEF HashShape
  <2>13. CASE Moved(t, "find", [l EXCEPT !.index = @ + 1])
    BY <1>0, <2>1, <2>4, <2>5, <2>6, <2>8, <2>13, TypesMove DEF HashShape
  <2> QED BY <2>3, <2>9, <2>10, <2>11, <2>12, <2>13
<1>3. CASE Hash!Count(t)
  <2>1. /\ Moved(t, "resize", [l EXCEPT !.newCount = implicitProducerHashCount + 1]) /\ hash_pc[t] = "count"
        /\ implicitProducerHashCount' = implicitProducerHashCount + 1
        /\ UNCHANGED <<tables, resizeInProgress, producers, producerListTail, returned>>
    BY <1>3 DEF Hash!Count
  <2>2. /\ l.mainHash \in 1 .. Len(tables) /\ ~Resizing(t) /\ "resize" \in Labels
        /\ implicitProducerHashCount + 1 \in Int
    BY <1>0, <2>1 DEF AtTable, Resizing, Labels, HashShape
  <2>3. [l EXCEPT !.newCount = implicitProducerHashCount + 1] \in HashLocal
    BY <1>0, <2>2, HashRecord
  <2>4. [l EXCEPT !.newCount = implicitProducerHashCount + 1].mainHash = l.mainHash
    BY <1>0 DEF HashLocal
  <2> HIDE DEF Moved, l
  <2> QED BY <1>0, <2>1, <2>2, <2>3, <2>4, TypesMove DEF HashShape
<1>4. CASE Hash!Resize(t)
  <2>1. hash_pc[t] = "resize" /\ l.mainHash \in 1 .. Len(tables) /\ ~Resizing(t)
        /\ UNCHANGED <<tables, implicitProducerHashCount, producers, producerListTail, returned>>
    BY <1>0, <1>4 DEF Hash!Resize, AtTable, Resizing
  <2>2. [l EXCEPT !.mainHash = Len(tables)] \in HashLocal /\ [l EXCEPT !.mainHash = Len(tables)].mainHash = Len(tables)
    <3>1. [l EXCEPT !.mainHash = Len(tables)].mainHash = Len(tables)
      BY <1>0 DEF HashLocal
    <3> HIDE DEF l
    <3> QED BY <1>0, <3>1, HashRecord
  <2>3. \/ ~resizeInProgress /\ resizeInProgress' = TRUE
           /\ \E label \in {"grow", "clear"} : Moved(t, label, [l EXCEPT !.mainHash = Len(tables)])
        \/ UNCHANGED resizeInProgress /\ Moved(t, "fit", l)
    BY <1>0, <1>4 DEF Hash!Resize, Hash!implicitProducerHash, HashShape
  <2>4. {"grow", "clear", "fit"} \subseteq Labels
    BY DEF Labels
  <2>5. \A label \in Labels : \A x : Moved(t, label, x) => hash_pc'[t] = label
    BY <1>0 DEF HashShape
  <2>6. /\ tables' \in Seq(HashTable) /\ Len(tables') = Len(tables)
        /\ Ascending'
    BY <1>0, <2>1 DEF HashShape, Ascending, Hash!Capacity
  <2> HIDE DEF Moved, l
  <2>7. ASSUME NEW label \in {"grow", "clear"}, Moved(t, label, [l EXCEPT !.mainHash = Len(tables)]),
               ~resizeInProgress, resizeInProgress' = TRUE
        PROVE  HashTypes'
    <3>1. Resizing(t)' /\ label \in Labels /\ label # "find"
      BY <2>4, <2>5, <2>7 DEF Resizing
    <3>2. FlagMoves(t)
      BY <2>7, <3>1 DEF FlagMoves
    <3>3. Len(tables) \in 1 .. Len(tables') /\ Len(tables') >= Len(tables)
      BY <1>0, <2>6
    <3> QED BY <1>0, <2>1, <2>2, <2>6, <2>7, <3>1, <3>2, <3>3, TypesChange DEF HashShape
  <2>8. CASE UNCHANGED resizeInProgress /\ Moved(t, "fit", l)
    BY <1>0, <2>1, <2>4, <2>8, TypesMove DEF HashShape
  <2> QED BY <2>3, <2>7, <2>8
<1>5. CASE Hash!Grow(t)
  <2>1. hash_pc[t] = "grow" /\ Moved(t, "clear", [l EXCEPT !.mainHash = Len(tables) + 1]) /\ Resizing(t)
        /\ UNCHANGED <<implicitProducerHashCount, resizeInProgress, producers, producerListTail, returned>>
    BY <1>0, <1>5 DEF Hash!Grow, Resizing
  <2>2. Grown /\ tables' \in Seq(HashTable)
    BY <1>5, GrownIs
  <2>3. ASSUME NEW g \in 1 .. Len(tables)
        PROVE  /\ Hash!Capacity(g)' = Hash!Capacity(g) /\ Hash!Capacity(g) \in Nat
               /\ Hash!Capacity(g) <= Hash!Capacity(Len(tables))
    <3>1. Hash!Capacity(g)' = Hash!Capacity(g)
      BY <2>2 DEF Grown, Hash!Capacity
    <3>2. Hash!Capacity(g) \in Nat
      BY <1>0, Tables
    <3>3. Len(tables) \in 1 .. Len(tables) /\ g <= Len(tables)
      BY <1>0
    <3> QED BY <1>0, <3>1, <3>2, <3>3 DEF HashShape, Ascending
  <2>4. /\ Len(tables') = Len(tables) + 1
        /\ Hash!Capacity(Len(tables)) \in Nat
        /\ \A h \in {Len(tables) + 1} : Hash!Capacity(h)' >= 2 * Hash!Capacity(Len(tables)) /\ Hash!Capacity(h)' \in Nat
    <3>1. Len(tables) \in 1 .. Len(tables)
      BY <1>0
    <3>2. ASSUME NEW h \in {Len(tables) + 1} PROVE Hash!Capacity(h)' \in Nat
      <4>1. tables'[h] \in HashTable
        BY <1>0, <2>2 DEF Grown
      <4> QED BY <4>1, TableIs, HashCardinality DEF Hash!Capacity
    <3> QED BY <2>2, <2>3, <3>1, <3>2 DEF Grown
  <2>5. ASSUME NEW g \in 1 .. Len(tables'), NEW h \in 1 .. Len(tables'), g <= h
        PROVE  Hash!Capacity(g)' <= Hash!Capacity(h)'
    <3>1. CASE h = Len(tables) + 1
      <4>1. CASE g = Len(tables) + 1
        BY <2>4, <3>1, <4>1
      <4>2. CASE g # Len(tables) + 1
        <5>1. g \in 1 .. Len(tables)
          BY <1>0, <2>4, <4>2
        <5> QED BY <2>3, <2>4, <3>1, <5>1
      <4> QED BY <4>1, <4>2
    <3>2. CASE h # Len(tables) + 1
      <4>1. g \in 1 .. Len(tables) /\ h \in 1 .. Len(tables)
        BY <1>0, <2>4, <2>5, <3>2
      <4> QED BY <1>0, <2>3, <2>5, <4>1 DEF HashShape, Ascending
    <3> QED BY <3>1, <3>2
  <2>9. Ascending'
    BY <2>5 DEF Ascending
  <2>6. [l EXCEPT !.mainHash = Len(tables) + 1] \in HashLocal
        /\ [l EXCEPT !.mainHash = Len(tables) + 1].mainHash = Len(tables) + 1
    <3>1. [l EXCEPT !.mainHash = Len(tables) + 1].mainHash = Len(tables) + 1 /\ Len(tables) + 1 \in Nat
      BY <1>0 DEF HashLocal
    <3> HIDE DEF l
    <3> QED BY <1>0, <3>1, HashRecord
  <2>7. "clear" \in Labels /\ Len(tables) + 1 \in 1 .. Len(tables')
    BY <1>0, <2>4 DEF Labels
  <2>8. FlagMoves(t)
    <3>1. resizeInProgress \in BOOLEAN /\ resizeInProgress
      BY <2>1 DEF HashTypes, HashShape
    <3>2. Resizing(t)' /\ resizeInProgress' = resizeInProgress
      BY <1>0, <2>1 DEF HashShape, Resizing
    <3> QED BY <2>1, <3>1, <3>2 DEF FlagMoves
  <2>10. Len(tables') >= Len(tables)
    BY <1>0, <2>4
  <2> HIDE DEF Moved, l
  <2> QED BY <1>0, <2>1, <2>2, <2>4, <2>6, <2>7, <2>8, <2>9, <2>10, TypesChange DEF HashShape
<1>6. CASE Hash!GrowFails(t)
  <2>1. /\ Moved(t, "failed", l) /\ hash_pc[t] = "grow" /\ implicitProducerHashCount' = implicitProducerHashCount - 1
        /\ UNCHANGED <<tables, resizeInProgress, producers, producerListTail, returned>>
    BY <1>0, <1>6 DEF Hash!GrowFails, HashShape
  <2>2. /\ l.mainHash \in 1 .. Len(tables) /\ Resizing(t) /\ "failed" \in Labels
        /\ implicitProducerHashCount - 1 \in Int
    BY <1>0, <2>1 DEF AtTable, Resizing, Labels, HashShape
  <2> HIDE DEF Moved, l
  <2> QED BY <1>0, <2>1, <2>2, TypesMove DEF HashShape
<1>7. CASE Hash!Clear(t)
  <2>1. /\ Resizing(t) /\ resizeInProgress' = FALSE /\ l.mainHash \in 1 .. Len(tables)
        /\ UNCHANGED <<tables, implicitProducerHashCount, producers, producerListTail, returned>>
        /\ \/ Moved(t, "fit", l)
           \/ Moved(t, "idle", Hash!Fresh)
    BY <1>0, <1>7 DEF Hash!Clear, Hash!ReturnNull, AtTable, Resizing, HashShape
  <2>2. /\ tables' \in Seq(HashTable) /\ Len(tables') = Len(tables)
        /\ Ascending'
    BY <1>0, <2>1 DEF HashShape, Ascending, Hash!Capacity
  <2>3. ASSUME NEW label \in {"fit", "idle"}, NEW x, Moved(t, label, x) PROVE FlagMoves(t)
    <3>1. ~Resizing(t)'
      BY <1>0, <2>3 DEF HashShape, Resizing
    <3> QED BY <2>1, <3>1 DEF FlagMoves
  <2>7. Len(tables') >= Len(tables)
    BY <1>0, <2>2
  <2>4. {"fit", "idle"} \subseteq Labels
    BY DEF Labels
  <2> HIDE DEF Moved, l
  <2>5. CASE Moved(t, "fit", l)
    <3>1. FlagMoves(t)
      BY <2>3, <2>5
    <3> QED BY <1>0, <2>1, <2>2, <2>4, <2>5, <2>7, <3>1, TypesChange DEF HashShape
  <2>6. CASE Moved(t, "idle", Hash!Fresh)
    <3>1. FlagMoves(t)
      BY <2>3, <2>6
    <3> QED BY <1>0, <2>1, <2>2, <2>4, <2>6, <2>7, <3>1, FreshIs, TypesChange DEF HashShape
  <2> QED BY <2>1, <2>5, <2>6
<1>8. CASE Hash!Fit(t)
  <2>1. /\ hash_pc[t] = "fit" /\ l.mainHash \in 1 .. Len(tables) /\ ~Resizing(t)
        /\ UNCHANGED <<tables, resizeInProgress, implicitProducerHashCount, producers, producerListTail, returned>>
        /\ \/ Moved(t, "create", l)
           \/ Moved(t, "resize", [l EXCEPT !.mainHash = Len(tables)])
    BY <1>0, <1>8 DEF Hash!Fit, Hash!implicitProducerHash, AtTable, Resizing, HashShape
  <2>2. [l EXCEPT !.mainHash = Len(tables)] \in HashLocal
        /\ [l EXCEPT !.mainHash = Len(tables)].mainHash \in 1 .. Len(tables)
    <3>1. [l EXCEPT !.mainHash = Len(tables)].mainHash \in 1 .. Len(tables)
      BY <1>0 DEF HashLocal
    <3> HIDE DEF l
    <3> QED BY <1>0, <3>1, HashRecord
  <2>3. {"create", "resize"} \subseteq Labels
    BY DEF Labels
  <2> HIDE DEF Moved, l
  <2> QED BY <1>0, <2>1, <2>2, <2>3, TypesMove DEF HashShape
<1>9. CASE Hash!Create(t)
  <2>1. /\ hash_pc[t] = "create" /\ l.mainHash \in 1 .. Len(tables) /\ ~Resizing(t)
        /\ UNCHANGED <<tables, resizeInProgress, implicitProducerHashCount, producerListTail, returned>>
        /\ producers' = Append(producers, Null)
        /\ Moved(t, "link", [l EXCEPT !.producer = Len(producers) + 1, !.prevTail = producerListTail])
    BY <1>0, <1>9 DEF Hash!Create, AtTable, Resizing
  <2>2. Len(producers) + 1 \in Nat /\ producers' \in Seq(Nat \union {Null})
        /\ producerListTail \in Nat \union {Null}
    BY <1>0, <2>1 DEF HashShape
  <2>3. [l EXCEPT !.producer = Len(producers) + 1, !.prevTail = producerListTail] \in HashLocal
    <3> HIDE DEF l
    <3>1. \A p, q \in Nat \union {Null} : [l EXCEPT !.producer = p, !.prevTail = q] \in HashLocal
      BY <1>0 DEF HashLocal
    <3> QED BY <2>2, <3>1
  <2>4. [l EXCEPT !.producer = Len(producers) + 1, !.prevTail = producerListTail].mainHash = l.mainHash
    BY <1>0 DEF HashLocal
  <2>5. "link" \in Labels
    BY DEF Labels
  <2> HIDE DEF Moved, l
  <2> QED BY <1>0, <2>1, <2>2, <2>3, <2>4, <2>5, TypesMove DEF HashShape
<1>10. CASE Hash!CreateFails(t)
  <2>1. /\ Moved(t, "idle", Hash!Fresh) /\ ~Resizing(t)
        /\ implicitProducerHashCount' = implicitProducerHashCount - 1
        /\ UNCHANGED <<tables, resizeInProgress, producers, producerListTail, returned>>
    BY <1>10 DEF Hash!CreateFails, Hash!ReturnNull, Resizing
  <2>2. implicitProducerHashCount - 1 \in Int /\ "idle" \in Labels
    BY <1>0 DEF HashShape, Labels
  <2> HIDE DEF Moved, l
  <2> QED BY <1>0, <2>1, <2>2, FreshIs, TypesMove DEF HashShape
<1>11. CASE Hash!Link(t)
  <2>1. /\ hash_pc[t] = "link" /\ l.mainHash \in 1 .. Len(tables) /\ ~Resizing(t)
        /\ UNCHANGED <<tables, resizeInProgress, implicitProducerHashCount, returned>>
        /\ producers' = [producers EXCEPT ![l.producer] = l.prevTail]
        /\ \/ producerListTail' = l.producer /\ Moved(t, "insert", [l EXCEPT !.index = HashOf[t]])
           \/ UNCHANGED producerListTail /\ Moved(t, "link", [l EXCEPT !.prevTail = producerListTail])
    BY <1>0, <1>11 DEF Hash!Link, AtTable, Resizing, HashShape
  <2>2. producers' \in Seq(Nat \union {Null}) /\ producerListTail \in Nat \union {Null}
    <3>1. producers \in Seq(Nat \union {Null}) /\ producerListTail \in Nat \union {Null}
      BY <1>0 DEF HashShape
    <3> HIDE DEF l
    <3> QED BY <1>0, <2>1, <3>1, ReplaceOne
  <2>3. [l EXCEPT !.index = HashOf[t]] \in HashLocal /\ [l EXCEPT !.prevTail = producerListTail] \in HashLocal
    BY <1>0, <2>2, HashRecord
  <2>4. [l EXCEPT !.index = HashOf[t]].mainHash = l.mainHash
        /\ [l EXCEPT !.prevTail = producerListTail].mainHash = l.mainHash
    BY <1>0 DEF HashLocal
  <2>5. {"link", "insert"} \subseteq Labels
    BY DEF Labels
  <2> HIDE DEF Moved, l
  <2> QED BY <1>0, <2>1, <2>2, <2>3, <2>4, <2>5, TypesMove DEF HashShape
<1>12. CASE Hash!Insert(t)
  <2>1. /\ hash_pc[t] = "insert" /\ l.mainHash \in 1 .. Len(tables) /\ ~Resizing(t)
        /\ UNCHANGED <<resizeInProgress, implicitProducerHashCount, producers, producerListTail>>
    BY <1>0, <1>12 DEF Hash!Insert, AtTable, Resizing
  <2> DEFINE i == l.index % Hash!Capacity(l.mainHash)
             e == [key |-> t, value |-> l.producer]
  <2>2. \/ /\ tables' = [tables EXCEPT ![l.mainHash][i] = e]
           /\ Moved(t, "idle", Hash!Fresh)
           /\ returned' = [returned EXCEPT ![t] = @ \union {l.producer}]
        \/ UNCHANGED <<tables, returned>> /\ Moved(t, "insert", [l EXCEPT !.index = @ + 1])
    BY <1>0, <1>12 DEF Hash!Insert, Hash!Return, Hash!Slot, HashShape
  <2>3. i \in DOMAIN tables[l.mainHash] /\ e \in HashEntry
    BY <1>0, <2>1, Tables DEF HashEntry
  <2>4. {"idle", "insert"} \subseteq Labels
    BY DEF Labels
  <2>5. [l EXCEPT !.index = @ + 1] \in HashLocal /\ [l EXCEPT !.index = @ + 1].mainHash = l.mainHash
    <3>1. l.index + 1 \in Nat /\ [l EXCEPT !.index = @ + 1].mainHash = l.mainHash
      BY <1>0 DEF HashLocal
    <3> HIDE DEF l
    <3> QED BY <1>0, <3>1, HashRecord
  <2>6. returned' \in [Threads -> SUBSET (Nat \union {Null})]
    BY <1>0, <2>2 DEF HashShape
  <2>7. \A x : Moved(t, "idle", x) => ~Resizing(t)'
    BY <1>0 DEF HashShape, Resizing
  <2> HIDE DEF Moved, l, i, e
  <2>8. CASE tables' = [tables EXCEPT ![l.mainHash][i] = e] /\ Moved(t, "idle", Hash!Fresh)
    <3>1. Filled(l.mainHash, i, e) /\ tables' \in Seq(HashTable)
      BY <1>0, <2>1, <2>3, <2>8, FilledIs
    <3>2. Len(tables') = Len(tables) /\ \A g \in 1 .. Len(tables) : Hash!Capacity(g)' = Hash!Capacity(g)
      BY <3>1 DEF Filled, Hash!Capacity
    <3>3. Ascending'
      BY <1>0, <3>2 DEF HashShape, Ascending
    <3>4. FlagMoves(t)
      <4>1. ~Resizing(t)' /\ resizeInProgress \in BOOLEAN
        BY <1>0, <2>7, <2>8 DEF HashShape
      <4> QED BY <2>1, <4>1 DEF FlagMoves
    <3>5. Len(tables') >= Len(tables)
      BY <1>0, <3>2
    <3> QED BY <1>0, <2>1, <2>4, <2>6, <2>8, <3>1, <3>2, <3>3, <3>4, <3>5, FreshIs, TypesChange DEF HashShape
  <2>9. CASE UNCHANGED tables /\ Moved(t, "insert", [l EXCEPT !.index = @ + 1])
    BY <1>0, <2>1, <2>4, <2>5, <2>6, <2>9, TypesMove DEF HashShape
  <2> QED BY <2>2, <2>8, <2>9
<1> QED BY <1>1, <1>2, <1>3, <1>4, <1>5, <1>6, <1>7, <1>8, <1>9, <1>10, <1>11, <1>12 DEF Hash!Go

-----------------------------------------------------------------------------
(* The hash of producers: probing.                                         *)

InTable(t, h) == \E i \in DOMAIN tables[h] : tables[h][i].key = t

Unregistered(t) == \A h \in 1 .. Len(tables) : ~InTable(t, h)

\* The slots that t comes to before probe n are taken.
Passed(t, h, n) == \A j \in HashOf[t] .. n - 1 : At(h, j).key # Null

\* Probing comes to every entry.
Reached ==
    \A h \in 1 .. Len(tables), t \in Threads : \A i \in DOMAIN tables[h] :
        tables[h][i].key = t => \E n \in Nat : n >= HashOf[t] /\ i = n % Hash!Capacity(h) /\ Passed(t, h, n)

KeysOnce ==
    \A h \in 1 .. Len(tables) : \A i, j \in DOMAIN tables[h] :
        tables[h][i].key = tables[h][j].key /\ tables[h][i].key # Null => i = j

\* What a thread knows of the slots it has seen, and of the tables it has been through.
Probing(t) ==
    LET l == hash_local[t]
    IN  /\ hash_pc[t] = "find" =>
            /\ l.index >= HashOf[t]
            /\ \A h \in 1 .. Len(tables) : h > l.hash => ~InTable(t, h)
            /\ \A j \in HashOf[t] .. l.index - 1 : At(l.hash, j).key \notin {t, Null}
        /\ hash_pc[t] \notin {"idle", "find", "insert"} => Unregistered(t)
        /\ hash_pc[t] = "insert" =>
            /\ l.index >= HashOf[t]
            /\ \A h \in 1 .. Len(tables) : h >= l.mainHash => ~InTable(t, h)
            /\ Passed(t, l.mainHash, l.index)

HashProbing == Reached /\ KeysOnce /\ \A t \in Threads : Probing(t)

\* What a step of t may do to the tables.
TablesKeep(t) ==
    /\ Len(tables') >= Len(tables)
    /\ \A g \in 1 .. Len(tables) : DOMAIN tables'[g] = DOMAIN tables[g]
    /\ \A g \in 1 .. Len(tables) : \A i \in DOMAIN tables[g] :
            tables'[g][i] = tables[g][i] \/ (tables[g][i].key = Null /\ tables'[g][i].key = t)
    /\ \A g \in 1 .. Len(tables') : g > Len(tables) => \A i \in DOMAIN tables'[g] : tables'[g][i].key = Null

\* What a thread that moves leaves of the slots that another comes to.
LEMMA KeepAt ==
    ASSUME HashShape, NEW t \in Threads, TablesKeep(t), NEW g \in 1 .. Len(tables)
    PROVE  /\ g \in 1 .. Len(tables') /\ Hash!Capacity(g)' = Hash!Capacity(g)
           /\ \A j \in Nat : At(g, j)' = At(g, j) \/ (At(g, j).key = Null /\ At(g, j)'.key = t)
<1>1. Hash!Capacity(g)' = Hash!Capacity(g)
  BY DEF TablesKeep, Hash!Capacity
<1>2. g \in 1 .. Len(tables')
  BY DEF HashShape, TablesKeep
<1>3. ASSUME NEW j \in Nat PROVE At(g, j)' = At(g, j) \/ (At(g, j).key = Null /\ At(g, j)'.key = t)
  <2>1. j % Hash!Capacity(g) \in DOMAIN tables[g]
    BY Tables
  <2>2. At(g, j)' = tables'[g][j % Hash!Capacity(g)] /\ At(g, j) = tables[g][j % Hash!Capacity(g)]
    BY <1>1 DEF At
  <2> QED BY <2>1, <2>2 DEF TablesKeep
<1> QED BY <1>1, <1>2, <1>3

\* Nobody else is entered, and slots that were taken stay so.
LEMMA KeepIn ==
    ASSUME HashShape, NEW t \in Threads, TablesKeep(t), NEW u \in Threads
    PROVE  /\ u # t => \A h \in 1 .. Len(tables') : InTable(u, h)' => h \in 1 .. Len(tables) /\ InTable(u, h)
           /\ \A h \in 1 .. Len(tables), n \in Nat : Passed(u, h, n) => Passed(u, h, n)'
<1>1. ASSUME NEW h \in 1 .. Len(tables'), u # t, InTable(u, h)' PROVE h \in 1 .. Len(tables) /\ InTable(u, h)
  <2>1. PICK i \in DOMAIN tables'[h] : tables'[h][i].key = u
    BY <1>1 DEF InTable
  <2>2. u # Null
    BY HashConstants
  <2>3. h \in 1 .. Len(tables)
    BY <2>1, <2>2 DEF TablesKeep, HashShape
  <2> QED BY <1>1, <2>1, <2>3 DEF TablesKeep, InTable
<1>2. ASSUME NEW h \in 1 .. Len(tables), NEW n \in Nat, Passed(u, h, n) PROVE Passed(u, h, n)'
  <2>1. t # Null /\ HashOf[u] \in Nat
    BY HashConstants
  <2>2. ASSUME NEW j \in HashOf[u] .. n - 1 PROVE At(h, j)'.key # Null
    <3>1. j \in Nat /\ At(h, j).key # Null
      BY <1>2, <2>1 DEF Passed
    <3> QED BY <2>1, <3>1, KeepAt
  <2> QED BY <2>2 DEF Passed
<1> QED BY <1>1, <1>2

\* The others know what they knew.
LEMMA OthersProbe ==
    ASSUME HashTypes, NEW t \in Threads, TablesKeep(t), NEW u \in Threads, u # t, Probing(u),
           hash_pc'[u] = hash_pc[u], hash_local'[u] = hash_local[u]
    PROVE  Probing(u)'
<1> DEFINE l == hash_local[u]
<1>0. /\ HashShape /\ Len(tables) \in Nat /\ l.index \in Nat /\ HashOf[u] \in Nat /\ t # Null
      /\ hash_pc[u] = "find" => l.hash \in 1 .. Len(tables)
      /\ hash_pc[u] = "insert" => l.mainHash \in 1 .. Len(tables)
  <2>1. HashShape /\ AtTable(u) /\ l \in HashLocal /\ HashOf[u] \in Nat /\ t # Null
    BY HashConstants DEF HashTypes, HashShape
  <2> QED BY <2>1 DEF AtTable, HashShape, HashLocal
<1>1. \A h \in 1 .. Len(tables') : InTable(u, h)' => h \in 1 .. Len(tables) /\ InTable(u, h)
  BY <1>0, KeepIn
<1>2. ASSUME hash_pc[u] = "find", NEW j \in HashOf[u] .. l.index - 1 PROVE At(l.hash, j)'.key \notin {u, Null}
  <2>1. j \in Nat /\ At(l.hash, j).key \notin {u, Null}
    BY <1>0, <1>2 DEF Probing
  <2>2. PICK h \in 1 .. Len(tables) : h = l.hash
    BY <1>0, <1>2
  <2>3. At(h, j)' = At(h, j) \/ (At(h, j).key = Null /\ At(h, j)'.key = t)
    BY <1>0, <2>1, KeepAt
  <2> QED BY <2>1, <2>2, <2>3
<1>3. hash_pc[u] = "insert" => \A h \in 1 .. Len(tables) : h = l.mainHash => Passed(u, h, l.index)'
  BY <1>0, KeepIn DEF Probing
<1>4. hash_pc[u] \notin {"idle", "find", "insert"} => Unregistered(u)'
  BY <1>1 DEF Probing, Unregistered
<1>5. hash_pc'[u] = "find" =>
        /\ hash_local'[u].index >= HashOf[u]
        /\ \A h \in 1 .. Len(tables') : h > hash_local'[u].hash => ~InTable(u, h)'
        /\ \A j \in HashOf[u] .. hash_local'[u].index - 1 : At(l.hash, j)'.key \notin {u, Null}
  BY <1>0, <1>1, <1>2 DEF Probing
<1>6. hash_pc'[u] = "insert" =>
        /\ hash_local'[u].index >= HashOf[u]
        /\ \A h \in 1 .. Len(tables') : h >= hash_local'[u].mainHash => ~InTable(u, h)'
        /\ Passed(u, l.mainHash, l.index)'
  BY <1>0, <1>1, <1>3 DEF Probing
<1> QED BY <1>4, <1>5, <1>6 DEF Probing

\* Entries and their slots.
LEMMA EntriesStep ==
    ASSUME HashTypes, HashTypes', Reached, KeysOnce, NEW t \in Threads, TablesKeep(t),
           \A h \in 1 .. Len(tables) : \A i \in DOMAIN tables[h] :
                tables'[h][i] # tables[h][i] =>
                    /\ \E n \in Nat : n >= HashOf[t] /\ i = n % Hash!Capacity(h) /\ Passed(t, h, n)
                    /\ ~InTable(t, h)
                    /\ \A j \in DOMAIN tables[h] : tables'[h][j] # tables[h][j] => j = i
    PROVE  Reached' /\ KeysOnce'
<1>0. HashShape /\ Len(tables) \in Nat /\ Len(tables') \in Nat /\ t # Null /\ \A u \in Threads : u # Null
  BY HashConstants DEF HashTypes, HashShape
<1>1. ASSUME NEW h \in 1 .. Len(tables'), NEW u \in Threads, NEW i \in DOMAIN tables'[h], tables'[h][i].key = u
      PROVE  \E n \in Nat : n >= HashOf[u] /\ i = n % Hash!Capacity(h)' /\ Passed(u, h, n)'
  <2>1. h \in 1 .. Len(tables)
    BY <1>0, <1>1 DEF TablesKeep
  <2>2. i \in DOMAIN tables[h] /\ Hash!Capacity(h)' = Hash!Capacity(h)
    BY <1>0, <1>1, <2>1, KeepAt DEF TablesKeep
  <2>3. \E n \in Nat : n >= HashOf[u] /\ i = n % Hash!Capacity(h) /\ Passed(u, h, n)
    <3>1. CASE tables'[h][i] = tables[h][i]
      BY <1>1, <2>1, <2>2, <3>1 DEF Reached
    <3>2. CASE tables'[h][i] # tables[h][i]
      <4>1. u = t
        BY <1>1, <2>1, <2>2, <3>2 DEF TablesKeep
      <4> QED BY <2>1, <2>2, <3>2, <4>1
    <3> QED BY <3>1, <3>2
  <2>4. PICK n \in Nat : n >= HashOf[u] /\ i = n % Hash!Capacity(h) /\ Passed(u, h, n)
    BY <2>3
  <2>5. Passed(u, h, n)'
    BY <1>0, <2>1, <2>4, KeepIn
  <2> QED BY <2>2, <2>4, <2>5
<1>2. Reached'
  BY <1>1 DEF Reached
<1>3. ASSUME NEW h \in 1 .. Len(tables'), NEW i \in DOMAIN tables'[h], NEW j \in DOMAIN tables'[h],
             tables'[h][i].key = tables'[h][j].key, tables'[h][i].key # Null
      PROVE  i = j
  <2>1. h \in 1 .. Len(tables)
    BY <1>0, <1>3 DEF TablesKeep
  <2>2. i \in DOMAIN tables[h] /\ j \in DOMAIN tables[h]
    BY <2>1 DEF TablesKeep
  <2>3. CASE tables'[h][i] = tables[h][i] /\ tables'[h][j] = tables[h][j]
    BY <1>3, <2>1, <2>2, <2>3 DEF KeysOnce
  <2>4. CASE tables'[h][i] # tables[h][i]
    <3>1. tables'[h][i].key = t /\ ~InTable(t, h)
      BY <2>1, <2>2, <2>4 DEF TablesKeep
    <3>2. tables'[h][j] # tables[h][j]
      BY <1>3, <2>2, <3>1 DEF InTable
    <3> QED BY <2>1, <2>2, <2>4, <3>2
  <2>5. CASE tables'[h][j] # tables[h][j]
    <3>1. tables'[h][j].key = t /\ ~InTable(t, h)
      BY <2>1, <2>2, <2>5 DEF TablesKeep
    <3>2. tables'[h][i] # tables[h][i]
      BY <1>3, <2>2, <3>1 DEF InTable
    <3> QED BY <2>1, <2>2, <2>5, <3>2
  <2> QED BY <2>3, <2>4, <2>5
<1>4. KeysOnce'
  BY <1>3 DEF KeysOnce
<1> QED BY <1>2, <1>4

\* At first every slot is free.
LEMMA FreeInit ==
    ASSUME Hash!Init
    PROVE  \A h \in 1 .. Len(tables) : \A i \in DOMAIN tables[h] : tables[h][i].key = Null
<1>1. tables = <<Hash!Slots(INITIAL_IMPLICIT_PRODUCER_HASH_SIZE)>>
  BY DEF Hash!Init
<1>2. \A i \in DOMAIN Hash!Slots(INITIAL_IMPLICIT_PRODUCER_HASH_SIZE) :
            Hash!Slots(INITIAL_IMPLICIT_PRODUCER_HASH_SIZE)[i].key = Null
  BY HashConstants, SlotsIs
<1> QED BY <1>1, <1>2

LEMMA ProbingInit == ASSUME Hash!Init PROVE HashProbing
<1>1. \A h \in 1 .. Len(tables) : \A i \in DOMAIN tables[h] : tables[h][i].key = Null
  BY FreeInit
<1>2. \A t \in Threads : t # Null /\ hash_pc[t] = "idle"
  BY HashConstants DEF Hash!Init
<1> QED BY <1>1, <1>2 DEF HashProbing, Reached, KeysOnce, Probing

\* A free slot ends the search of its table.
LEMMA NotHere ==
    ASSUME HashTypes, HashProbing, NEW t \in Threads, hash_pc[t] = "find",
           At(hash_local[t].hash, hash_local[t].index).key = Null
    PROVE  ~InTable(t, hash_local[t].hash)
<1> DEFINE l == hash_local[t]
<1>0. /\ HashShape /\ l.hash \in 1 .. Len(tables) /\ l.index \in Nat /\ HashOf[t] \in Nat /\ t # Null
      /\ \A j \in HashOf[t] .. l.index - 1 : At(l.hash, j).key \notin {t, Null}
  <2>1. HashShape /\ AtTable(t) /\ l \in HashLocal /\ HashOf[t] \in Nat /\ t # Null /\ Probing(t)
    BY HashConstants DEF HashTypes, HashShape, HashProbing
  <2> QED BY <2>1 DEF AtTable, HashShape, HashLocal, Probing
<1> SUFFICES ASSUME NEW i \in DOMAIN tables[l.hash], tables[l.hash][i].key = t PROVE FALSE
  BY DEF InTable
<1>1. PICK n \in Nat : n >= HashOf[t] /\ i = n % Hash!Capacity(l.hash) /\ Passed(t, l.hash, n)
  BY <1>0 DEF HashProbing, Reached
<1>2. At(l.hash, n).key = t
  BY <1>1 DEF At
<1>3. ~(n < l.index)
  BY <1>0, <1>1, <1>2
<1>4. n # l.index
  BY <1>0, <1>2
<1>5. l.index \in HashOf[t] .. n - 1
  <2>1. l.index >= HashOf[t]
    BY DEF HashProbing, Probing
  <2> QED BY <1>0, <1>1, <1>3, <1>4, <2>1
<1> QED BY <1>1, <1>5 DEF Passed

Others(t) == \A u \in Threads : u # t => hash_pc'[u] = hash_pc[u] /\ hash_local'[u] = hash_local[u]

\* A step of a thread as the others see it.
LEMMA OnlyOneMoves ==
    ASSUME HashShape, NEW t \in Threads, Hash!Begin(t) \/ Hash!Go(t)
    PROVE  Others(t)
  BY DEF HashShape, Others, Hash!Go, Hash!Begin, Hash!Find, Hash!Count, Hash!Resize, Hash!Grow, Hash!GrowFails,
         Hash!Clear, Hash!Fit, Hash!Create, Hash!CreateFails, Hash!Link, Hash!Insert,
         Hash!Goto, Hash!Set, Hash!Return, Hash!ReturnNull

\* The two outcomes of Insert.
Inserted(t, h, i) ==
    LET l == hash_local[t]
    IN  /\ h = l.mainHash /\ i = l.index % Hash!Capacity(h) /\ tables[h][i].key = Null
        /\ tables' = [tables EXCEPT ![h][i] = [key |-> t, value |-> l.producer]]
        /\ Moved(t, "idle", Hash!Fresh)
        /\ returned' = [returned EXCEPT ![t] = @ \union {l.producer}]

InsertMoved(t) ==
    LET l == hash_local[t]
    IN  \/ /\ At(l.mainHash, l.index).key # Null /\ UNCHANGED <<tables, returned>>
           /\ Moved(t, "insert", [l EXCEPT !.index = @ + 1])
        \/ \E h \in 1 .. Len(tables) : \E i \in DOMAIN tables[h] :
                Inserted(t, h, i) /\ [key |-> t, value |-> l.producer] \in HashEntry

\* Insert has these outcomes.
LEMMA InsertMoves ==
    ASSUME HashTypes, NEW t \in Threads, Hash!Insert(t)
    PROVE  InsertMoved(t)
<1> DEFINE l == hash_local[t]
<1>1. CASE At(l.mainHash, l.index).key = Null
  <2>1. l.mainHash \in 1 .. Len(tables) /\ l.index \in Nat /\ l.producer \in Nat \union {Null} /\ HashShape
        /\ hash_pc[t] = "insert"
    BY DEF HashTypes, HashShape, AtTable, HashLocal, Hash!Insert
  <2>2. l.index % Hash!Capacity(l.mainHash) \in DOMAIN tables[l.mainHash]
    BY <2>1, Tables
  <2>3. [key |-> t, value |-> l.producer] \in HashEntry
    BY <2>1 DEF HashEntry
  <2>4. Inserted(t, l.mainHash, l.index % Hash!Capacity(l.mainHash))
    BY <1>1 DEF Hash!Insert, Hash!Slot, Hash!Return, Hash!Goto, Hash!Set, At, Moved, Inserted
  <2> QED BY <2>1, <2>2, <2>3, <2>4 DEF InsertMoved
<1>2. CASE At(l.mainHash, l.index).key # Null
  <2>1. UNCHANGED <<tables, returned>> /\ Moved(t, "insert", [l EXCEPT !.index = @ + 1])
    BY <1>2 DEF Hash!Insert, Hash!Slot, Hash!Set, At, Moved, HashTypes, HashShape
  <2> QED BY <1>2, <2>1 DEF InsertMoved
<1> QED BY <1>1, <1>2

\* Steps that leave the tables, add one, or fill a slot.
LEMMA KeepSame == ASSUME HashShape, UNCHANGED tables, NEW t \in Threads PROVE TablesKeep(t)
  BY DEF TablesKeep, HashShape

LEMMA KeepGrown == ASSUME HashShape, Grown, NEW t \in Threads PROVE TablesKeep(t)
<1>1. Len(tables) \in Nat /\ Len(tables') = Len(tables) + 1
  BY DEF HashShape, Grown
<1>2. \A g \in 1 .. Len(tables) : tables'[g] = tables[g]
  BY DEF Grown
<1>3. \A g \in 1 .. Len(tables') : g > Len(tables) => g = Len(tables) + 1
  BY <1>1
<1>4. \A i \in DOMAIN tables'[Len(tables) + 1] : tables'[Len(tables) + 1][i].key = Null
  BY DEF Grown
<1> QED BY <1>1, <1>2, <1>3, <1>4 DEF TablesKeep

LEMMA KeepFilled ==
    ASSUME HashShape, NEW t \in Threads, NEW h \in 1 .. Len(tables), NEW i \in DOMAIN tables[h], NEW p,
           tables[h][i].key = Null, Filled(h, i, [key |-> t, value |-> p])
    PROVE  TablesKeep(t)
<1>1. Len(tables') = Len(tables) /\ Len(tables) \in Nat
  BY DEF Filled, HashShape
<1> QED BY <1>1 DEF TablesKeep, Filled

\* A step of one thread keeps what is known of the slots.
LEMMA ProbingMove ==
    ASSUME HashTypes, HashTypes', HashProbing, NEW t \in Threads, Others(t), TablesKeep(t), Probing(t)',
           \A h \in 1 .. Len(tables) : \A i \in DOMAIN tables[h] :
                tables'[h][i] # tables[h][i] =>
                    /\ \E n \in Nat : n >= HashOf[t] /\ i = n % Hash!Capacity(h) /\ Passed(t, h, n)
                    /\ ~InTable(t, h)
                    /\ \A j \in DOMAIN tables[h] : tables'[h][j] # tables[h][j] => j = i
    PROVE  HashProbing'
<1>1. Reached' /\ KeysOnce'
  BY EntriesStep DEF HashProbing
<1>2. ASSUME NEW u \in Threads PROVE Probing(u)'
  <2>1. CASE u = t
    BY <2>1
  <2>2. CASE u # t
    BY <2>2, OthersProbe DEF HashProbing, Others
  <2> QED BY <2>1, <2>2
<1> QED BY <1>1, <1>2 DEF HashProbing

LEMMA ProbingStep ==
    ASSUME HashTypes, HashTypes', HashProbing, NEW t \in Threads, hash_local[t].newCount <= Cardinality(Threads),
           Hash!Begin(t) \/ Hash!Go(t)
    PROVE  HashProbing'
<1> DEFINE l == hash_local[t]
<1>0. /\ HashShape /\ AtTable(t) /\ l \in HashLocal /\ Len(tables) \in Nat \ {0}
      /\ l.mainHash \in Nat /\ l.hash \in Nat /\ l.index \in Nat /\ HashOf[t] \in Nat /\ t # Null
      /\ Probing(t) /\ Others(t)
  <2>1. HashShape /\ AtTable(t) /\ Probing(t)
    BY DEF HashTypes, HashProbing
  <2>2. l \in HashLocal /\ Len(tables) \in Nat \ {0}
    BY <2>1 DEF HashShape
  <2>3. Others(t)
    BY <2>1, OnlyOneMoves
  <2> QED BY <2>1, <2>2, <2>3, HashConstants DEF HashLocal
<1>1. ASSUME UNCHANGED tables, Probing(t)' PROVE HashProbing'
  BY <1>0, <1>1, KeepSame, ProbingMove
<1>2. UNCHANGED tables => Unregistered(t)' = Unregistered(t)
  BY DEF Unregistered, InTable
<1> USE DEF Hash!Goto, Hash!Set, Hash!shared
<1>3. CASE Hash!Begin(t)
  <2>1. /\ hash_pc'[t] = "find" /\ hash_local'[t].hash = Len(tables) /\ hash_local'[t].index = HashOf[t]
        /\ UNCHANGED tables
    BY <1>0, <1>3 DEF Hash!Begin, Hash!Fresh, Hash!implicitProducerHash, HashShape
  <2>2. Probing(t)'
    BY <1>0, <2>1 DEF Probing
  <2> QED BY <1>1, <2>1, <2>2
<1>4. CASE Hash!Find(t)
  <2> DEFINE entry == At(l.hash, l.index)
  <2>1. /\ hash_pc[t] = "find" /\ l.hash \in 1 .. l.mainHash /\ l.mainHash \in 1 .. Len(tables) /\ UNCHANGED tables
        /\ l.index >= HashOf[t]
        /\ \A h \in 1 .. Len(tables) : h > l.hash => ~InTable(t, h)
        /\ \A j \in HashOf[t] .. l.index - 1 : At(l.hash, j).key \notin {t, Null}
    BY <1>0, <1>4 DEF Hash!Find, AtTable, Probing
  <2>2. \/ hash_pc'[t] = "idle"
        \/ /\ l.hash # l.mainHash /\ hash_pc'[t] = "insert"
           /\ hash_local'[t].mainHash = l.mainHash /\ hash_local'[t].index = HashOf[t]
        \/ /\ entry.key = Null /\ l.hash > 1 /\ hash_pc'[t] = "find"
           /\ hash_local'[t].hash = l.hash - 1 /\ hash_local'[t].index = HashOf[t]
        \/ entry.key = Null /\ l.hash = 1 /\ hash_pc'[t] = "count"
        \/ /\ entry.key \notin {t, Null} /\ hash_pc'[t] = "find"
           /\ hash_local'[t].hash = l.hash /\ hash_local'[t].index = l.index + 1
    <3>1. \A label \in Labels : \A x : Moved(t, label, x) => hash_pc'[t] = label /\ hash_local'[t] = x
      BY <1>0 DEF HashShape, Moved
    <3>2. {"idle", "insert", "find", "count"} \subseteq Labels
      BY DEF Labels
    <3>3. /\ [l EXCEPT !.producer = entry.value, !.index = HashOf[t]].mainHash = l.mainHash
          /\ [l EXCEPT !.producer = entry.value, !.index = HashOf[t]].index = HashOf[t]
          /\ [l EXCEPT !.hash = @ - 1, !.index = HashOf[t]].hash = l.hash - 1
          /\ [l EXCEPT !.hash = @ - 1, !.index = HashOf[t]].index = HashOf[t]
          /\ [l EXCEPT !.index = @ + 1].hash = l.hash
          /\ [l EXCEPT !.index = @ + 1].index = l.index + 1
      BY <1>0 DEF HashLocal
    <3>4. FindMoved(t)
      BY <1>4, FindMoves
    <3> HIDE DEF l, entry
    <3> QED BY <3>1, <3>2, <3>3, <3>4 DEF FindMoved, l, entry
  <2>3. UNCHANGED tables => \A h : InTable(t, h)' = InTable(t, h)
    BY DEF InTable
  <2>4. entry.key = Null => \A h \in 1 .. Len(tables) : h >= l.hash => ~InTable(t, h)
    <3>1. entry.key = Null => ~InTable(t, l.hash)
      BY <2>1, NotHere
    <3> QED BY <1>0, <2>1, <3>1
  <2>5. \A h, j : At(h, j)' = tables[h][j % Hash!Capacity(h)]
    BY <2>1 DEF At, Hash!Capacity
  <2>6. CASE hash_pc'[t] = "idle"
    BY <1>1, <2>1, <2>6 DEF Probing
  <2>7. CASE /\ l.hash # l.mainHash /\ hash_pc'[t] = "insert"
             /\ hash_local'[t].mainHash = l.mainHash /\ hash_local'[t].index = HashOf[t]
    <3>1. \A h \in 1 .. Len(tables) : h >= l.mainHash => ~InTable(t, h)
      BY <1>0, <2>1, <2>7
    <3>2. \A h : Passed(t, h, HashOf[t])'
      BY <1>0 DEF Passed
    <3>3. Probing(t)'
      BY <1>0, <2>1, <2>3, <2>7, <3>1, <3>2 DEF Probing
    <3> QED BY <1>1, <2>1, <3>3
  <2>8. CASE /\ entry.key = Null /\ l.hash > 1 /\ hash_pc'[t] = "find"
             /\ hash_local'[t].hash = l.hash - 1 /\ hash_local'[t].index = HashOf[t]
    <3>1. \A h \in 1 .. Len(tables) : h > l.hash - 1 => ~InTable(t, h)
      BY <1>0, <2>1, <2>4, <2>8
    <3>2. Probing(t)'
      BY <1>0, <2>1, <2>3, <2>8, <3>1 DEF Probing
    <3> QED BY <1>1, <2>1, <3>2
  <2>9. CASE entry.key = Null /\ l.hash = 1 /\ hash_pc'[t] = "count"
    <3>1. Unregistered(t)
      BY <1>0, <2>4, <2>9 DEF Unregistered
    <3> QED BY <1>1, <1>2, <2>1, <2>9, <3>1 DEF Probing
  <2>10. CASE /\ entry.key \notin {t, Null} /\ hash_pc'[t] = "find"
              /\ hash_local'[t].hash = l.hash /\ hash_local'[t].index = l.index + 1
    <3>1. \A j \in HashOf[t] .. (l.index + 1) - 1 : At(l.hash, j).key \notin {t, Null}
      BY <1>0, <2>1, <2>10
    <3>2. PICK h : h = l.hash
      OBVIOUS
    <3>3. \A j : At(h, j)' = At(h, j)
      BY <2>1 DEF At, Hash!Capacity
    <3>4. \A j \in HashOf[t] .. (l.index + 1) - 1 : At(h, j)'.key \notin {t, Null}
      BY <3>1, <3>2, <3>3
    <3>5. hash_local'[t].hash = h /\ hash_local'[t].index = l.index + 1
      BY <2>10, <3>2
    <3>6. Probing(t)'
      BY <1>0, <2>1, <2>3, <2>10, <3>2, <3>4, <3>5 DEF Probing
    <3> QED BY <1>1, <2>1, <3>6
  <2> QED BY <2>2, <2>6, <2>7, <2>8, <2>9, <2>10
<1>5. CASE \/ Hash!Count(t) \/ Hash!Resize(t) \/ Hash!GrowFails(t) \/ Hash!Clear(t)
           \/ Hash!Fit(t) \/ Hash!Create(t) \/ Hash!CreateFails(t)
  <2>1. UNCHANGED tables /\ hash_pc[t] \notin {"idle", "find", "insert"} /\ hash_pc'[t] \notin {"find", "insert"}
    BY <1>0, <1>5 DEF Hash!Count, Hash!Resize, Hash!GrowFails, Hash!Clear, Hash!Fit, Hash!Create, Hash!CreateFails,
                      Hash!ReturnNull, HashShape
  <2>2. Probing(t)'
    BY <1>0, <1>2, <2>1 DEF Probing
  <2> QED BY <1>1, <2>1, <2>2
<1>6. CASE Hash!Link(t)
  <2>1. UNCHANGED tables /\ hash_pc[t] = "link"
        /\ \/ hash_pc'[t] = "link"
           \/ hash_pc'[t] = "insert" /\ hash_local'[t].index = HashOf[t]
    BY <1>0, <1>6 DEF Hash!Link, HashShape, HashLocal
  <2>2. Unregistered(t)' /\ \A h : Passed(t, h, HashOf[t])'
    BY <1>0, <1>2, <2>1 DEF Probing, Passed
  <2>3. Probing(t)'
    BY <1>0, <2>1, <2>2 DEF Probing, Unregistered
  <2> QED BY <1>1, <2>1, <2>3
<1>7. CASE Hash!Grow(t)
  <2>1. Grown /\ hash_pc[t] = "grow" /\ hash_pc'[t] = "clear"
    BY <1>0, <1>7, GrownIs DEF Hash!Grow, HashShape
  <2>2. Unregistered(t)'
    BY <1>0, <2>1 DEF Probing, Unregistered, InTable, Grown
  <2>3. Probing(t)'
    BY <2>1, <2>2 DEF Probing
  <2>4. TablesKeep(t) /\ \A h \in 1 .. Len(tables) : \A i \in DOMAIN tables[h] : tables'[h][i] = tables[h][i]
    BY <1>0, <2>1, KeepGrown DEF Grown
  <2> QED BY <1>0, <2>3, <2>4, ProbingMove
<1>8. CASE Hash!Insert(t)
  <2>1. /\ hash_pc[t] = "insert" /\ l.index >= HashOf[t] /\ l.mainHash \in 1 .. Len(tables)
        /\ \A h \in 1 .. Len(tables) : h >= l.mainHash => ~InTable(t, h)
        /\ Passed(t, l.mainHash, l.index)
    BY <1>0, <1>8 DEF Hash!Insert, Probing, AtTable
  <2>2. CASE /\ At(l.mainHash, l.index).key # Null /\ UNCHANGED <<tables, returned>>
             /\ Moved(t, "insert", [l EXCEPT !.index = @ + 1])
    <3>1. PICK h : h = l.mainHash
      OBVIOUS
    <3>2. hash_pc'[t] = "insert" /\ hash_local'[t].mainHash = h /\ hash_local'[t].index = l.index + 1
      BY <1>0, <2>2, <3>1 DEF Moved, HashShape, HashLocal
    <3>3. \A j \in HashOf[t] .. (l.index + 1) - 1 : At(h, j).key # Null
      BY <1>0, <2>1, <2>2, <3>1 DEF Passed
    <3>4. \A j : At(h, j)' = At(h, j)
      BY <2>2 DEF At, Hash!Capacity
    <3>5. Passed(t, h, hash_local[t].index)'
      BY <3>2, <3>3, <3>4 DEF Passed
    <3>6. \A g : InTable(t, g)' = InTable(t, g)
      BY <2>2 DEF InTable
    <3>7. Probing(t)'
      BY <1>0, <2>1, <2>2, <3>1, <3>2, <3>5, <3>6 DEF Probing
    <3> QED BY <1>1, <2>2, <3>7
  <2>3. ASSUME NEW h \in 1 .. Len(tables), NEW i \in DOMAIN tables[h], Inserted(t, h, i),
               [key |-> t, value |-> l.producer] \in HashEntry
        PROVE  HashProbing'
    <3>0. /\ h = l.mainHash /\ i = l.index % Hash!Capacity(h) /\ tables[h][i].key = Null
          /\ tables' = [tables EXCEPT ![h][i] = [key |-> t, value |-> l.producer]]
          /\ hash_pc'[t] = "idle"
      BY <1>0, <2>3 DEF Inserted, Moved, HashShape
    <3>1. Filled(h, i, [key |-> t, value |-> l.producer])
      BY <1>0, <2>3, <3>0, FilledIs
    <3>2. TablesKeep(t)
      BY <1>0, <3>0, <3>1, KeepFilled
    <3>3. Probing(t)'
      BY <3>0 DEF Probing
    <3>4. ASSUME NEW g \in 1 .. Len(tables), NEW j \in DOMAIN tables[g], tables'[g][j] # tables[g][j]
          PROVE  g = h /\ j = i
      BY <3>1, <3>4 DEF Filled
    <3>5. ~InTable(t, h) /\ Passed(t, h, l.index) /\ l.index \in Nat
      BY <1>0, <2>1, <3>0
    <3> QED BY <1>0, <2>1, <3>0, <3>2, <3>3, <3>4, <3>5, ProbingMove
  <2> QED BY <1>8, <2>2, <2>3, InsertMoves DEF InsertMoved
<1> QED BY <1>3, <1>4, <1>5, <1>6, <1>7, <1>8 DEF Hash!Go

\* What each step does to the tables.
LEMMA StepKeeps ==
    ASSUME HashTypes, NEW t \in Threads, hash_local[t].newCount <= Cardinality(Threads),
           Hash!Begin(t) \/ Hash!Go(t)
    PROVE  TablesKeep(t)
<1>0. HashShape
  BY DEF HashTypes
<1>1. CASE Hash!Grow(t)
  BY <1>0, <1>1, GrownIs, KeepGrown
<1>2. CASE Hash!Insert(t)
  <2>1. CASE UNCHANGED tables
    BY <1>0, <2>1, KeepSame
  <2>2. ASSUME NEW h \in 1 .. Len(tables), NEW i \in DOMAIN tables[h], Inserted(t, h, i),
               [key |-> t, value |-> hash_local[t].producer] \in HashEntry
        PROVE  TablesKeep(t)
    <3>1. Filled(h, i, [key |-> t, value |-> hash_local[t].producer])
      BY <1>0, <2>2, FilledIs DEF Inserted
    <3> QED BY <1>0, <2>2, <3>1, KeepFilled DEF Inserted
  <2> QED BY <1>2, <2>1, <2>2, InsertMoves DEF InsertMoved
<1>3. CASE ~Hash!Grow(t) /\ ~Hash!Insert(t)
  <2>1. UNCHANGED tables
    BY <1>3 DEF Hash!Go, Hash!Begin, Hash!Find, Hash!Count, Hash!Resize, Hash!GrowFails, Hash!Clear,
                Hash!Fit, Hash!Create, Hash!CreateFails, Hash!Link, Hash!shared
  <2> QED BY <1>0, <2>1, KeepSame
<1> QED BY <1>1, <1>2, <1>3

\* What a thread that moves does to the registrations.
LEMMA KeepRegistered ==
    ASSUME HashShape, NEW t \in Threads, TablesKeep(t), NEW u \in Threads
    PROVE  /\ \A h \in 1 .. Len(tables) : InTable(u, h) => h \in 1 .. Len(tables') /\ InTable(u, h)'
           /\ u # t => (Unregistered(u)' <=> Unregistered(u))
<1>1. ASSUME NEW h \in 1 .. Len(tables), InTable(u, h) PROVE h \in 1 .. Len(tables') /\ InTable(u, h)'
  <2>1. PICK i \in DOMAIN tables[h] : tables[h][i].key = u
    BY <1>1 DEF InTable
  <2>2. u # Null /\ h \in 1 .. Len(tables')
    BY HashConstants DEF HashShape, TablesKeep
  <2>3. tables'[h][i].key = u /\ i \in DOMAIN tables'[h]
    BY <2>1, <2>2 DEF TablesKeep
  <2> QED BY <2>2, <2>3 DEF InTable
<1>2. ASSUME u # t, Unregistered(u) PROVE Unregistered(u)'
  BY <1>2, KeepIn DEF Unregistered
<1>3. ASSUME Unregistered(u)' PROVE Unregistered(u)
  BY <1>1, <1>3 DEF Unregistered
<1> QED BY <1>1, <1>2, <1>3

-----------------------------------------------------------------------------
(* The hash of producers: its count.                                       *)

Waiting == {"resize", "grow", "clear", "fit"}
Making == {"create", "link", "insert"}

\* The threads that the count stands for.
Counted == {t \in Threads : hash_pc[t] \in Waiting \union Making \/ ~Unregistered(t)}

HashCounts ==
    /\ implicitProducerHashCount = Cardinality(Counted)
    /\ \A t \in Threads : hash_local[t].newCount <= Cardinality(Threads)

\* The count is at most the number of threads.
LEMMA CountedIs == IsFiniteSet(Counted) /\ Cardinality(Counted) \in Nat /\ Cardinality(Counted) <= Cardinality(Threads)
<1>1. Counted \in SUBSET Threads
  BY DEF Counted
<1> QED BY <1>1, HashConstants, FS_Subset, FS_CardinalityType

LEMMA CountsInit == ASSUME Hash!Init PROVE HashCounts
<1>1. \A h \in 1 .. Len(tables) : \A i \in DOMAIN tables[h] : tables[h][i].key = Null
  BY FreeInit
<1>2. Counted = {}
  BY <1>1, HashConstants DEF Counted, Unregistered, InTable, Waiting, Making, Hash!Init
<1>3. Cardinality(Threads) \in Nat
  BY HashConstants, FS_CardinalityType
<1>4. \A t \in Threads : hash_local[t].newCount = 0
  BY DEF Hash!Init, Hash!Fresh
<1> QED BY <1>2, <1>3, <1>4, FS_EmptySet DEF HashCounts, Hash!Init

\* A step counts one thread more, or one less.
LEMMA CountedMoves ==
    ASSUME HashShape, NEW t \in Threads, TablesKeep(t), Others(t)
    PROVE  Counted' = IF t \in Counted' THEN Counted \union {t} ELSE Counted \ {t}
<1>1. \A u \in Threads : u # t => (u \in Counted' <=> u \in Counted)
  BY KeepRegistered DEF Counted, Others
<1>2. Counted \subseteq Threads /\ Counted' \subseteq Threads
  BY DEF Counted
<1> QED BY <1>1, <1>2

LEMMA CountsStep ==
    ASSUME HashTypes, HashTypes', HashProbing, HashProbing', HashCounts, NEW t \in Threads, Hash!Begin(t) \/ Hash!Go(t)
    PROVE  HashCounts'
<1> DEFINE l == hash_local[t]
           n == Cardinality(Counted)
<1>0. /\ HashShape /\ HashShape' /\ TablesKeep(t) /\ Others(t) /\ Probing(t) /\ Probing(t)'
      /\ l \in HashLocal /\ l.newCount \in Int
  <2>1. HashShape /\ HashShape' /\ Probing(t) /\ Probing(t)' /\ hash_local[t].newCount <= Cardinality(Threads)
    BY DEF HashTypes, HashProbing, HashCounts
  <2>2. l \in HashLocal
    BY <2>1 DEF HashShape
  <2> QED BY <2>1, <2>2, StepKeeps, OnlyOneMoves DEF HashLocal
<1>1. /\ IsFiniteSet(Counted) /\ n \in Nat /\ n = implicitProducerHashCount
      /\ Cardinality(Counted') \in Nat /\ Cardinality(Counted') <= Cardinality(Threads) /\ Cardinality(Threads) \in Nat
  <2>1. Counted' \in SUBSET Threads
    BY DEF Counted
  <2>2. IsFiniteSet(Counted') /\ Cardinality(Counted') <= Cardinality(Threads)
    BY <2>1, HashConstants, FS_Subset
  <2> QED BY <2>2, CountedIs, HashConstants, FS_CardinalityType DEF HashCounts
<1>2. /\ t \in Counted' => Cardinality(Counted') = IF t \in Counted THEN n ELSE n + 1
      /\ t \notin Counted' => Cardinality(Counted') = IF t \in Counted THEN n - 1 ELSE n
  <2>1. Counted' = IF t \in Counted' THEN Counted \union {t} ELSE Counted \ {t}
    BY <1>0, CountedMoves
  <2>2. /\ Cardinality(Counted \union {t}) = IF t \in Counted THEN n ELSE n + 1
        /\ Cardinality(Counted \ {t}) = IF t \in Counted THEN n - 1 ELSE n
    BY <1>1, FS_AddElement, FS_RemoveElement
  <2> QED BY <2>1, <2>2
<1>3. \A u \in Threads : u # t => hash_local'[u].newCount <= Cardinality(Threads)
  BY <1>0 DEF HashCounts, Others
<1>4. hash_local'[t].newCount \in {0, l.newCount} => hash_local'[t].newCount <= Cardinality(Threads)
  BY <1>1 DEF HashCounts
<1> HIDE DEF n
<1>5. ASSUME implicitProducerHashCount' = Cardinality(Counted'), hash_local'[t].newCount \in {0, l.newCount}
      PROVE  HashCounts'
  BY <1>3, <1>4, <1>5 DEF HashCounts
<1>6. ASSUME UNCHANGED implicitProducerHashCount, t \in Counted' <=> t \in Counted,
             hash_local'[t].newCount \in {0, l.newCount}
      PROVE  HashCounts'
  BY <1>1, <1>2, <1>5, <1>6
<1>7. t \in Counted <=> hash_pc[t] \in Waiting \union Making \/ ~Unregistered(t)
  BY DEF Counted
<1>8. t \in Counted' <=> hash_pc'[t] \in Waiting \union Making \/ ~Unregistered(t)'
  BY DEF Counted
<1>9. UNCHANGED tables => Unregistered(t)' = Unregistered(t)
  BY DEF Unregistered, InTable
<1> USE DEF Hash!Goto, Hash!Set, Hash!shared
<1>11. CASE Hash!Begin(t)
  <2>1. /\ UNCHANGED <<tables, implicitProducerHashCount>> /\ hash_pc[t] = "idle" /\ hash_pc'[t] = "find"
        /\ hash_local'[t].newCount = 0
    BY <1>0, <1>11 DEF Hash!Begin, Hash!Fresh, HashShape
  <2> QED BY <1>6, <1>7, <1>8, <1>9, <2>1 DEF Waiting, Making
<1>12. CASE Hash!Find(t)
  <2>1. /\ UNCHANGED <<tables, implicitProducerHashCount>> /\ hash_pc[t] = "find"
        /\ hash_pc'[t] \in {"idle", "find", "count"} \/ (hash_pc'[t] = "insert" /\ ~Unregistered(t))
        /\ hash_local'[t].newCount \in {0, l.newCount}
    <3>1. FindMoved(t) /\ hash_pc[t] = "find" /\ UNCHANGED <<tables, implicitProducerHashCount>>
      BY <1>12, FindMoves DEF Hash!Find
    <3>2. \A label, x : Moved(t, label, x) => hash_pc'[t] = label /\ hash_local'[t] = x
      BY <1>0 DEF HashShape, Moved
    <3>3. /\ \A p : [l EXCEPT !.producer = p, !.index = HashOf[t]].newCount = l.newCount
          /\ [l EXCEPT !.hash = @ - 1, !.index = HashOf[t]].newCount = l.newCount
          /\ [l EXCEPT !.index = @ + 1].newCount = l.newCount
          /\ Hash!Fresh.newCount = 0
      BY <1>0 DEF HashLocal, Hash!Fresh
    <3>4. At(l.hash, l.index).key = t => ~Unregistered(t)
      <4>1. l.hash \in 1 .. Len(tables) /\ l.index \in Nat
        <5>1. AtTable(t) /\ l.index \in Nat /\ Len(tables) \in Nat
          BY <1>0 DEF HashTypes, HashShape, HashLocal
        <5> QED BY <3>1, <5>1 DEF AtTable
      <4>2. l.index % Hash!Capacity(l.hash) \in DOMAIN tables[l.hash]
        BY <1>0, <4>1, Tables
      <4> QED BY <4>1, <4>2 DEF Unregistered, InTable, At
    <3> DEFINE entry == At(l.hash, l.index)
    <3> USE DEF FindMoved
    <3> HIDE DEF l, entry
    <3>5. CASE Moved(t, "idle", Hash!Fresh)
      BY <3>1, <3>2, <3>3, <3>5
    <3>6. CASE entry.key = t /\ Moved(t, "insert", [l EXCEPT !.producer = entry.value, !.index = HashOf[t]])
      <4>1. hash_pc'[t] = "insert" /\ hash_local'[t] = [l EXCEPT !.producer = entry.value, !.index = HashOf[t]]
        BY <3>2, <3>6
      <4>2. [l EXCEPT !.producer = entry.value, !.index = HashOf[t]].newCount = l.newCount
        BY <3>3
      <4>3. ~Unregistered(t)
        BY <3>4, <3>6 DEF entry
      <4> QED BY <3>1, <4>1, <4>2, <4>3
    <3>7. CASE Moved(t, "find", [l EXCEPT !.hash = @ - 1, !.index = HashOf[t]])
      BY <3>1, <3>2, <3>3, <3>7
    <3>8. CASE Moved(t, "count", l)
      BY <3>1, <3>2, <3>8
    <3>9. CASE Moved(t, "find", [l EXCEPT !.index = @ + 1])
      BY <3>1, <3>2, <3>3, <3>9
    <3> QED BY <3>1, <3>5, <3>6, <3>7, <3>8, <3>9 DEF l, entry
  <2> QED BY <1>6, <1>7, <1>8, <1>9, <2>1 DEF Waiting, Making
<1>13. CASE Hash!Count(t)
  <2>1. /\ UNCHANGED tables /\ implicitProducerHashCount' = implicitProducerHashCount + 1
        /\ hash_pc[t] = "count" /\ hash_pc'[t] = "resize"
        /\ hash_local'[t].newCount = implicitProducerHashCount + 1
    BY <1>0, <1>13 DEF Hash!Count, HashShape, HashLocal
  <2>2. t \notin Counted /\ t \in Counted'
    BY <1>0, <1>7, <1>8, <2>1 DEF Waiting, Making, Probing
  <2> QED BY <1>1, <1>2, <1>3, <2>1, <2>2 DEF HashCounts
<1>14. CASE Hash!Resize(t)
  <2>1. /\ UNCHANGED <<tables, implicitProducerHashCount>> /\ hash_pc[t] = "resize"
        /\ hash_pc'[t] \in {"grow", "clear", "fit"} /\ hash_local'[t].newCount = l.newCount
    BY <1>0, <1>14 DEF Hash!Resize, HashShape, HashLocal
  <2> QED BY <1>6, <1>7, <1>8, <1>9, <2>1 DEF Waiting, Making
<1>15. CASE Hash!Grow(t)
  <2>1. /\ UNCHANGED implicitProducerHashCount /\ hash_pc[t] = "grow"
        /\ hash_pc'[t] = "clear" /\ hash_local'[t].newCount = l.newCount
    BY <1>0, <1>15 DEF Hash!Grow, HashShape, HashLocal
  <2> QED BY <1>6, <1>7, <1>8, <2>1 DEF Waiting, Making
<1>16. CASE Hash!GrowFails(t)
  <2>1. /\ UNCHANGED tables /\ implicitProducerHashCount' = implicitProducerHashCount - 1 /\ hash_pc[t] = "grow"
        /\ hash_pc'[t] = "failed" /\ hash_local'[t].newCount = l.newCount
    BY <1>0, <1>16 DEF Hash!GrowFails, HashShape, HashLocal
  <2>2. t \in Counted /\ t \notin Counted'
    BY <1>0, <1>7, <1>8, <2>1 DEF Waiting, Making, Probing
  <2> QED BY <1>1, <1>2, <1>5, <2>1, <2>2
<1>17. CASE Hash!Clear(t)
  <2>1. /\ UNCHANGED <<tables, implicitProducerHashCount>>
        /\ \/ hash_pc[t] = "clear" /\ hash_pc'[t] = "fit"
           \/ hash_pc[t] = "failed" /\ hash_pc'[t] = "idle"
        /\ hash_local'[t].newCount \in {0, l.newCount}
    BY <1>0, <1>17 DEF Hash!Clear, Hash!ReturnNull, Hash!Fresh, HashShape, HashLocal
  <2> QED BY <1>6, <1>7, <1>8, <1>9, <2>1 DEF Waiting, Making
<1>18. CASE Hash!Fit(t)
  <2>1. /\ UNCHANGED <<tables, implicitProducerHashCount>> /\ hash_pc[t] = "fit"
        /\ hash_pc'[t] \in {"create", "resize"} /\ hash_local'[t].newCount = l.newCount
    BY <1>0, <1>18 DEF Hash!Fit, HashShape, HashLocal
  <2> QED BY <1>6, <1>7, <1>8, <1>9, <2>1 DEF Waiting, Making
<1>19. CASE Hash!Create(t)
  <2>1. /\ UNCHANGED <<tables, implicitProducerHashCount>> /\ hash_pc[t] = "create"
        /\ hash_pc'[t] = "link" /\ hash_local'[t].newCount = l.newCount
    BY <1>0, <1>19 DEF Hash!Create, HashShape, HashLocal
  <2> QED BY <1>6, <1>7, <1>8, <1>9, <2>1 DEF Waiting, Making
<1>20. CASE Hash!CreateFails(t)
  <2>1. /\ UNCHANGED tables /\ implicitProducerHashCount' = implicitProducerHashCount - 1 /\ hash_pc[t] = "create"
        /\ hash_pc'[t] = "idle" /\ hash_local'[t].newCount = 0
    BY <1>0, <1>20 DEF Hash!CreateFails, Hash!ReturnNull, Hash!Fresh, HashShape, HashLocal
  <2>2. t \in Counted /\ t \notin Counted'
    BY <1>0, <1>7, <1>8, <1>9, <2>1 DEF Waiting, Making, Probing
  <2> QED BY <1>1, <1>2, <1>5, <2>1, <2>2
<1>21. CASE Hash!Link(t)
  <2>1. /\ UNCHANGED <<tables, implicitProducerHashCount>> /\ hash_pc[t] = "link"
        /\ hash_pc'[t] \in {"link", "insert"} /\ hash_local'[t].newCount = l.newCount
    BY <1>0, <1>21 DEF Hash!Link, HashShape, HashLocal
  <2> QED BY <1>6, <1>7, <1>8, <1>9, <2>1 DEF Waiting, Making
<1>22. CASE Hash!Insert(t)
  <2>1. /\ UNCHANGED implicitProducerHashCount /\ hash_pc[t] = "insert"
        /\ hash_pc'[t] = "insert" \/ (hash_pc'[t] = "idle" /\ ~Unregistered(t)')
        /\ hash_local'[t].newCount \in {0, l.newCount}
    <3>1. UNCHANGED implicitProducerHashCount /\ hash_pc[t] = "insert" /\ InsertMoved(t)
      BY <1>22, InsertMoves DEF Hash!Insert
    <3>2. \A label, x : Moved(t, label, x) => hash_pc'[t] = label /\ hash_local'[t] = x
      BY <1>0 DEF HashShape, Moved
    <3>3. [l EXCEPT !.index = @ + 1].newCount = l.newCount /\ Hash!Fresh.newCount = 0
      BY <1>0 DEF HashLocal, Hash!Fresh
    <3>4. ASSUME NEW h \in 1 .. Len(tables), NEW i \in DOMAIN tables[h], Inserted(t, h, i),
                 [key |-> t, value |-> l.producer] \in HashEntry
          PROVE  ~Unregistered(t)'
      <4>1. Filled(h, i, [key |-> t, value |-> l.producer])
        BY <1>0, <3>4, FilledIs DEF Inserted
      <4>2. h \in 1 .. Len(tables') /\ i \in DOMAIN tables'[h] /\ tables'[h][i].key = t
        BY <4>1 DEF Filled
      <4> QED BY <4>2 DEF Unregistered, InTable
    <3> HIDE DEF l
    <3> QED BY <3>1, <3>2, <3>3, <3>4 DEF InsertMoved, Inserted, l
  <2> QED BY <1>6, <1>7, <1>8, <2>1 DEF Waiting, Making
<1> QED BY <1>11, <1>12, <1>13, <1>14, <1>15, <1>16, <1>17, <1>18, <1>19, <1>20, <1>21, <1>22 DEF Hash!Go

-----------------------------------------------------------------------------
(* The hash of producers: room in its tables.                              *)

ThreeQuarters(h) == Hash!Capacity(h) \div 2 + Hash!Capacity(h) \div 4

\* The threads that are in a table up to h or may insert into it, and those that wait
\* and were counted up to n.
InWay(t, h, n) ==
    \/ \E g \in 1 .. h : InTable(t, g)
    \/ hash_pc[t] \in Making /\ hash_local[t].mainHash <= h
    \/ hash_pc[t] \in Waiting /\ hash_local[t].newCount <= n

Wanting(h, n) == {t \in Threads : InWay(t, h, n)}

HashRoom ==
    \A h \in 1 .. Len(tables), n \in Nat : n + 1 >= ThreeQuarters(h) => Cardinality(Wanting(h, n)) <= n

LEMMA RoomInit == ASSUME Hash!Init PROVE HashRoom
<1>1. \A h \in 1 .. Len(tables) : \A i \in DOMAIN tables[h] : tables[h][i].key = Null
  BY FreeInit
<1>2. \A t \in Threads : hash_pc[t] = "idle" /\ t # Null
  BY HashConstants DEF Hash!Init
<1>3. ASSUME NEW h \in 1 .. Len(tables), NEW n \in Nat PROVE Wanting(h, n) = {}
  <2>1. ASSUME NEW t \in Threads, NEW g \in 1 .. h, InTable(t, g) PROVE FALSE
    <3>1. g \in 1 .. Len(tables)
      BY <1>3 DEF Hash!Init
    <3> QED BY <1>1, <1>2, <2>1, <3>1 DEF InTable
  <2> QED BY <1>2, <2>1 DEF Wanting, InWay, Making, Waiting
<1> QED BY <1>3, FS_EmptySet DEF HashRoom

\* Three quarters of a larger table are more.
LEMMA LargerTable ==
    ASSUME HashShape, NEW g \in 1 .. Len(tables), NEW h \in 1 .. Len(tables), g <= h
    PROVE  /\ ThreeQuarters(g) \in Nat /\ ThreeQuarters(h) \in Nat /\ ThreeQuarters(g) <= ThreeQuarters(h)
<1>1. /\ Hash!Capacity(g) \in Nat /\ Hash!Capacity(h) \in Nat /\ Hash!Capacity(g) <= Hash!Capacity(h)
  BY Tables DEF HashShape, Ascending
<1>2. \A c, d \in Nat : c <= d => c \div 2 + c \div 4 \in Nat /\ d \div 2 + d \div 4 \in Nat
                                /\ c \div 2 + c \div 4 <= d \div 2 + d \div 4
  OBVIOUS
<1> QED BY <1>1, <1>2 DEF ThreeQuarters

\* The table that h is a copy of, before a step that may add h.
Before(h) == IF h <= Len(tables) THEN h ELSE Len(tables)

\* No table is let fuller by a step, except by a count, which is one of all that are counted.
LEMMA RoomMove ==
    ASSUME HashTypes, HashTypes', HashCounts', HashRoom, NEW t \in Threads, TablesKeep(t), Others(t),
           \A h \in 1 .. Len(tables'), n \in Nat :
                n < implicitProducerHashCount' /\ n + 1 >= ThreeQuarters(h)' /\ InWay(t, h, n)' => InWay(t, Before(h), n)
    PROVE  HashRoom'
<1>0. HashShape /\ HashShape' /\ Len(tables) \in Nat /\ Len(tables) >= 1 /\ Len(tables') \in Nat
  BY DEF HashTypes, HashShape
<1> SUFFICES ASSUME NEW h \in 1 .. Len(tables'), NEW n \in Nat, n + 1 >= ThreeQuarters(h)'
             PROVE  Cardinality(Wanting(h, n)') <= n
  BY DEF HashRoom
<1>1. CASE n < implicitProducerHashCount'
  <2>1. PICK g \in 1 .. Len(tables) : g = Before(h)
    BY <1>0 DEF Before
  <2>2. g <= h /\ g \in 1 .. Len(tables')
    BY <1>0, <2>1, KeepAt DEF Before
  <2>3. ThreeQuarters(g)' = ThreeQuarters(g) /\ ThreeQuarters(g) \in Nat
    BY <1>0, KeepAt, LargerTable DEF ThreeQuarters
  <2>4. ThreeQuarters(g)' <= ThreeQuarters(h)' /\ ThreeQuarters(h)' \in Nat
    <3>1. ASSUME NEW x \in 1 .. Len(tables') PROVE Hash!Capacity(x)' \in Nat
      <4>1. tables'[x] \in HashTable
        BY <1>0 DEF HashShape
      <4> QED BY <4>1, TableIs, HashCardinality DEF Hash!Capacity
    <3>2. Hash!Capacity(g)' <= Hash!Capacity(h)'
      BY <1>0, <2>2 DEF HashShape, Ascending
    <3>3. Hash!Capacity(g)' \in Nat /\ Hash!Capacity(h)' \in Nat
      BY <2>2, <3>1
    <3>4. \A c, d \in Nat : c <= d => /\ d \div 2 + d \div 4 \in Nat
                                      /\ c \div 2 + c \div 4 <= d \div 2 + d \div 4
      OBVIOUS
    <3> QED BY <3>2, <3>3, <3>4 DEF ThreeQuarters
  <2>5. Cardinality(Wanting(g, n)) <= n
    BY <2>3, <2>4 DEF HashRoom
  <2>6. Wanting(h, n)' \subseteq Wanting(g, n)
    <3> SUFFICES ASSUME NEW u \in Threads, InWay(u, h, n)' PROVE InWay(u, g, n)
      BY DEF Wanting
    <3>1. CASE u = t
      BY <1>1, <2>1, <3>1
    <3>2. CASE u # t
      <4>1. ASSUME NEW x \in 1 .. h, InTable(u, x)' PROVE \E y \in 1 .. g : InTable(u, y)
        <5>1. x \in 1 .. Len(tables')
          BY <1>0
        <5>2. x \in 1 .. Len(tables) /\ InTable(u, x)
          BY <1>0, <3>2, <4>1, <5>1, KeepIn
        <5>3. x \in 1 .. g
          BY <1>0, <2>1, <5>2 DEF Before
        <5> QED BY <5>2, <5>3
      <4>2. hash_pc'[u] = hash_pc[u] /\ hash_local'[u] = hash_local[u]
        BY <3>2 DEF Others
      <4>3. hash_pc[u] \in Making /\ hash_local[u].mainHash <= h => hash_local[u].mainHash <= g
        <5>1. hash_pc[u] \in Making => hash_local[u].mainHash \in 1 .. Len(tables)
          BY DEF HashTypes, AtTable, Making
        <5> QED BY <1>0, <2>1, <5>1 DEF Before
      <4> QED BY <4>1, <4>2, <4>3 DEF InWay
    <3> QED BY <3>1, <3>2
  <2>7. IsFiniteSet(Wanting(g, n))
    <3>1. Wanting(g, n) \in SUBSET Threads
      BY DEF Wanting
    <3> QED BY <3>1, HashConstants, FS_Subset
  <2>8. Cardinality(Wanting(h, n)') <= Cardinality(Wanting(g, n)) /\ Cardinality(Wanting(g, n)) \in Nat
        /\ Cardinality(Wanting(h, n)') \in Nat
    <3>1. Wanting(h, n)' \in SUBSET Wanting(g, n)
      BY <2>6
    <3> QED BY <2>7, <3>1, FS_Subset, FS_CardinalityType
  <2> QED BY <2>5, <2>8
<1>2. CASE ~(n < implicitProducerHashCount')
  <2>1. Wanting(h, n)' \in SUBSET Counted'
    BY <1>0 DEF Wanting, InWay, Counted, Unregistered
  <2>2. IsFiniteSet(Counted')
    <3>1. Counted' \in SUBSET Threads
      BY DEF Counted
    <3> QED BY <3>1, HashConstants, FS_Subset
  <2>3. Cardinality(Wanting(h, n)') <= Cardinality(Counted') /\ Cardinality(Counted') \in Nat
        /\ Cardinality(Wanting(h, n)') \in Nat
    BY <2>1, <2>2, FS_Subset, FS_CardinalityType
  <2>4. Cardinality(Counted') = implicitProducerHashCount'
    BY DEF HashCounts
  <2> QED BY <1>2, <2>3, <2>4
<1> QED BY <1>1, <1>2

LEMMA RoomStep ==
    ASSUME HashTypes, HashTypes', HashProbing, HashProbing', HashCounts, HashCounts', HashRoom, NEW t \in Threads,
           Hash!Begin(t) \/ Hash!Go(t)
    PROVE  HashRoom'
<1> DEFINE l == hash_local[t]
<1>0. /\ HashShape /\ TablesKeep(t) /\ Others(t) /\ Probing(t) /\ Probing(t)' /\ AtTable(t)
      /\ l \in HashLocal /\ l.newCount \in Int /\ l.mainHash \in Nat /\ l.hash \in Nat /\ l.index \in Nat
      /\ Len(tables) \in Nat /\ hash_pc \in [Threads -> Labels] /\ hash_local \in [Threads -> HashLocal]
  <2>1. HashShape /\ Probing(t) /\ Probing(t)' /\ AtTable(t) /\ hash_local[t].newCount <= Cardinality(Threads)
    BY DEF HashTypes, HashProbing, HashCounts
  <2>2. l \in HashLocal
    BY <2>1 DEF HashShape
  <2> QED BY <2>1, <2>2, StepKeeps, OnlyOneMoves DEF HashLocal, HashShape
<1>1. ASSUME \A h \in 1 .. Len(tables'), n \in Nat :
                n < implicitProducerHashCount' /\ n + 1 >= ThreeQuarters(h)' /\ InWay(t, h, n)' => InWay(t, Before(h), n)
      PROVE  HashRoom'
  BY <1>0, <1>1, RoomMove
\* Steps that leave the tables.
<1>2. ASSUME UNCHANGED tables,
             \A h \in 1 .. Len(tables), n \in Nat :
                n < implicitProducerHashCount' /\ n + 1 >= ThreeQuarters(h)
                /\ (\/ hash_pc'[t] \in Making /\ hash_local'[t].mainHash <= h
                    \/ hash_pc'[t] \in Waiting /\ hash_local'[t].newCount <= n)
                => InWay(t, h, n)
      PROVE  HashRoom'
  <2>1. \A h : InTable(t, h)' = InTable(t, h) /\ ThreeQuarters(h)' = ThreeQuarters(h)
    BY <1>2 DEF InTable, ThreeQuarters, Hash!Capacity
  <2>2. \A h \in 1 .. Len(tables) : Before(h) = h
    BY <1>0 DEF Before
  <2>3. ASSUME NEW h \in 1 .. Len(tables'), NEW n \in Nat,
               n < implicitProducerHashCount', n + 1 >= ThreeQuarters(h)', InWay(t, h, n)'
        PROVE  InWay(t, Before(h), n)
    <3>1. h \in 1 .. Len(tables) /\ n + 1 >= ThreeQuarters(h) /\ Before(h) = h
      BY <1>2, <2>1, <2>2, <2>3
    <3>2. CASE \E g \in 1 .. h : InTable(t, g)'
      BY <2>1, <3>1, <3>2 DEF InWay
    <3>3. CASE \/ hash_pc'[t] \in Making /\ hash_local'[t].mainHash <= h
               \/ hash_pc'[t] \in Waiting /\ hash_local'[t].newCount <= n
      BY <1>2, <2>3, <3>1, <3>3
    <3> QED BY <2>3, <3>2, <3>3 DEF InWay
  <2> QED BY <1>1, <2>3
<1>3. Making \cap Waiting = {} /\ \A x \in Making \union Waiting : x \notin {"idle", "find", "count", "failed"}
  BY DEF Making, Waiting
<1> USE DEF Hash!Goto, Hash!Set, Hash!shared
<1>4. CASE Hash!Begin(t)
  <2>1. UNCHANGED tables /\ hash_pc'[t] = "find"
    BY <1>0, <1>4 DEF Hash!Begin
  <2> QED BY <1>2, <1>3, <2>1
<1>5. CASE Hash!Find(t)
  <2>1. FindMoved(t) /\ hash_pc[t] = "find" /\ UNCHANGED tables
    BY <1>5, FindMoves DEF Hash!Find
  <2>2. \A label, x : Moved(t, label, x) => hash_pc'[t] = label /\ hash_local'[t] = x
    BY <1>0 DEF Moved
  <2> DEFINE entry == At(l.hash, l.index)
  <2>3. CASE entry.key = t /\ Moved(t, "insert", [l EXCEPT !.producer = entry.value, !.index = HashOf[t]])
    <3>1. hash_local'[t].mainHash = l.mainHash /\ hash_pc'[t] = "insert"
      BY <1>0, <2>2, <2>3 DEF HashLocal
    <3>2. l.hash \in 1 .. l.mainHash /\ l.hash \in 1 .. Len(tables)
      BY <1>0, <2>1 DEF AtTable
    <3>3. InTable(t, l.hash)
      <4>1. l.index % Hash!Capacity(l.hash) \in DOMAIN tables[l.hash]
        BY <1>0, <3>2, Tables
      <4> QED BY <2>3, <4>1 DEF InTable, At
    <3>4. ASSUME NEW h \in 1 .. Len(tables), l.mainHash <= h PROVE l.hash \in 1 .. h
      BY <1>0, <3>2, <3>4
    <3> QED BY <1>2, <2>1, <3>1, <3>3, <3>4 DEF InWay, Making, Waiting
  <2>4. CASE hash_pc'[t] \in {"idle", "find", "count"}
    BY <1>2, <1>3, <2>1, <2>4
  <2> HIDE DEF l, entry
  <2> QED BY <2>1, <2>2, <2>3, <2>4 DEF FindMoved, l, entry
<1>6. CASE Hash!Count(t)
  <2>1. /\ UNCHANGED tables /\ hash_pc'[t] = "resize" /\ hash_local'[t].newCount = implicitProducerHashCount'
    BY <1>0, <1>6 DEF Hash!Count, HashLocal
  <2>2. implicitProducerHashCount' \in Int
    BY DEF HashTypes, HashShape
  <2> QED BY <1>2, <2>1, <2>2 DEF Making, Waiting
<1>7. CASE Hash!Resize(t)
  <2>1. /\ UNCHANGED tables /\ hash_pc[t] = "resize"
        /\ hash_pc'[t] \in {"grow", "clear", "fit"} /\ hash_local'[t].newCount = l.newCount
    BY <1>0, <1>7 DEF Hash!Resize, HashLocal
  <2> QED BY <1>2, <2>1 DEF Making, Waiting, InWay
<1>8. CASE Hash!Grow(t)
  <2>1. hash_pc[t] = "grow" /\ hash_pc'[t] = "clear" /\ hash_local'[t].newCount = l.newCount
    BY <1>0, <1>8 DEF Hash!Grow, HashLocal
  <2>2. \A h \in 1 .. Len(tables') : ~InTable(t, h)'
    BY <1>0, <2>1 DEF Probing, Unregistered
  <2>3. ASSUME NEW h \in 1 .. Len(tables'), NEW n \in Nat, InWay(t, h, n)' PROVE InWay(t, Before(h), n)
    <3>1. ~\E g \in 1 .. h : InTable(t, g)'
      <4>1. Len(tables') \in Nat
        BY DEF HashTypes, HashShape
      <4> QED BY <2>2, <4>1
    <3>2. hash_local'[t].newCount <= n
      BY <2>1, <2>3, <3>1 DEF InWay, Making
    <3> QED BY <2>1, <3>2 DEF InWay, Waiting
  <2> QED BY <1>1, <2>3
<1>9. CASE Hash!GrowFails(t)
  <2>1. UNCHANGED tables /\ hash_pc'[t] = "failed"
    BY <1>0, <1>9 DEF Hash!GrowFails
  <2> QED BY <1>2, <1>3, <2>1
<1>10. CASE Hash!Clear(t)
  <2>1. /\ UNCHANGED tables
        /\ \/ hash_pc[t] = "clear" /\ hash_pc'[t] = "fit" /\ hash_local'[t].newCount = l.newCount
           \/ hash_pc'[t] = "idle"
    BY <1>0, <1>10 DEF Hash!Clear, Hash!ReturnNull, HashLocal
  <2> QED BY <1>2, <1>3, <2>1 DEF Making, Waiting, InWay
<1>11. CASE Hash!Fit(t)
  <2>1. /\ UNCHANGED tables /\ hash_pc[t] = "fit" /\ hash_local'[t].newCount = l.newCount
        /\ \/ /\ hash_pc'[t] = "create" /\ hash_local'[t].mainHash = l.mainHash
              /\ l.newCount < ThreeQuarters(l.mainHash)
           \/ hash_pc'[t] = "resize"
    BY <1>0, <1>11 DEF Hash!Fit, HashLocal, ThreeQuarters
  <2>2. l.mainHash \in 1 .. Len(tables)
    BY <1>0, <2>1 DEF AtTable
  <2>3. ASSUME NEW h \in 1 .. Len(tables), NEW n \in Nat, n + 1 >= ThreeQuarters(h),
               l.newCount < ThreeQuarters(l.mainHash), l.mainHash <= h
        PROVE  l.newCount <= n
    <3>1. ThreeQuarters(l.mainHash) \in Nat /\ ThreeQuarters(h) \in Nat /\ ThreeQuarters(l.mainHash) <= ThreeQuarters(h)
      BY <1>0, <2>2, <2>3, LargerTable
    <3> QED BY <1>0, <2>3, <3>1
  <2> HIDE DEF l
  <2>4. CASE hash_pc'[t] = "resize"
    BY <1>2, <2>1, <2>4 DEF Making, Waiting, InWay, l
  <2>5. CASE /\ hash_pc'[t] = "create" /\ hash_local'[t].mainHash = l.mainHash
             /\ l.newCount < ThreeQuarters(l.mainHash)
    BY <1>2, <2>1, <2>3, <2>5 DEF Making, Waiting, InWay, l
  <2> QED BY <2>1, <2>4, <2>5
<1>12. CASE Hash!Create(t)
  <2>1. UNCHANGED tables /\ hash_pc[t] = "create" /\ hash_pc'[t] = "link" /\ hash_local'[t].mainHash = l.mainHash
    BY <1>0, <1>12 DEF Hash!Create, HashLocal
  <2> QED BY <1>2, <2>1 DEF Making, Waiting, InWay
<1>13. CASE Hash!CreateFails(t)
  <2>1. UNCHANGED tables /\ hash_pc'[t] = "idle"
    BY <1>0, <1>13 DEF Hash!CreateFails, Hash!ReturnNull
  <2> QED BY <1>2, <1>3, <2>1
<1>14. CASE Hash!Link(t)
  <2>1. /\ UNCHANGED tables /\ hash_pc[t] = "link" /\ hash_pc'[t] \in {"link", "insert"}
        /\ hash_local'[t].mainHash = l.mainHash
    BY <1>0, <1>14 DEF Hash!Link, HashLocal
  <2> QED BY <1>2, <2>1 DEF Making, Waiting, InWay
<1>15. CASE Hash!Insert(t)
  <2>1. InsertMoved(t) /\ hash_pc[t] = "insert"
    BY <1>15, InsertMoves DEF Hash!Insert
  <2>2. \A label, x : Moved(t, label, x) => hash_pc'[t] = label /\ hash_local'[t] = x
    BY <1>0 DEF Moved
  <2>3. CASE UNCHANGED tables /\ Moved(t, "insert", [l EXCEPT !.index = @ + 1])
    <3>1. hash_local'[t].mainHash = l.mainHash /\ hash_pc'[t] = "insert"
      BY <1>0, <2>2, <2>3 DEF HashLocal
    <3> QED BY <1>2, <2>1, <2>3, <3>1 DEF Making, Waiting, InWay
  <2>4. ASSUME NEW m \in 1 .. Len(tables), NEW i \in DOMAIN tables[m], Inserted(t, m, i),
               [key |-> t, value |-> l.producer] \in HashEntry
        PROVE  HashRoom'
    <3>1. Filled(m, i, [key |-> t, value |-> l.producer]) /\ hash_pc'[t] = "idle" /\ m = l.mainHash
      BY <1>0, <2>2, <2>4, FilledIs DEF Inserted
    <3>2. ASSUME NEW h \in 1 .. Len(tables'), NEW n \in Nat, InWay(t, h, n)' PROVE InWay(t, Before(h), n)
      <4>1. PICK g \in 1 .. h : InTable(t, g)'
        BY <1>3, <3>1, <3>2 DEF InWay
      <4>2. h \in 1 .. Len(tables) /\ g \in 1 .. Len(tables) /\ Before(h) = h
        BY <1>0, <3>1 DEF Filled, Before
      <4>3. CASE g = m
        BY <1>0, <2>1, <3>1, <4>1, <4>2, <4>3 DEF InWay, Making
      <4>4. CASE g # m
        <5>1. InTable(t, g)
          BY <3>1, <4>1, <4>2, <4>4 DEF InTable, Filled
        <5> QED BY <4>1, <4>2, <5>1 DEF InWay
      <4> QED BY <4>3, <4>4
    <3> QED BY <1>1, <3>2
  <2> QED BY <2>1, <2>3, <2>4 DEF InsertMoved
<1> QED BY <1>4, <1>5, <1>6, <1>7, <1>8, <1>9, <1>10, <1>11, <1>12, <1>13, <1>14, <1>15 DEF Hash!Go

\* A table that is full holds more threads than were let in.
LEMMA RoomIs == ASSUME HashTypes, HashProbing, HashRoom PROVE Hash!HasRoom
<1>0. HashShape /\ \A t \in Threads : t # Null
  BY HashConstants DEF HashTypes
<1> SUFFICES ASSUME NEW h \in 1 .. Len(tables), ~\E i \in DOMAIN tables[h] : tables[h][i].key = Null
             PROVE  FALSE
  BY <1>0 DEF Hash!HasRoom, HashShape
<1> DEFINE c == Hash!Capacity(h)
           S == DOMAIN tables[h]
           n == ThreeQuarters(h) - 1
           T == Wanting(h, n)
           f == [i \in S |-> tables[h][i].key]
<1>1. c \in Nat /\ c >= 2 /\ S = 0 .. c - 1 /\ \A i \in S : tables[h][i] \in HashEntry
  BY <1>0, Tables
<1>2. IsFiniteSet(S) /\ Cardinality(S) = c
  BY <1>1, HashCardinality, FS_Interval DEF Hash!Capacity
<1>3. n \in Nat /\ n < c /\ n + 1 >= ThreeQuarters(h)
  <2>1. \A d \in Nat : d >= 2 => d \div 2 + d \div 4 - 1 \in Nat /\ d \div 2 + d \div 4 - 1 < d
    OBVIOUS
  <2> HIDE DEF c
  <2>2. ThreeQuarters(h) = c \div 2 + c \div 4
    BY DEF ThreeQuarters, c
  <2> QED BY <1>1, <2>1, <2>2
<1>4. Cardinality(T) <= n
  BY <1>3 DEF HashRoom
<1>5. IsFiniteSet(T) /\ Cardinality(T) \in Nat
  <2>1. T \in SUBSET Threads
    BY DEF Wanting
  <2> QED BY <2>1, HashConstants, FS_Subset, FS_CardinalityType
<1>6. \A i \in S : tables[h][i].key \in T
  <2> SUFFICES ASSUME NEW i \in S PROVE tables[h][i].key \in T
    OBVIOUS
  <2>1. tables[h][i].key \in Threads
    BY <1>1 DEF HashEntry
  <2>2. InTable(tables[h][i].key, h)
    BY DEF InTable
  <2>3. h \in 1 .. h
    OBVIOUS
  <2> QED BY <2>1, <2>2, <2>3 DEF Wanting, InWay
<1>7. f \in [S -> T]
  BY <1>6
<1>8. Cardinality(T) < Cardinality(S)
  BY <1>1, <1>2, <1>3, <1>4, <1>5
<1> HIDE DEF T, f
<1>9. \E i, j \in S : i # j /\ f[i] = f[j]
  BY <1>2, <1>5, <1>7, <1>8, FS_PigeonHole
<1> QED BY <1>9 DEF HashProbing, KeysOnce, f

-----------------------------------------------------------------------------
(* The hash of producers: whose they are.                                  *)

Entry(t, p) ==
    \E h \in 1 .. Len(tables) : \E i \in DOMAIN tables[h] : tables[h][i].key = t /\ tables[h][i].value = p

\* The producer is of t: in a table, or on its way into one.
Owns(t, p) == Entry(t, p) \/ (hash_pc[t] \in {"link", "insert"} /\ hash_local[t].producer = p)

HashOwns ==
    /\ \A t \in Threads : \A p : Owns(t, p) => p \in 1 .. Len(producers)
    /\ \A t \in Threads : \A p, q : Owns(t, p) /\ Owns(t, q) => p = q
    /\ \A t, u \in Threads : \A p : Owns(t, p) /\ Owns(u, p) => t = u
    /\ \A t \in Threads : \A p \in returned[t] : Entry(t, p)

LEMMA OwnsInit == ASSUME Hash!Init PROVE HashOwns /\ \A t \in Threads : \A p : ~Entry(t, p)
<1>1. \A h \in 1 .. Len(tables) : \A i \in DOMAIN tables[h] : tables[h][i].key = Null
  BY FreeInit
<1>2. \A t \in Threads : hash_pc[t] = "idle" /\ t # Null /\ returned[t] = {}
  BY HashConstants DEF Hash!Init
<1>3. \A t \in Threads : \A p : ~Entry(t, p)
  BY <1>1, <1>2 DEF Entry
<1> QED BY <1>2, <1>3 DEF HashOwns, Owns

\* What a thread that moves does to the entries.
LEMMA KeepEntries ==
    ASSUME HashShape, NEW t \in Threads, TablesKeep(t), NEW u \in Threads, NEW p
    PROVE  /\ Entry(u, p) => Entry(u, p)'
           /\ u # t /\ Entry(u, p)' => Entry(u, p)
<1>1. ASSUME Entry(u, p) PROVE Entry(u, p)'
  <2>1. PICK h \in 1 .. Len(tables) : \E i \in DOMAIN tables[h] : tables[h][i].key = u /\ tables[h][i].value = p
    BY <1>1 DEF Entry
  <2>4. PICK i \in DOMAIN tables[h] : tables[h][i].key = u /\ tables[h][i].value = p
    BY <2>1
  <2>2. u # Null /\ h \in 1 .. Len(tables')
    BY HashConstants DEF HashShape, TablesKeep
  <2>3. tables'[h][i] = tables[h][i] /\ i \in DOMAIN tables'[h]
    BY <2>2, <2>4 DEF TablesKeep
  <2> QED BY <2>2, <2>3, <2>4 DEF Entry
<1>2. ASSUME u # t, Entry(u, p)' PROVE Entry(u, p)
  <2>1. PICK h \in 1 .. Len(tables') : \E i \in DOMAIN tables'[h] : tables'[h][i].key = u /\ tables'[h][i].value = p
    BY <1>2 DEF Entry
  <2>5. PICK i \in DOMAIN tables'[h] : tables'[h][i].key = u /\ tables'[h][i].value = p
    BY <2>1
  <2>2. u # Null
    BY HashConstants
  <2>3. h \in 1 .. Len(tables)
    BY <2>2, <2>5 DEF HashShape, TablesKeep
  <2>4. tables'[h][i] = tables[h][i] /\ i \in DOMAIN tables[h]
    BY <1>2, <2>3, <2>5 DEF TablesKeep
  <2> QED BY <2>3, <2>4, <2>5 DEF Entry
<1> QED BY <1>1, <1>2

LEMMA OnlyOneReturns ==
    ASSUME HashShape, NEW t \in Threads, Hash!Begin(t) \/ Hash!Go(t)
    PROVE  \A u \in Threads : u # t => returned'[u] = returned[u]
  BY DEF HashShape, Hash!Go, Hash!Begin, Hash!Find, Hash!Count, Hash!Resize, Hash!Grow, Hash!GrowFails,
         Hash!Clear, Hash!Fit, Hash!Create, Hash!CreateFails, Hash!Link, Hash!Insert,
         Hash!Goto, Hash!Set, Hash!Return, Hash!ReturnNull

\* What a step does to a thread's producer: nothing, or it makes one for a thread that has none.
OwnMoves(t) ==
    /\ \/ Len(producers') = Len(producers) /\ \A p : Owns(t, p)' => Owns(t, p)
       \/ /\ Len(producers') = Len(producers) + 1 /\ \A p : ~Owns(t, p)
          /\ \A p : Owns(t, p)' => p = Len(producers) + 1
    /\ \A p \in returned'[t] : Entry(t, p)'

\* A step of one thread keeps whose the producers are.
LEMMA OwnsMove ==
    ASSUME HashShape, HashOwns, NEW t \in Threads, TablesKeep(t), Others(t), OwnMoves(t),
           \A u \in Threads : u # t => returned'[u] = returned[u]
    PROVE  HashOwns'
<1>0. Len(producers) \in Nat
  BY DEF HashShape
<1>1. ASSUME NEW u \in Threads, NEW p, Owns(u, p)'
      PROVE  \/ Owns(u, p)
             \/ u = t /\ p = Len(producers) + 1 /\ Len(producers') = Len(producers) + 1 /\ \A q : ~Owns(t, q)
  <2>1. CASE u = t
    BY <1>1, <2>1 DEF OwnMoves
  <2>2. CASE u # t
    BY <1>1, <2>2, KeepEntries DEF Owns, Others
  <2> QED BY <2>1, <2>2
<1>2. \A u \in Threads : \A p : Owns(u, p) => p \in 1 .. Len(producers)
  BY DEF HashOwns
<1>3. \A u \in Threads : \A p : Owns(u, p)' => p \in 1 .. Len(producers')
  <2>1. Len(producers') \in Nat /\ Len(producers') >= Len(producers)
    BY <1>0 DEF OwnMoves
  <2>2. 1 .. Len(producers) \subseteq 1 .. Len(producers')
    BY <1>0, <2>1
  <2>3. Len(producers') = Len(producers) + 1 => Len(producers) + 1 \in 1 .. Len(producers')
    BY <1>0
  <2> QED BY <1>1, <1>2, <2>2, <2>3
<1>4. Len(producers) + 1 \notin 1 .. Len(producers)
  BY <1>0
<1>5. ASSUME NEW u \in Threads, NEW p, NEW q, Owns(u, p)', Owns(u, q)' PROVE p = q
  BY <1>1, <1>5 DEF HashOwns
<1>6. ASSUME NEW u \in Threads, NEW v \in Threads, NEW p, Owns(u, p)', Owns(v, p)' PROVE u = v
  BY <1>1, <1>2, <1>4, <1>6 DEF HashOwns
<1>7. ASSUME NEW u \in Threads, NEW p \in returned'[u] PROVE Entry(u, p)'
  <2>1. CASE u = t
    BY <1>7, <2>1 DEF OwnMoves
  <2>2. CASE u # t
    BY <1>7, <2>2, KeepEntries DEF HashOwns
  <2> QED BY <2>1, <2>2
<1> QED BY <1>3, <1>5, <1>6, <1>7 DEF HashOwns

\* The producer is in a table, or made and on the list.
Settled(t, p) == Entry(t, p) \/ (hash_pc[t] = "insert" /\ hash_local[t].producer = p)

\* Only Link settles a producer; a thread is given what is then in a table.
LEMMA SettledStep ==
    ASSUME HashTypes, HashTypes', HashProbing, HashProbing', HashCounts, NEW t \in Threads,
           Hash!Begin(t) \/ Hash!Go(t)
    PROVE  /\ ~Hash!Link(t) => \A p : Settled(t, p)' => Settled(t, p)
           /\ \A p \in returned'[t] : p \in returned[t] \/ Entry(t, p)'
<1> DEFINE l == hash_local[t]
<1>0. /\ HashShape /\ TablesKeep(t) /\ Probing(t) /\ Probing(t)' /\ AtTable(t)
      /\ l \in HashLocal /\ l.mainHash \in Nat /\ l.hash \in Nat /\ l.index \in Nat
      /\ Len(tables) \in Nat /\ hash_pc \in [Threads -> Labels] /\ hash_local \in [Threads -> HashLocal]
      /\ returned \in [Threads -> SUBSET (Nat \union {Null})]
  <2>1. HashShape /\ Probing(t) /\ Probing(t)' /\ AtTable(t) /\ hash_local[t].newCount <= Cardinality(Threads)
    BY DEF HashTypes, HashProbing, HashCounts
  <2>2. l \in HashLocal /\ Len(tables) \in Nat /\ hash_pc \in [Threads -> Labels]
        /\ hash_local \in [Threads -> HashLocal] /\ returned \in [Threads -> SUBSET (Nat \union {Null})]
    BY <2>1 DEF HashShape
  <2> QED BY <2>1, <2>2, StepKeeps DEF HashLocal
<1> USE DEF Hash!Goto, Hash!Set, Hash!shared
<1>1. UNCHANGED tables => \A p : Entry(t, p)' => Settled(t, p)
  BY DEF Entry, Settled
<1>2. CASE Hash!Find(t)
  <2>1. FindMoved(t) /\ hash_pc[t] = "find" /\ UNCHANGED tables
    BY <1>2, FindMoves DEF Hash!Find
  <2>2. \A label, x : Moved(t, label, x) => hash_pc'[t] = label /\ hash_local'[t] = x
    BY <1>0 DEF Moved
  <2> DEFINE entry == At(l.hash, l.index)
  <2>3. entry.key = t => Entry(t, entry.value)
    <3>1. l.hash \in 1 .. Len(tables)
      BY <1>0, <2>1 DEF AtTable
    <3>2. l.index % Hash!Capacity(l.hash) \in DOMAIN tables[l.hash]
      BY <1>0, <3>1, Tables
    <3> QED BY <3>1, <3>2 DEF Entry, At
  <2>4. CASE entry.key = t /\ UNCHANGED returned
             /\ Moved(t, "insert", [l EXCEPT !.producer = entry.value, !.index = HashOf[t]])
    <3>1. hash_local'[t].producer = entry.value /\ hash_pc'[t] = "insert"
      BY <1>0, <2>2, <2>4 DEF HashLocal
    <3>2. Settled(t, entry.value)
      BY <2>3, <2>4 DEF Settled
    <3> HIDE DEF entry
    <3> QED BY <1>1, <2>1, <2>4, <3>1, <3>2 DEF Settled
  <2>5. CASE entry.key = t /\ hash_pc'[t] = "idle" /\ returned' = [returned EXCEPT ![t] = @ \union {entry.value}]
    <3>1. PICK p : p = entry.value
      OBVIOUS
    <3>2. Entry(t, p) /\ returned'[t] = returned[t] \union {p}
      BY <1>0, <2>3, <2>5, <3>1
    <3>3. Entry(t, p)'
      BY <1>0, <3>2, KeepEntries
    <3> QED BY <1>1, <2>1, <2>5, <3>2, <3>3 DEF Settled
  <2>6. CASE hash_pc'[t] \in {"find", "count"} /\ UNCHANGED returned
    BY <1>1, <2>1, <2>6 DEF Settled
  <2> HIDE DEF l, entry
  <2> QED BY <2>1, <2>2, <2>4, <2>5, <2>6 DEF FindMoved, l, entry
<1>3. CASE Hash!Insert(t)
  <2>1. InsertMoved(t) /\ hash_pc[t] = "insert"
    BY <1>3, InsertMoves DEF Hash!Insert
  <2>2. \A label, x : Moved(t, label, x) => hash_pc'[t] = label /\ hash_local'[t] = x
    BY <1>0 DEF Moved
  <2>3. CASE UNCHANGED <<tables, returned>> /\ Moved(t, "insert", [l EXCEPT !.index = @ + 1])
    <3>1. hash_local'[t].producer = l.producer /\ hash_pc'[t] = "insert"
      BY <1>0, <2>2, <2>3 DEF HashLocal
    <3> QED BY <1>1, <2>1, <2>3, <3>1 DEF Settled
  <2>4. ASSUME NEW m \in 1 .. Len(tables), NEW i \in DOMAIN tables[m], Inserted(t, m, i),
               [key |-> t, value |-> l.producer] \in HashEntry
        PROVE  (\A p : Settled(t, p)' => Settled(t, p)) /\ \A p \in returned'[t] : p \in returned[t] \/ Entry(t, p)'
    <3>1. Filled(m, i, [key |-> t, value |-> l.producer]) /\ hash_pc'[t] = "idle"
          /\ returned' = [returned EXCEPT ![t] = @ \union {l.producer}]
      BY <1>0, <2>2, <2>4, FilledIs DEF Inserted
    <3>2. PICK p : p = l.producer
      OBVIOUS
    <3>3. Settled(t, p) /\ returned'[t] = returned[t] \union {p}
      BY <1>0, <2>1, <3>1, <3>2 DEF Settled
    <3>4. Entry(t, p)'
      BY <3>1, <3>2 DEF Filled, Entry
    <3>5. ASSUME NEW q, Entry(t, q)' PROVE Settled(t, q)
      <4>1. PICK g \in 1 .. Len(tables) : \E j \in DOMAIN tables[g] : tables'[g][j].key = t /\ tables'[g][j].value = q
        BY <3>1, <3>5 DEF Filled, Entry
      <4>2. PICK j \in DOMAIN tables[g] : tables'[g][j].key = t /\ tables'[g][j].value = q
        BY <4>1
      <4>3. CASE g = m /\ j = i
        BY <3>1, <3>2, <3>3, <4>2, <4>3 DEF Filled
      <4>4. CASE ~(g = m /\ j = i)
        BY <3>1, <4>2, <4>4 DEF Filled, Entry, Settled
      <4> QED BY <4>3, <4>4
    <3> QED BY <3>1, <3>3, <3>4, <3>5 DEF Settled
  <2> QED BY <2>1, <2>3, <2>4 DEF InsertMoved
<1>4. CASE Hash!Grow(t)
  <2>1. UNCHANGED returned /\ hash_pc'[t] = "clear"
    BY <1>0, <1>4 DEF Hash!Grow
  <2>2. \A p : ~Entry(t, p)'
    BY <1>0, <2>1 DEF Probing, Unregistered, InTable, Entry
  <2> QED BY <2>1, <2>2 DEF Settled
<1>5. CASE Hash!Link(t)
  BY <1>5 DEF Hash!Link
<1>6. CASE \/ Hash!Begin(t) \/ Hash!Count(t) \/ Hash!Resize(t) \/ Hash!GrowFails(t) \/ Hash!Clear(t)
           \/ Hash!Fit(t) \/ Hash!Create(t) \/ Hash!CreateFails(t)
  <2>1. UNCHANGED <<tables, returned>> /\ hash_pc'[t] # "insert"
    BY <1>0, <1>6 DEF Hash!Begin, Hash!Count, Hash!Resize, Hash!GrowFails, Hash!Clear, Hash!Fit, Hash!Create,
                      Hash!CreateFails, Hash!ReturnNull
  <2> QED BY <1>1, <2>1 DEF Settled
<1> QED BY <1>2, <1>3, <1>4, <1>5, <1>6 DEF Hash!Go

LEMMA OwnsStep ==
    ASSUME HashTypes, HashTypes', HashProbing, HashProbing', HashCounts, HashOwns, NEW t \in Threads,
           Hash!Begin(t) \/ Hash!Go(t)
    PROVE  HashOwns'
<1> DEFINE l == hash_local[t]
<1>0. /\ HashShape /\ TablesKeep(t) /\ Others(t) /\ Probing(t) /\ Probing(t)' /\ l \in HashLocal
      /\ hash_pc \in [Threads -> Labels] /\ hash_local \in [Threads -> HashLocal]
      /\ \A u \in Threads : u # t => returned'[u] = returned[u]
  <2>1. HashShape /\ Probing(t) /\ Probing(t)' /\ hash_local[t].newCount <= Cardinality(Threads)
    BY DEF HashTypes, HashProbing, HashCounts
  <2>2. l \in HashLocal /\ hash_pc \in [Threads -> Labels] /\ hash_local \in [Threads -> HashLocal]
    BY <2>1 DEF HashShape
  <2> QED BY <2>1, <2>2, StepKeeps, OnlyOneMoves, OnlyOneReturns
<1>1. \A p \in returned'[t] : Entry(t, p)'
  BY <1>0, KeepEntries, SettledStep DEF HashOwns
<1>2. ASSUME OwnMoves(t) PROVE HashOwns'
  BY <1>0, <1>2, OwnsMove
<1> USE DEF Hash!Goto, Hash!Set, Hash!shared
<1>3. CASE Hash!Create(t)
  <2>1. /\ UNCHANGED tables /\ hash_pc[t] = "create" /\ hash_pc'[t] = "link"
        /\ Len(producers') = Len(producers) + 1 /\ hash_local'[t].producer = Len(producers) + 1
    BY <1>0, <1>3 DEF Hash!Create, HashShape, HashLocal
  <2>2. \A p : ~Entry(t, p) /\ ~Entry(t, p)'
    BY <1>0, <2>1 DEF Probing, Unregistered, InTable, Entry
  <2>3. OwnMoves(t)
    BY <1>1, <2>1, <2>2 DEF OwnMoves, Owns
  <2> QED BY <1>2, <2>3
<1>4. CASE Hash!Link(t)
  <2>1. /\ UNCHANGED tables /\ hash_pc[t] = "link" /\ hash_pc'[t] \in {"link", "insert"}
        /\ hash_local'[t].producer = l.producer
    BY <1>0, <1>4 DEF Hash!Link, HashLocal
  <2>2. Len(producers') = Len(producers)
    BY <1>0, <1>4 DEF Hash!Link, HashShape
  <2>3. \A p : Owns(t, p)' => Owns(t, p)
    BY <2>1 DEF Owns, Entry
  <2> QED BY <1>1, <1>2, <2>2, <2>3 DEF OwnMoves
<1>5. CASE ~Hash!Create(t) /\ ~Hash!Link(t)
  <2>1. UNCHANGED producers /\ hash_pc'[t] # "link"
    BY <1>0, <1>5 DEF Hash!Go, Hash!Begin, Hash!Find, Hash!Count, Hash!Resize, Hash!Grow, Hash!GrowFails,
         Hash!Clear, Hash!Fit, Hash!CreateFails, Hash!Insert, Hash!Return, Hash!ReturnNull
  <2>2. \A p : Settled(t, p)' => Settled(t, p)
    BY <1>5, SettledStep
  <2>3. \A p : Owns(t, p)' => Owns(t, p)
    BY <2>1, <2>2 DEF Owns, Settled
  <2> QED BY <1>1, <1>2, <2>1, <2>3 DEF OwnMoves
<1> QED BY <1>3, <1>4, <1>5

-----------------------------------------------------------------------------
(* The hash of producers: their list.                                      *)

Pointers == 1 .. Len(producers) \union {Null}

\* Nothing leads to the producer.
Unseen(p) ==
    /\ producerListTail # p
    /\ \A q \in 1 .. Len(producers) : producers[q] # p
    /\ \A u \in Threads : hash_pc[u] = "link" => hash_local[u].prevTail # p

HashList ==
    /\ producerListTail \in Pointers
    /\ \A q \in 1 .. Len(producers) : producers[q] \in Pointers
    /\ \A t \in Threads : hash_pc[t] = "link" =>
            hash_local[t].prevTail \in Pointers /\ Unseen(hash_local[t].producer)
    /\ \A t \in Threads : \A p : Settled(t, p) => p \in Hash!Reachable

LEMMA ListInit == ASSUME Hash!Init PROVE HashList
<1>1. \A t \in Threads : \A p : ~Settled(t, p)
  BY OwnsInit DEF Settled, Hash!Init
<1> QED BY <1>1 DEF HashList, Pointers, Hash!Init

\* What is on the list stays there when the pointer of a producer that is not there changes,
\* and when that producer becomes the tail.
LEMMA ReachKeeps ==
    ASSUME HashShape, HashShape', HashList, NEW x, x # Null, producerListTail # x,
           \A q \in 1 .. Len(producers) : producers[q] # x,
           Len(producers') >= Len(producers),
           \A q \in 1 .. Len(producers) : q # x => producers'[q] = producers[q],
           \/ producerListTail' = producerListTail
           \/ producerListTail' = x /\ producers'[x] = producerListTail
    PROVE  Hash!Reachable \subseteq Hash!Reachable'
<1>0. Len(producers) \in Nat /\ Len(producers') \in Nat
  BY DEF HashShape
<1> SUFFICES ASSUME NEW p \in Hash!Reachable PROVE p \in Hash!Reachable'
  OBVIOUS
<1>1. p \in 1 .. Len(producers) /\ p \in 1 .. Len(producers')
  BY <1>0 DEF Hash!Reachable
<1>2. ASSUME NEW s \in SUBSET (1 .. Len(producers')), producerListTail' \in s \union {Null},
             \A q \in s : producers'[q] \in s \union {Null}
      PROVE  p \in s
  <2> DEFINE r == (s \cap (1 .. Len(producers))) \ {x}
  <2>1. producerListTail \in s \union {Null}
    BY <1>2
  <2>2. producerListTail \in r \union {Null}
    BY <2>1 DEF HashList, Pointers
  <2>3. ASSUME NEW q \in r PROVE producers[q] \in r \union {Null}
    <3>1. q \in s /\ q \in 1 .. Len(producers) /\ q # x
      OBVIOUS
    <3>2. producers[q] \in s \union {Null} /\ producers[q] # x
      BY <1>2, <3>1
    <3>3. producers[q] \in 1 .. Len(producers) \union {Null}
      BY <3>1 DEF HashList, Pointers
    <3> QED BY <3>2, <3>3
  <2>4. r \in SUBSET (1 .. Len(producers))
    OBVIOUS
  <2> HIDE DEF r
  <2>5. p \in r
    BY <2>2, <2>3, <2>4 DEF Hash!Reachable
  <2> QED BY <2>5 DEF r
<1> QED BY <1>1, <1>2 DEF Hash!Reachable

LEMMA ListStep ==
    ASSUME HashTypes, HashTypes', HashProbing, HashProbing', HashCounts, HashOwns, HashList, NEW t \in Threads,
           Hash!Begin(t) \/ Hash!Go(t)
    PROVE  HashList'
<1> DEFINE l == hash_local[t]
<1>0. /\ HashShape /\ HashShape' /\ TablesKeep(t) /\ Others(t) /\ l \in HashLocal
      /\ hash_pc \in [Threads -> Labels] /\ hash_local \in [Threads -> HashLocal]
      /\ Len(producers) \in Nat /\ Null \notin 1 .. Len(producers)
  <2>1. HashShape /\ HashShape' /\ hash_local[t].newCount <= Cardinality(Threads) /\ Null \notin Nat
    BY HashConstants DEF HashTypes, HashProbing, HashCounts
  <2>2. l \in HashLocal /\ hash_pc \in [Threads -> Labels] /\ hash_local \in [Threads -> HashLocal]
        /\ Len(producers) \in Nat
    BY <2>1 DEF HashShape
  <2> QED BY <2>1, <2>2, StepKeeps, OnlyOneMoves
<1>1. /\ producerListTail \in Pointers /\ \A q \in 1 .. Len(producers) : producers[q] \in Pointers
      /\ \A u \in Threads : hash_pc[u] = "link" =>
            /\ hash_local[u].prevTail \in Pointers /\ Unseen(hash_local[u].producer)
            /\ hash_local[u].producer \in 1 .. Len(producers)
      /\ \A u \in Threads : \A p : Settled(u, p) => p \in Hash!Reachable
  BY DEF HashList, HashOwns, Owns
<1>2. \A u \in Threads : \A p : u # t /\ Settled(u, p)' => Settled(u, p)
  BY <1>0, KeepEntries DEF Settled, Others
<1> USE DEF Hash!Goto, Hash!Set, Hash!shared
<1>3. CASE Hash!Create(t)
  <2> DEFINE x == Len(producers) + 1
  <2>1. /\ producers' = Append(producers, Null) /\ UNCHANGED producerListTail
        /\ hash_pc'[t] = "link" /\ hash_local'[t].producer = x /\ hash_local'[t].prevTail = producerListTail
        /\ ~Hash!Link(t)
    BY <1>0, <1>3 DEF Hash!Create, HashLocal, Hash!Link
  <2>2. /\ Len(producers') = x /\ producers'[x] = Null
        /\ \A q \in 1 .. Len(producers) : producers'[q] = producers[q]
        /\ 1 .. Len(producers') = 1 .. Len(producers) \union {x} /\ x \notin 1 .. Len(producers) /\ x # Null
        /\ Len(producers') >= Len(producers)
    <3>1. producers \in Seq(Nat \union {Null}) /\ Null \notin Nat
      BY <1>0, HashConstants DEF HashShape
    <3> QED BY <1>0, <2>1, <3>1
  <2>3. Pointers' = Pointers \union {x} /\ x \notin Pointers
    BY <2>2 DEF Pointers
  <2>4. Hash!Reachable \subseteq Hash!Reachable'
    <3>1. producerListTail # x /\ \A q \in 1 .. Len(producers) : producers[q] # x
      BY <1>1, <2>3
    <3> HIDE DEF x
    <3> QED BY <1>0, <2>1, <2>2, <3>1, ReachKeeps
  <2>5. \A u \in Threads : \A p : Settled(u, p)' => p \in Hash!Reachable'
    BY <1>1, <1>2, <2>1, <2>4, SettledStep
  <2>6. producerListTail' \in Pointers' /\ \A q \in 1 .. Len(producers') : producers'[q] \in Pointers'
    BY <1>1, <2>1, <2>2, <2>3 DEF Pointers
  <2> HIDE DEF x
  <2>7. ASSUME NEW u \in Threads, hash_pc'[u] = "link", NEW p, p = hash_local'[u].producer
        PROVE  hash_local'[u].prevTail \in Pointers' /\ Unseen(p)'
    <3>1. CASE u = t
      <4>1. p = x
        BY <2>1, <2>7, <3>1
      <4>2. \A v \in Threads : hash_pc'[v] = "link" => hash_local'[v].prevTail \in Pointers
        BY <1>0, <1>1, <2>1 DEF Others
      <4> QED BY <1>1, <2>1, <2>2, <2>3, <3>1, <4>1, <4>2 DEF Unseen
    <3>2. CASE u # t
      <4>1. hash_pc[u] = "link" /\ hash_local'[u] = hash_local[u]
        BY <1>0, <2>7, <3>2 DEF Others
      <4>2. Unseen(p) /\ hash_local[u].prevTail \in Pointers /\ p \in 1 .. Len(producers)
        BY <1>1, <2>7, <4>1
      <4>3. \A v \in Threads : hash_pc'[v] = "link" => hash_local'[v].prevTail # p
        BY <1>0, <2>1, <4>2 DEF Others, Unseen
      <4>4. \A q \in 1 .. Len(producers') : producers'[q] # p
        BY <1>0, <2>2, <4>2 DEF Unseen
      <4> QED BY <2>1, <2>3, <4>1, <4>2, <4>3, <4>4 DEF Unseen
    <3> QED BY <3>1, <3>2
  <2> QED BY <2>5, <2>6, <2>7 DEF HashList
<1>4. CASE Hash!Link(t)
  <2>0. PICK x : x = l.producer
    OBVIOUS
  <2>1. /\ hash_pc[t] = "link" /\ UNCHANGED tables
        /\ producers' = [producers EXCEPT ![x] = l.prevTail]
        /\ \/ /\ producerListTail = l.prevTail /\ producerListTail' = x
              /\ hash_pc'[t] = "insert" /\ hash_local'[t].producer = x
           \/ /\ UNCHANGED producerListTail /\ hash_pc'[t] = "link" /\ hash_local'[t].producer = x
              /\ hash_local'[t].prevTail = producerListTail
    BY <1>0, <1>4, <2>0 DEF Hash!Link, HashLocal
  <2>2. x \in 1 .. Len(producers) /\ Unseen(x) /\ l.prevTail \in Pointers /\ x # Null
    BY <1>0, <1>1, <2>0, <2>1
  <2>3. /\ Len(producers') = Len(producers) /\ producers'[x] = l.prevTail
        /\ \A q \in 1 .. Len(producers) : q # x => producers'[q] = producers[q]
        /\ Len(producers') >= Len(producers)
    <3>1. producers \in Seq(Nat \union {Null})
      BY <1>0 DEF HashShape
    <3> QED BY <2>1, <2>2, <3>1
  <2>4. Hash!Reachable \subseteq Hash!Reachable'
    BY <1>0, <2>1, <2>2, <2>3, ReachKeeps DEF Unseen
  <2>5. Pointers' = Pointers
    BY <2>3 DEF Pointers
  <2>6. producerListTail' \in Pointers' /\ \A q \in 1 .. Len(producers') : producers'[q] \in Pointers'
    BY <1>1, <2>1, <2>2, <2>3, <2>5 DEF Pointers
  <2>7. hash_pc'[t] = "insert" => x \in Hash!Reachable'
    <3> SUFFICES ASSUME hash_pc'[t] = "insert" PROVE x \in Hash!Reachable'
      OBVIOUS
    <3>1. producerListTail' = x /\ x \in 1 .. Len(producers')
      BY <2>1, <2>2, <2>3
    <3> QED BY <2>2, <3>1 DEF Hash!Reachable
  <2>8. ASSUME NEW u \in Threads, NEW p, Settled(u, p)' PROVE p \in Hash!Reachable'
    <3>1. CASE u # t
      BY <1>1, <1>2, <2>4, <2>8, <3>1
    <3>2. CASE u = t /\ Entry(t, p)'
      <4>1. Entry(t, p)
        BY <2>1, <3>2 DEF Entry
      <4> QED BY <1>1, <2>4, <4>1 DEF Settled
    <3>3. CASE u = t /\ hash_pc'[t] = "insert" /\ p = x
      BY <2>7, <3>3
    <3> QED BY <2>1, <2>8, <3>1, <3>2, <3>3 DEF Settled
  <2>9. ASSUME NEW u \in Threads, hash_pc'[u] = "link", NEW p, p = hash_local'[u].producer
        PROVE  hash_local'[u].prevTail \in Pointers' /\ Unseen(p)'
    <3>1. hash_pc[u] = "link" /\ p = hash_local[u].producer
      BY <1>0, <2>0, <2>1, <2>9 DEF Others
    <3>2. Unseen(p) /\ hash_local[u].prevTail \in Pointers
      BY <1>1, <3>1
    <3>3. hash_pc'[t] = "insert" => p # x
      <4>1. p = x => u = t
        <5>1. Owns(u, p) /\ Owns(t, x)
          BY <2>0, <2>1, <3>1 DEF Owns
        <5> QED BY <5>1 DEF HashOwns
      <4> QED BY <2>9, <4>1
    <3>4. producerListTail' # p
      BY <2>1, <3>2, <3>3 DEF Unseen
    <3>5. \A q \in 1 .. Len(producers') : producers'[q] # p
      BY <2>1, <2>3, <3>2 DEF Unseen
    <3>6. \A v \in Threads : hash_pc'[v] = "link" => hash_local'[v].prevTail # p
      BY <1>0, <2>1, <3>2 DEF Unseen, Others
    <3>7. hash_local'[u].prevTail \in Pointers'
      BY <1>0, <1>1, <2>1, <2>5, <2>9, <3>2 DEF Others
    <3> QED BY <3>4, <3>5, <3>6, <3>7 DEF Unseen
  <2> QED BY <2>6, <2>8, <2>9 DEF HashList
<1>5. CASE ~Hash!Create(t) /\ ~Hash!Link(t)
  <2>1. UNCHANGED <<producers, producerListTail>> /\ hash_pc'[t] # "link"
    BY <1>0, <1>5 DEF Hash!Go, Hash!Begin, Hash!Find, Hash!Count, Hash!Resize, Hash!Grow, Hash!GrowFails,
         Hash!Clear, Hash!Fit, Hash!CreateFails, Hash!Insert, Hash!Return, Hash!ReturnNull
  <2>2. \A u \in Threads : \A p : Settled(u, p)' => Settled(u, p)
    BY <1>2, <1>5, SettledStep
  <2>3. Hash!Reachable' = Hash!Reachable /\ Pointers' = Pointers
    BY <2>1 DEF Hash!Reachable, Pointers
  <2>4. ASSUME NEW u \in Threads, hash_pc'[u] = "link", NEW p, p = hash_local'[u].producer
        PROVE  hash_local'[u].prevTail \in Pointers' /\ Unseen(p)'
    <3>1. hash_pc[u] = "link" /\ hash_local'[u] = hash_local[u]
      BY <1>0, <2>1, <2>4 DEF Others
    <3>2. Unseen(p) /\ hash_local[u].prevTail \in Pointers
      BY <1>1, <2>4, <3>1
    <3>3. \A v \in Threads : hash_pc'[v] = "link" => hash_pc[v] = "link" /\ hash_local'[v] = hash_local[v]
      BY <1>0, <2>1 DEF Others
    <3> QED BY <2>1, <2>3, <3>1, <3>2, <3>3 DEF Unseen
  <2> QED BY <1>1, <2>1, <2>2, <2>3, <2>4 DEF HashList
<1> QED BY <1>3, <1>4, <1>5

-----------------------------------------------------------------------------
(* The hash of producers: the invariant.                                   *)

HashInv == HashTypes /\ HashProbing /\ HashCounts /\ HashRoom /\ HashOwns /\ HashList

\* The layers of the invariant, each with the help of the ones before it.
LEMMA HashInvStep == ASSUME HashInv, Hash!Next PROVE HashInv'
<1>1. PICK t \in Threads : Hash!Begin(t) \/ Hash!Go(t)
  BY DEF Hash!Next
<1>2. hash_local[t].newCount <= Cardinality(Threads)
  BY DEF HashInv, HashCounts
<1> USE DEF HashInv
<1>3. HashTypes'
  BY <1>1, <1>2, HashTypesStep
<1>4. HashProbing'
  BY <1>1, <1>2, <1>3, ProbingStep
<1>5. HashCounts'
  BY <1>1, <1>3, <1>4, CountsStep
<1>6. HashRoom'
  BY <1>1, <1>3, <1>4, <1>5, RoomStep
<1>7. HashOwns'
  BY <1>1, <1>3, <1>4, OwnsStep
<1>8. HashList'
  BY <1>1, <1>3, <1>4, ListStep
<1> QED BY <1>3, <1>4, <1>5, <1>6, <1>7, <1>8

\* The property from the invariant.
LEMMA OneProducerFollows == ASSUME HashInv PROVE OneProducer
<1>1. Hash!OneEach
  <2>1. ASSUME NEW t \in Threads PROVE Cardinality(returned[t]) <= 1
    <3>1. \A p, q \in returned[t] : p = q
      BY DEF HashInv, HashOwns, Owns
    <3>2. CASE returned[t] = {}
      BY <3>2, FS_EmptySet
    <3>3. CASE returned[t] # {}
      <4>1. PICK p : p \in returned[t]
        BY <3>3
      <4>2. returned[t] = {p}
        BY <3>1, <4>1
      <4>3. Cardinality({p}) = 1
        BY FS_Singleton
      <4> QED BY <4>2, <4>3
    <3> QED BY <3>2, <3>3
  <2>2. ASSUME NEW t \in Threads, NEW u \in Threads, t # u PROVE returned[t] \cap returned[u] = {}
    BY <2>2 DEF HashInv, HashOwns, Owns
  <2> QED BY <2>1, <2>2, HashCardinality DEF Hash!OneEach
<1>2. Hash!HasRoom
  BY RoomIs DEF HashInv
<1>3. Hash!OnList
  BY DEF HashInv, HashOwns, HashList, Settled, Hash!OnList
<1>4. Hash!ResizeHeld
  BY DEF HashInv, HashTypes, Resizing, Hash!ResizeHeld
<1> QED BY <1>1, <1>2, <1>3, <1>4 DEF OneProducer, Hash!OneProducer

\* A thread that pushes gets a producer of its own, always the same, and it is on the list in
\* which consumers look; the tables keep free slots, so that probing ends; and no thread waits
\* for a resize that nobody does.
THEOREM OneProducerCorrect == MCSpec => []OneProducer
<1>1. MCInit => HashInv
  <2> SUFFICES ASSUME Hash!Init PROVE HashInv
    BY DEF MCInit
  <2> QED BY HashTypesInit, ProbingInit, CountsInit, RoomInit, OwnsInit, ListInit DEF HashInv
<1>2. ASSUME HashInv, [MCNext]_<<part, vars, hashVars, dequeueVars, collectionVars>> PROVE HashInv'
  <2>1. CASE Hash!Next
    BY <1>2, <2>1, HashInvStep
  <2>2. CASE UNCHANGED hashVars
    <3>1. UNCHANGED <<tables, implicitProducerHashCount, resizeInProgress, producers, producerListTail,
                      hash_pc, hash_local, returned>>
      BY <2>2 DEF hashVars
    <3>2. HashTypes'
      BY <1>2, <3>1 DEF HashInv, HashTypes, HashShape, AtTable, Resizing, Ascending, Hash!Capacity
    <3>3. HashProbing'
      BY <1>2, <3>1 DEF HashInv, HashProbing, Reached, KeysOnce, Probing, Passed, InTable, Unregistered, At,
                        Hash!Capacity
    <3>4. HashCounts' /\ HashRoom'
      BY <1>2, <3>1 DEF HashInv, HashCounts, HashRoom, Counted, Unregistered, InTable, Wanting, InWay,
                        ThreeQuarters, Hash!Capacity
    <3>5. HashOwns' /\ HashList'
      BY <1>2, <3>1 DEF HashInv, HashOwns, HashList, Owns, Entry, Settled, Pointers, Unseen, Hash!Reachable
    <3> QED BY <3>2, <3>3, <3>4, <3>5 DEF HashInv
  <2> QED BY <1>2, <2>1, <2>2 DEF MCNext
<1>3. HashInv => OneProducer
  BY OneProducerFollows
<1> QED BY <1>1, <1>2, <1>3, PTL DEF MCSpec

-----------------------------------------------------------------------------
(* The pool of blocks: where a block is.                                   *)

\* What a thread is doing with its node.
Referring == {"next", "swing", "got", "unref"}
Linking   == {"addload", "link", "one"}
Counting  == {"got", "publish", "retry"}

Doing(labels, b) == {t \in Threads : pc[t] \in labels /\ node[t] = b}
Owners(b) == {t \in Threads : b \in owned[t]}
Given(b)  == b < made /\ (b < initialBlockPoolIndex \/ b >= initialBlockPoolSize)

\* The threads that have a block, the set `listed` of blocks on the list, and the block's word.
Place(b, owners, linkers, counters, listed) ==
    /\ Owners(b) = owners /\ Doing(Linking, b) = linkers /\ Doing(Counting, b) = counters
    /\ OnList \intersect {b} = listed

References(b) == Cardinality(Doing(Referring, b))

\* A block is in one of six places, and its word says how many threads refer to it.
Untouched(b) == Place(b, {}, {}, {}, {}) /\ ~Given(b) /\ Doing(Referring, b) = {} /\ freeListRefs[b] = 0
InHands(b) == \E t \in Threads :
    Place(b, {t}, {}, {}, {}) /\ Given(b) /\ freeListRefs[b] = References(b)
BeingLinked(b) == \E t \in Threads :
    Place(b, {}, {t}, {}, {}) /\ Given(b) /\ Doing(Referring, b) = {} /\ freeListRefs[b] = Should
BeingCounted(b) == \E t \in Threads :
    Place(b, {}, {}, {t}, {}) /\ Given(b) /\ freeListRefs[b] = References(b) + 1
Listed(b) == Place(b, {}, {}, {}, {b}) /\ Given(b) /\ freeListRefs[b] = References(b) + 1
LeftBehind(b) ==
    /\ Place(b, {}, {}, {}, {}) /\ Given(b) /\ Doing(Referring, b) # {}
    /\ freeListRefs[b] = Should + References(b)

InPlace(b) == Untouched(b) \/ InHands(b) \/ BeingLinked(b) \/ BeingCounted(b) \/ Listed(b) \/ LeftBehind(b)

\* The list from its end to its head.
Chain(n, q) ==
    /\ q \in [0 .. n -> Blocks \union {Null}] /\ q[0] = Null /\ q[n] = freeListHead
    /\ \A i \in 1 .. n : q[i] \in Blocks /\ freeListNext[q[i]] = q[i - 1]
    /\ \A i, j \in 1 .. n : q[i] = q[j] => i = j

PoolTypes ==
    /\ freeListHead \in Blocks \union {Null} /\ freeListNext \in [Blocks -> Blocks \union {Null}]
    /\ freeListRefs \in [Blocks -> Nat]
    /\ initialBlockPoolIndex \in Nat /\ made \in initialBlockPoolSize .. MaxBlocks
    /\ owned \in [Threads -> SUBSET Blocks]
    /\ pc \in [Threads -> {"idle", "pool", "create", "load", "acquire"}
                           \union Referring \union Linking \union Counting]
    /\ node \in [Threads -> Blocks \union {Null}] /\ head \in [Threads -> Blocks \union {Null}]
    /\ next \in [Threads -> Blocks \union {Null}]
    /\ inGet \in [Threads -> BOOLEAN] /\ calls \in [Threads -> Nat]

\* A node that threads refer to keeps its next pointer.
Pointing(t) ==
    /\ pc[t] \in Referring \union Linking \union Counting => node[t] \in Blocks
    /\ pc[t] = "acquire" => head[t] \in Blocks
    /\ pc[t] \in {"swing", "one", "publish"} => next[t] = freeListNext[node[t]]

PoolInv ==
    /\ PoolTypes
    /\ \E n \in Nat : \E q : Chain(n, q)
    /\ \A b \in Blocks : InPlace(b)
    /\ \A t \in Threads : Pointing(t)

-----------------------------------------------------------------------------
(* The pool of blocks: its list.                                           *)

LEMMA PoolConstants ==
    /\ MaxBlocks \in Nat /\ Null \notin Blocks /\ initialBlockPoolSize \in 0 .. MaxBlocks
    /\ IsFiniteSet(Threads) /\ Cardinality(Threads) \in Nat
    /\ Should \in Nat /\ Should > Cardinality(Threads) + 1
  BY PoolAssumption, NullAssumption, FS_CardinalityType

\* There are no more blocks on it than there are.
LEMMA ChainIsShort ==
    ASSUME NEW n \in Nat, NEW q, Chain(n, q)
    PROVE  n <= MaxBlocks
<1> SUFFICES ASSUME n > MaxBlocks PROVE FALSE
  BY PoolConstants
<1> DEFINE f == [i \in 1 .. n |-> q[i]]
<1>1. f \in [1 .. n -> Blocks]
  BY DEF Chain
<1>2. IsFiniteSet(1 .. n) /\ Cardinality(1 .. n) = n
  <2>1. 1 \in Int /\ n \in Int /\ (IF 1 > n THEN 0 ELSE n - 1 + 1) = n
    OBVIOUS
  <2> QED BY <2>1, FS_Interval
<1>3. IsFiniteSet(Blocks) /\ Cardinality(Blocks) = MaxBlocks
  <2>1. 0 \in Int /\ MaxBlocks - 1 \in Int /\ (IF 0 > MaxBlocks - 1 THEN 0 ELSE (MaxBlocks - 1) - 0 + 1) = MaxBlocks
    BY PoolConstants
  <2>2. IsFiniteSet(0 .. MaxBlocks - 1) /\ Cardinality(0 .. MaxBlocks - 1) = MaxBlocks
    BY <2>1, FS_Interval
  <2> QED BY <2>2 DEF Blocks
<1> HIDE DEF f
<1>4. \E i, j \in 1 .. n : i # j /\ f[i] = f[j]
  BY <1>1, <1>2, <1>3, FS_PigeonHole
<1> QED BY <1>4 DEF f, Chain

\* Following the pointers from the head finds the chain.
LEMMA OnListIs ==
    ASSUME NEW n \in Nat, NEW q, Chain(n, q)
    PROVE  OnList = {q[i] : i \in 1 .. n}
<1> DEFINE f == [k \in Nat |-> {q[i] : i \in {j \in 1 .. n : j + k >= n}}]
           reach == CHOOSE r : r = [k \in Nat |-> IF k = 0 THEN {freeListHead} \ {Null}
                                ELSE r[k - 1] \union ({freeListNext[b] : b \in r[k - 1]} \ {Null})]
<1>1. f[0] = {freeListHead} \ {Null}
  <2>1. CASE n = 0
    BY <2>1 DEF Chain
  <2>2. CASE n # 0
    <3>1. {j \in 1 .. n : j + 0 >= n} = {n}
      BY <2>2
    <3>2. q[n] = freeListHead /\ q[n] # Null
      BY <2>2, PoolConstants DEF Chain
    <3> QED BY <3>1, <3>2
  <2> QED BY <2>1, <2>2
<1>2. ASSUME NEW k \in Nat, k # 0
      PROVE  f[k] = f[k - 1] \union ({freeListNext[b] : b \in f[k - 1]} \ {Null})
  <2> DEFINE J(m) == {j \in 1 .. n : j + m >= n}
  <2>1. k - 1 \in Nat /\ f[k] = {q[i] : i \in J(k)} /\ f[k - 1] = {q[i] : i \in J(k - 1)}
    BY <1>2
  <2>2. \A i \in J(k - 1) : i \in J(k) /\ freeListNext[q[i]] = q[i - 1]
    BY <1>2 DEF Chain
  <2>3. \A i \in J(k - 1) : q[i - 1] # Null => i - 1 \in J(k)
    BY <1>2 DEF Chain
  <2>4. \A i \in J(k) : i \in J(k - 1) \/ (i + 1 \in J(k - 1) /\ (i + 1) - 1 = i)
    <3> SUFFICES ASSUME NEW i \in J(k), i + k - 1 < n PROVE i + 1 \in J(k - 1)
      BY <1>2
    <3> QED BY <1>2
  <2>5. \A i \in J(k) : q[i] # Null
    BY PoolConstants DEF Chain
  <2> HIDE DEF J, f
  <2>6. ASSUME NEW b \in f[k]
        PROVE  b \in f[k - 1] \union ({freeListNext[c] : c \in f[k - 1]} \ {Null})
    <3>1. PICK i \in J(k) : b = q[i]
      BY <2>1
    <3>2. CASE i + 1 \in J(k - 1) /\ (i + 1) - 1 = i
      BY <2>1, <2>2, <2>5, <3>1, <3>2
    <3> QED BY <2>1, <2>4, <3>1, <3>2
  <2>7. ASSUME NEW b \in f[k - 1] \union ({freeListNext[c] : c \in f[k - 1]} \ {Null})
        PROVE  b \in f[k]
    <3>1. CASE b \in f[k - 1]
      BY <2>1, <2>2, <3>1
    <3>2. CASE b \in {freeListNext[c] : c \in f[k - 1]} \ {Null}
      <4>1. PICK i \in J(k - 1) : b = q[i - 1]
        BY <2>1, <2>2, <3>2
      <4> QED BY <2>1, <2>3, <3>2, <4>1
    <3> QED BY <2>7, <3>1, <3>2
  <2> QED BY <2>6, <2>7
<1>3. f = [k \in Nat |-> f[k]]
  OBVIOUS
<1>4. f[MaxBlocks] = {q[i] : i \in 1 .. n}
  <2>1. MaxBlocks \in Nat /\ n <= MaxBlocks
    BY ChainIsShort, PoolConstants
  <2>2. {j \in 1 .. n : j + MaxBlocks >= n} = 1 .. n
    BY <2>1
  <2> QED BY <2>1, <2>2
<1> HIDE DEF f
<1>5. f = [k \in Nat |-> IF k = 0 THEN {freeListHead} \ {Null}
                          ELSE f[k - 1] \union ({freeListNext[b] : b \in f[k - 1]} \ {Null})]
  BY <1>1, <1>2, <1>3
<1>6. reach = [k \in Nat |-> IF k = 0 THEN {freeListHead} \ {Null}
                          ELSE reach[k - 1] \union ({freeListNext[b] : b \in reach[k - 1]} \ {Null})]
  BY <1>5
<1>7. OnList = reach[MaxBlocks]
  BY DEF OnList
<1> HIDE DEF reach
<1> DEFINE T == {k \in Nat : reach[k] # f[k]}
<1>8. ASSUME NEW k \in T, \A m \in T : k <= m PROVE FALSE
  <2>1. k \in Nat /\ reach[k] # f[k]
    OBVIOUS
  <2>2. k # 0
    BY <1>1, <1>6, <2>1
  <2>3. k - 1 \in Nat /\ k - 1 \notin T
    BY <1>8, <2>2
  <2>4. reach[k - 1] = f[k - 1]
    BY <2>3
  <2>5. reach[k] = reach[k - 1] \union ({freeListNext[b] : b \in reach[k - 1]} \ {Null})
    BY <1>6, <2>1, <2>2
  <2> QED BY <1>2, <2>1, <2>2, <2>4, <2>5
<1>9. T \in SUBSET Nat
  OBVIOUS
<1> HIDE DEF T
<1>10. T = {}
  BY <1>8, <1>9, Smallest
<1>11. reach[MaxBlocks] = f[MaxBlocks]
  BY <1>10, PoolConstants DEF T
<1> QED BY <1>4, <1>7, <1>11

LEMMA OnListIsThen ==
    ASSUME NEW n \in Nat, NEW q
    PROVE  (Chain(n, q) => OnList = {q[i] : i \in 1 .. n})'
<1>1. Chain(n, q) => OnList = {q[i] : i \in 1 .. n}
  BY OnListIs
<1> QED BY <1>1, PTL

\* A step that leaves the head and the pointers of the list's blocks alone leaves the list alone.
LEMMA SameList ==
    ASSUME NEW n \in Nat, NEW q, Chain(n, q), freeListHead' = freeListHead,
           \A b \in OnList : freeListNext'[b] = freeListNext[b]
    PROVE  Chain(n, q)' /\ OnList' = OnList
<1>1. \A i \in 1 .. n : q[i] \in OnList
  BY OnListIs
<1>2. Chain(n, q)'
  BY <1>1 DEF Chain
<1>3. OnList' = {q[i] : i \in 1 .. n}
  BY <1>2, OnListIsThen
<1> QED BY <1>2, <1>3, OnListIs

\* A block becomes the head of the list.
LEMMA PushedList ==
    ASSUME NEW n \in Nat, NEW q, Chain(n, q), UNCHANGED freeListNext, NEW b \in Blocks, b \notin OnList,
           freeListNext[b] = freeListHead, freeListHead' = b
    PROVE  (\E m \in Nat : \E r : Chain(m, r)') /\ OnList' = OnList \union {b}
<1> DEFINE r == [i \in 0 .. n + 1 |-> IF i = n + 1 THEN b ELSE q[i]]
<1>1. OnList = {q[i] : i \in 1 .. n}
  BY OnListIs
<1>2. Chain(n + 1, r)'
  <2>1. r \in [0 .. n + 1 -> Blocks \union {Null}] /\ r[0] = Null /\ r[n + 1] = freeListHead'
    BY DEF Chain
  <2>2. \A i \in 1 .. n + 1 : r[i] \in Blocks /\ freeListNext'[r[i]] = r[i - 1]
    BY DEF Chain
  <2>3. \A i, j \in 1 .. n + 1 : r[i] = r[j] => i = j
    BY <1>1 DEF Chain
  <2> HIDE DEF r
  <2> QED BY <2>1, <2>2, <2>3 DEF Chain
<1>3. {r[i] : i \in 1 .. n + 1} = {q[i] : i \in 1 .. n} \union {b}
  <2>1. \A i \in 1 .. n : i \in 1 .. n + 1 /\ r[i] = q[i]
    OBVIOUS
  <2>2. n + 1 \in 1 .. n + 1 /\ r[n + 1] = b
    OBVIOUS
  <2>3. \A i \in 1 .. n + 1 : i \in 1 .. n \/ i = n + 1
    OBVIOUS
  <2> HIDE DEF r
  <2> QED BY <2>1, <2>2, <2>3
<1> HIDE DEF r
<1>4. \A m \in Nat : \A s : Chain(m, s)' => OnList' = {s[i] : i \in 1 .. m}
  BY OnListIsThen
<1>5. n + 1 \in Nat
  OBVIOUS
<1> QED BY <1>1, <1>2, <1>3, <1>4, <1>5

\* The head of the list is taken off.
LEMMA PoppedList ==
    ASSUME NEW n \in Nat, NEW q, Chain(n, q), UNCHANGED freeListNext, NEW b \in Blocks,
           freeListHead = b, freeListHead' = freeListNext[b]
    PROVE  /\ \E m \in Nat : \E r : Chain(m, r)'
           /\ b \in OnList /\ OnList' = OnList \ {b}
<1>1. n # 0 /\ n - 1 \in Nat /\ n \in 1 .. n /\ q[n] = b
  BY PoolConstants DEF Chain
<1> DEFINE r == [i \in 0 .. n - 1 |-> q[i]]
<1>2. OnList = {q[i] : i \in 1 .. n}
  BY OnListIs
<1>3. Chain(n - 1, r)'
  <2>1. r \in [0 .. n - 1 -> Blocks \union {Null}] /\ r[0] = Null /\ r[n - 1] = freeListHead'
    BY <1>1 DEF Chain
  <2>2. \A i \in 1 .. n - 1 : r[i] \in Blocks /\ freeListNext'[r[i]] = r[i - 1]
    BY <1>1 DEF Chain
  <2>3. \A i, j \in 1 .. n - 1 : r[i] = r[j] => i = j
    BY DEF Chain
  <2> HIDE DEF r
  <2> QED BY <2>1, <2>2, <2>3 DEF Chain
<1>4. {r[i] : i \in 1 .. n - 1} = {q[i] : i \in 1 .. n} \ {b}
  <2>1. \A i \in 1 .. n - 1 : i \in 1 .. n /\ i # n /\ r[i] = q[i]
    BY <1>1
  <2>2. \A i \in 1 .. n : i \in 1 .. n - 1 \/ i = n
    BY <1>1
  <2>3. \A i \in 1 .. n : i # n => q[i] # b
    BY <1>1 DEF Chain
  <2> HIDE DEF r
  <2> QED BY <1>1, <2>1, <2>2, <2>3
<1> HIDE DEF r
<1>5. \A m \in Nat : \A s : Chain(m, s)' => OnList' = {s[i] : i \in 1 .. m}
  BY OnListIsThen
<1> QED BY <1>1, <1>2, <1>3, <1>4, <1>5

-----------------------------------------------------------------------------
(* The pool of blocks: the words of the blocks.                            *)

LEMMA SmallMod ==
    ASSUME NEW x \in Nat, NEW m \in Nat, x < 2 * m
    PROVE  x % m = IF x < m THEN x ELSE x - m
<1>1. CASE x < m
  <2>1. x % m = x
    BY <1>1, SMTT(20)
  <2> QED BY <1>1, <2>1
<1>2. CASE x >= m
  <2>1. x % m = x - m
    BY <1>2, SMTT(20)
  <2> QED BY <1>2, <2>1
<1> QED BY <1>1, <1>2

LEMMA ReferencesAre ==
    ASSUME NEW b
    PROVE  /\ IsFiniteSet(Doing(Referring, b)) /\ References(b) \in Nat
           /\ References(b) <= Cardinality(Threads)
           /\ References(b) = 0 <=> Doing(Referring, b) = {}
<1>1. Doing(Referring, b) \in SUBSET Threads
  BY DEF Doing
<1>2. IsFiniteSet(Doing(Referring, b)) /\ Cardinality(Doing(Referring, b)) <= Cardinality(Threads)
  BY <1>1, FS_Subset, PoolConstants
<1> QED BY <1>2, FS_CardinalityType, FS_EmptySet DEF References

LEMMA RefsIs ==
    ASSUME NEW b, InPlace(b)
    PROVE  /\ freeListRefs[b] \in Nat /\ freeListRefs[b] < 2 * Should
           /\ Refs(b) = IF freeListRefs[b] < Should THEN freeListRefs[b] ELSE freeListRefs[b] - Should
<1>1. freeListRefs[b] \in {0, Should, References(b), References(b) + 1, Should + References(b)}
  BY DEF InPlace, Untouched, InHands, BeingLinked, BeingCounted, Listed, LeftBehind
<1>2. freeListRefs[b] \in Nat /\ freeListRefs[b] < 2 * Should
  BY <1>1, ReferencesAre, PoolConstants
<1> QED BY <1>2, SmallMod, PoolConstants DEF Refs

LEMMA FetchAddIs ==
    ASSUME NEW b \in Blocks, NEW n \in Int, freeListRefs \in [Blocks -> Nat], FetchAdd(b, n),
           freeListRefs[b] + n \in 0 .. 2 * Should - 1
    PROVE  freeListRefs' = [freeListRefs EXCEPT ![b] = freeListRefs[b] + n]
<1>1. freeListRefs[b] + n \in Nat /\ 2 * Should \in Nat /\ freeListRefs[b] + n < 2 * Should
  BY PoolConstants
<1>2. (freeListRefs[b] + n) % (2 * Should) = freeListRefs[b] + n
  <2> DEFINE x == freeListRefs[b] + n
             m == 2 * Should
  <2>1. x \in Nat /\ m \in Nat /\ x < 2 * m /\ x < m
    BY <1>1
  <2> HIDE DEF x, m
  <2>2. x % m = x
    BY <2>1, SmallMod
  <2> QED BY <2>2 DEF x, m
<1> QED BY <1>2 DEF FetchAdd

-----------------------------------------------------------------------------
(* The pool of blocks: what a step of one thread leaves in place.          *)

OnlyStep(t) ==
    \A u \in Threads \ {t} : pc'[u] = pc[u] /\ node'[u] = node[u] /\ head'[u] = head[u] /\ next'[u] = next[u]

LEMMA DoingMoves ==
    ASSUME NEW t \in Threads, OnlyStep(t), NEW labels, NEW b
    PROVE  Doing(labels, b)' = IF pc'[t] \in labels /\ node'[t] = b THEN Doing(labels, b) \union {t}
                                                                  ELSE Doing(labels, b) \ {t}
  BY DEF OnlyStep, Doing

LEMMA ReferencesMove ==
    ASSUME NEW t \in Threads, OnlyStep(t), NEW b
    PROVE  References(b)' = References(b)
                            + (IF pc'[t] \in Referring /\ node'[t] = b THEN 1 ELSE 0)
                            - (IF pc[t] \in Referring /\ node[t] = b THEN 1 ELSE 0)
<1> DEFINE D == Doing(Referring, b)
<1>1. t \in D <=> pc[t] \in Referring /\ node[t] = b
  BY DEF Doing
<1>2. D' = IF pc'[t] \in Referring /\ node'[t] = b THEN D \union {t} ELSE D \ {t}
  BY DoingMoves DEF Referring
<1>3. IsFiniteSet(D) /\ Cardinality(D) \in Nat
  BY ReferencesAre DEF References
<1>4. References(b) = Cardinality(D) /\ References(b)' = Cardinality(D')
  BY DEF References
<1> HIDE DEF D
<1>5. /\ Cardinality(D \union {t}) = IF t \in D THEN Cardinality(D) ELSE Cardinality(D) + 1
      /\ Cardinality(D \ {t}) = IF t \in D THEN Cardinality(D) - 1 ELSE Cardinality(D)
  BY <1>3, FS_AddElement, FS_RemoveElement
<1> QED BY <1>1, <1>2, <1>3, <1>4, <1>5

\* Nothing of block c changes.
SameBlock(t, c) ==
    /\ freeListRefs'[c] = freeListRefs[c] /\ (Given(c)' <=> Given(c))
    /\ \A u \in Threads : c \in owned'[u] <=> c \in owned[u]
    /\ c \in OnList' <=> c \in OnList
    /\ \A labels \in {Referring, Linking, Counting} :
          pc'[t] \in labels /\ node'[t] = c <=> pc[t] \in labels /\ node[t] = c

LEMMA StaysInPlace ==
    ASSUME NEW t \in Threads, OnlyStep(t), NEW c, SameBlock(t, c), InPlace(c)
    PROVE  InPlace(c)'
<1>1. Owners(c)' = Owners(c)
  BY DEF SameBlock, Owners
<1>2. ASSUME NEW labels \in {Referring, Linking, Counting} PROVE Doing(labels, c)' = Doing(labels, c)
  <2>1. t \in Doing(labels, c) <=> pc[t] \in labels /\ node[t] = c
    BY DEF Doing
  <2>2. pc'[t] \in labels /\ node'[t] = c <=> pc[t] \in labels /\ node[t] = c
    BY DEF SameBlock
  <2>3. Doing(labels, c)' = IF pc'[t] \in labels /\ node'[t] = c THEN Doing(labels, c) \union {t}
                                                                  ELSE Doing(labels, c) \ {t}
    BY DoingMoves
  <2> QED BY <2>1, <2>2, <2>3
<1>3. /\ Doing(Referring, c)' = Doing(Referring, c) /\ Doing(Linking, c)' = Doing(Linking, c)
      /\ Doing(Counting, c)' = Doing(Counting, c)
  BY <1>2
<1>4. OnList' \intersect {c} = OnList \intersect {c}
  BY DEF SameBlock
<1>5. freeListRefs'[c] = freeListRefs[c] /\ (Given(c)' <=> Given(c))
  BY DEF SameBlock
<1>6. References(c)' = References(c)
  BY <1>3 DEF References
<1>7. \A o, l, k, s : Place(c, o, l, k, s) => Place(c, o, l, k, s)'
  BY <1>1, <1>3, <1>4 DEF Place
<1> QED BY <1>3, <1>5, <1>6, <1>7 DEF InPlace, Untouched, InHands, BeingLinked, BeingCounted, Listed, LeftBehind


\* To preserve the invariant, a step of t has to keep the types, the list and t's pointers, to put the
\* blocks of S in place, and to leave the others and what other threads have read alone.
LEMMA PoolKept ==
    ASSUME PoolInv, NEW t \in Threads, OnlyStep(t), PoolTypes', \E n \in Nat : \E q : Chain(n, q)',
           Pointing(t)', NEW S, \A b \in S : InPlace(b)', \A c \in Blocks \ S : SameBlock(t, c),
           \A u \in Threads \ {t} : pc[u] \in {"swing", "one", "publish"} =>
                                        freeListNext'[node[u]] = freeListNext[node[u]]
    PROVE  PoolInv'
<1>1. \A b \in Blocks : InPlace(b)'
  <2> SUFFICES ASSUME NEW c \in Blocks \ S PROVE InPlace(c)'
    OBVIOUS
  <2> QED BY StaysInPlace DEF PoolInv
<1>2. ASSUME NEW u \in Threads \ {t} PROVE Pointing(u)'
  <2>1. Pointing(u) /\ pc'[u] = pc[u] /\ node'[u] = node[u] /\ head'[u] = head[u] /\ next'[u] = next[u]
    BY DEF PoolInv, OnlyStep
  <2>2. pc[u] \in {"swing", "one", "publish"} => freeListNext'[node[u]] = freeListNext[node[u]]
    OBVIOUS
  <2> QED BY <2>1, <2>2 DEF Pointing
<1> QED BY <1>1, <1>2 DEF PoolInv

\* A step that does nothing to any block.
LEMMA QuietStep ==
    ASSUME PoolInv, NEW t \in Threads, OnlyStep(t), PoolTypes', UNCHANGED list, UNCHANGED owned,
           \A c \in Blocks : (Given(c)' <=> Given(c)),
           \A labels \in {Referring, Linking, Counting} : pc'[t] \in labels <=> pc[t] \in labels,
           \A labels \in {Referring, Linking, Counting} : pc[t] \in labels => node'[t] = node[t],
           Pointing(t)'
    PROVE  PoolInv'
<1>1. PICK n \in Nat : \E q : Chain(n, q)
  BY DEF PoolInv
<1>2. PICK q : Chain(n, q)
  BY <1>1
<1>3. Chain(n, q)' /\ OnList' = OnList
  BY <1>2, SameList DEF list
<1>4. \A c \in Blocks : SameBlock(t, c)
  BY <1>3 DEF SameBlock, list
<1>5. (\E m \in Nat : \E r : Chain(m, r)') /\ freeListNext' = freeListNext
  BY <1>3 DEF list
<1> DEFINE S == {}
<1>6. (\A b \in S : InPlace(b)') /\ \A c \in Blocks \ S : SameBlock(t, c)
  BY <1>4
<1> HIDE DEF S
<1> QED BY <1>5, <1>6, PoolKept


\* A block that nobody had is given to t.
LEMMA FirstGiven ==
    ASSUME PoolInv, NEW t \in Threads, OnlyStep(t), PoolTypes', UNCHANGED list,
           \A labels \in {Referring, Linking, Counting} : pc[t] \notin labels /\ pc'[t] \notin labels,
           Pointing(t)', NEW b \in Blocks, ~Given(b), Given(b)',
           owned' = [owned EXCEPT ![t] = @ \union {b}],
           \A c \in Blocks \ {b} : (Given(c)' <=> Given(c))
    PROVE  PoolInv'
<1>1. PICK n \in Nat : \E q : Chain(n, q)
  BY DEF PoolInv
<1>2. PICK q : Chain(n, q)
  BY <1>1
<1>3. Chain(n, q)' /\ OnList' = OnList
  BY <1>2, SameList DEF list
<1>4. \A c \in Blocks \ {b} : SameBlock(t, c)
  BY <1>3 DEF SameBlock, list, PoolInv, PoolTypes
<1>5. (\E m \in Nat : \E r : Chain(m, r)') /\ freeListNext' = freeListNext /\ freeListRefs' = freeListRefs
  BY <1>3 DEF list
<1>6. Untouched(b)
  BY DEF PoolInv, InPlace, InHands, BeingLinked, BeingCounted, Listed, LeftBehind
<1>7. Owners(b)' = {t}
  BY <1>6 DEF Untouched, Place, Owners, PoolInv, PoolTypes
<1>8. \A labels \in {Referring, Linking, Counting} : Doing(labels, b)' = {}
  <2> SUFFICES ASSUME NEW labels \in {Referring, Linking, Counting} PROVE Doing(labels, b)' = {}
    OBVIOUS
  <2>1. Doing(labels, b) = {}
    BY <1>6 DEF Untouched, Place
  <2> QED BY <2>1, DoingMoves
<1>9. References(b)' = 0
  BY <1>8, FS_EmptySet DEF References
<1>10. Place(b, {t}, {}, {}, {})'
  BY <1>3, <1>6, <1>7, <1>8 DEF Place, Untouched
<1>11. InPlace(b)'
  BY <1>5, <1>6, <1>9, <1>10 DEF InPlace, InHands, Untouched
<1> QED BY <1>4, <1>5, <1>11, PoolKept

LEMMA RequisitionKeeps == ASSUME PoolInv, NEW t \in Threads, Requisition(t) PROVE PoolInv'
<1> USE DEF PoolInv, Requisition, Call, Goto
<1>1. PoolTypes'
  BY DEF PoolTypes, list, blocks
<1>2. OnlyStep(t)
  BY DEF OnlyStep, PoolTypes
<1>3. pc[t] = "idle" /\ pc'[t] \in {"load", "pool"}
  BY DEF PoolTypes
<1>4. \A labels \in {Referring, Linking, Counting} : pc[t] \notin labels /\ pc'[t] \notin labels
  BY <1>3 DEF Referring, Linking, Counting
<1>5. Pointing(t)'
  BY <1>3 DEF Pointing, Referring, Linking, Counting
<1>6. UNCHANGED list /\ UNCHANGED owned /\ \A c \in Blocks : (Given(c)' <=> Given(c))
  BY DEF Given, blocks
<1> QED BY <1>1, <1>2, <1>4, <1>5, <1>6, QuietStep

LEMMA TakeFromPoolKeeps == ASSUME PoolInv, NEW t \in Threads, TakeFromPool(t) PROVE PoolInv'
<1> USE DEF PoolInv
<1>1. PoolTypes'
  <2>1. owned' \in [Threads -> SUBSET Blocks]
    <3>1. initialBlockPoolIndex < initialBlockPoolSize => initialBlockPoolIndex \in Blocks
      BY PoolConstants DEF PoolTypes, Blocks
    <3> QED BY <3>1 DEF PoolTypes, TakeFromPool, Own
  <2>2. initialBlockPoolIndex' \in Nat /\ made' = made
    BY DEF PoolTypes, TakeFromPool
  <2> QED BY <2>1, <2>2 DEF PoolTypes, TakeFromPool, Goto, list, locals
<1>2. OnlyStep(t)
  BY DEF OnlyStep, PoolTypes, TakeFromPool, Goto, locals
<1>3. pc[t] = "pool" /\ pc'[t] \in {"idle", "load"} /\ UNCHANGED list
  BY DEF PoolTypes, TakeFromPool, Goto
<1>4. \A labels \in {Referring, Linking, Counting} : pc[t] \notin labels /\ pc'[t] \notin labels
  BY <1>3 DEF Referring, Linking, Counting
<1>5. Pointing(t)'
  BY <1>3 DEF Pointing, Referring, Linking, Counting
<1>6. CASE initialBlockPoolIndex >= initialBlockPoolSize
  <2>1. UNCHANGED <<owned, made>> /\ initialBlockPoolIndex' = initialBlockPoolIndex + 1
    BY <1>6, PoolConstants DEF TakeFromPool, PoolTypes
  <2>2. \A c \in Blocks : (Given(c)' <=> Given(c))
    BY <1>6, <2>1, PoolConstants DEF Given, PoolTypes, Blocks
  <2> QED BY <1>1, <1>2, <1>3, <1>4, <1>5, <2>1, <2>2, QuietStep
<1>7. CASE initialBlockPoolIndex < initialBlockPoolSize
  <2>1. PICK b : b = initialBlockPoolIndex
    OBVIOUS
  <2>2. owned' = [owned EXCEPT ![t] = @ \union {b}] /\ made' = made /\ initialBlockPoolIndex' = b + 1
    BY <1>7, <2>1 DEF TakeFromPool, Own
  <2>3. b \in Blocks /\ ~Given(b) /\ Given(b)'
    BY <1>7, <2>1, <2>2, PoolConstants DEF Given, PoolTypes, Blocks
  <2>4. \A c \in Blocks \ {b} : (Given(c)' <=> Given(c))
    BY <2>1, <2>2, PoolConstants DEF Given, PoolTypes, Blocks
  <2> QED BY <1>1, <1>2, <1>3, <1>4, <1>5, <2>2, <2>3, <2>4, FirstGiven
<1> QED BY <1>6, <1>7, PoolConstants DEF PoolTypes

LEMMA CreateKeeps == ASSUME PoolInv, NEW t \in Threads, Create(t) PROVE PoolInv'
<1> USE DEF PoolInv
<1>1. PoolTypes'
  <2>1. owned' \in [Threads -> SUBSET Blocks]
    <3>1. made < MaxBlocks => made \in Blocks
      BY PoolConstants DEF PoolTypes, Blocks
    <3> QED BY <3>1 DEF PoolTypes, Create, Own
  <2>2. made' \in initialBlockPoolSize .. MaxBlocks /\ initialBlockPoolIndex' = initialBlockPoolIndex
    BY PoolConstants DEF PoolTypes, Create
  <2> QED BY <2>1, <2>2 DEF PoolTypes, Create, Goto, list, locals
<1>2. OnlyStep(t)
  BY DEF OnlyStep, PoolTypes, Create, Goto, locals
<1>3. pc[t] = "create" /\ pc'[t] = "idle" /\ UNCHANGED list
  BY DEF PoolTypes, Create, Goto
<1>4. \A labels \in {Referring, Linking, Counting} : pc[t] \notin labels /\ pc'[t] \notin labels
  BY <1>3 DEF Referring, Linking, Counting
<1>5. Pointing(t)'
  BY <1>3 DEF Pointing, Referring, Linking, Counting
<1>6. CASE made >= MaxBlocks
  <2>1. UNCHANGED <<owned, made, initialBlockPoolIndex>>
    BY <1>6, PoolConstants DEF Create, PoolTypes
  <2> QED BY <1>1, <1>2, <1>3, <1>4, <1>5, <2>1, QuietStep DEF Given
<1>7. CASE made < MaxBlocks
  <2>1. PICK b : b = made
    OBVIOUS
  <2>2. owned' = [owned EXCEPT ![t] = @ \union {b}] /\ made' = b + 1 /\ initialBlockPoolIndex' = initialBlockPoolIndex
    BY <1>7, <2>1 DEF Create, Own
  <2>3. b \in Blocks /\ ~Given(b) /\ Given(b)'
    BY <1>7, <2>1, <2>2, PoolConstants DEF Given, PoolTypes, Blocks
  <2>4. \A c \in Blocks \ {b} : (Given(c)' <=> Given(c))
    BY <2>1, <2>2, PoolConstants DEF Given, PoolTypes, Blocks
  <2> QED BY <1>1, <1>2, <1>3, <1>4, <1>5, <2>2, <2>3, <2>4, FirstGiven
<1> QED BY <1>6, <1>7, PoolConstants DEF PoolTypes

LEMMA LoadHeadKeeps == ASSUME PoolInv, NEW t \in Threads, LoadHead(t) PROVE PoolInv'
<1> USE DEF PoolInv
<1>1. PoolTypes'
  BY DEF PoolTypes, LoadHead, Loop, Goto, list, blocks
<1>2. OnlyStep(t)
  BY DEF OnlyStep, PoolTypes, LoadHead, Loop, Goto
<1>3. pc[t] = "load" /\ pc'[t] = (IF freeListHead = Null THEN "create" ELSE "acquire") /\ head'[t] = freeListHead
  BY DEF PoolTypes, LoadHead, Loop, Goto
<1>4. \A labels \in {Referring, Linking, Counting} : pc[t] \notin labels /\ pc'[t] \notin labels
  BY <1>3 DEF Referring, Linking, Counting
<1>5. Pointing(t)'
  BY <1>3 DEF Pointing, Referring, Linking, Counting, PoolTypes
<1>6. UNCHANGED list /\ UNCHANGED owned /\ \A c \in Blocks : (Given(c)' <=> Given(c))
  BY DEF Given, blocks, LoadHead
<1> QED BY <1>1, <1>2, <1>4, <1>5, <1>6, QuietStep

LEMMA ReadNextKeeps == ASSUME PoolInv, NEW t \in Threads, ReadNext(t) PROVE PoolInv'
<1> USE DEF PoolInv
<1>1. pc[t] = "next" /\ node[t] \in Blocks
  BY DEF Pointing, ReadNext, Referring
<1>2. PoolTypes'
  BY <1>1 DEF PoolTypes, ReadNext, Goto, list, blocks, Referring
<1>3. OnlyStep(t)
  BY DEF OnlyStep, PoolTypes, ReadNext, Goto
<1>4. pc'[t] = "swing" /\ node' = node /\ next'[t] = freeListNext[node[t]] /\ UNCHANGED list
  BY DEF PoolTypes, ReadNext, Goto
<1>5. \A labels \in {Referring, Linking, Counting} : pc'[t] \in labels <=> pc[t] \in labels
  BY <1>1, <1>4 DEF Referring, Linking, Counting
<1>6. Pointing(t)'
  BY <1>1, <1>4 DEF Pointing, list
<1>7. UNCHANGED owned /\ \A c \in Blocks : (Given(c)' <=> Given(c))
  BY DEF Given, blocks, ReadNext
<1> QED BY <1>2, <1>3, <1>4, <1>5, <1>6, <1>7, QuietStep

LEMMA AddLoadKeeps == ASSUME PoolInv, NEW t \in Threads, AddLoad(t) PROVE PoolInv'
<1> USE DEF PoolInv
<1>1. pc[t] = "addload" /\ node[t] \in Blocks
  BY DEF Pointing, AddLoad, Linking
<1>2. PoolTypes'
  BY <1>1 DEF PoolTypes, AddLoad, Goto, list, blocks, Linking
<1>3. OnlyStep(t)
  BY DEF OnlyStep, PoolTypes, AddLoad, Goto
<1>4. pc'[t] = "link" /\ node' = node /\ UNCHANGED list
  BY DEF PoolTypes, AddLoad, Goto
<1>5. \A labels \in {Referring, Linking, Counting} : pc'[t] \in labels <=> pc[t] \in labels
  BY <1>1, <1>4 DEF Referring, Linking, Counting
<1>6. Pointing(t)'
  BY <1>1, <1>4 DEF Pointing
<1>7. UNCHANGED owned /\ \A c \in Blocks : (Given(c)' <=> Given(c))
  BY DEF Given, blocks, AddLoad
<1> QED BY <1>2, <1>3, <1>4, <1>5, <1>6, <1>7, QuietStep

-----------------------------------------------------------------------------
(* The pool of blocks: the steps that bring a block to another place.      *)

\* Where a block is that a thread has, or that is on the list.
LEMMA WhereIs ==
    ASSUME PoolInv, NEW t \in Threads, NEW b \in Blocks
    PROVE  /\ pc[t] \in Linking /\ node[t] = b =>
                /\ Place(b, {}, {t}, {}, {}) /\ Given(b) /\ Doing(Referring, b) = {} /\ freeListRefs[b] = Should
           /\ pc[t] \in Counting /\ node[t] = b =>
                Place(b, {}, {}, {t}, {}) /\ Given(b) /\ freeListRefs[b] = References(b) + 1
           /\ b \in owned[t] => Place(b, {t}, {}, {}, {}) /\ Given(b) /\ freeListRefs[b] = References(b)
           /\ b \in OnList => Listed(b)
           /\ pc[t] \in Referring /\ node[t] = b => InHands(b) \/ BeingCounted(b) \/ Listed(b) \/ LeftBehind(b)
<1>1. InPlace(b)
  BY DEF PoolInv
<1>2. ASSUME pc[t] \in Linking, node[t] = b PROVE t \in Doing(Linking, b)
  BY <1>2 DEF Doing
<1>3. ASSUME pc[t] \in Counting, node[t] = b PROVE t \in Doing(Counting, b)
  BY <1>3 DEF Doing
<1>4. ASSUME pc[t] \in Referring, node[t] = b PROVE t \in Doing(Referring, b)
  BY <1>4 DEF Doing
<1>5. ASSUME b \in owned[t] PROVE t \in Owners(b)
  BY <1>5 DEF Owners
<1>6. t \in Doing(Linking, b) =>
        /\ Place(b, {}, {t}, {}, {}) /\ Given(b) /\ Doing(Referring, b) = {} /\ freeListRefs[b] = Should
  BY <1>1 DEF InPlace, Untouched, InHands, BeingLinked, BeingCounted, Listed, LeftBehind, Place
<1>7. t \in Doing(Counting, b) => Place(b, {}, {}, {t}, {}) /\ Given(b) /\ freeListRefs[b] = References(b) + 1
  BY <1>1 DEF InPlace, Untouched, InHands, BeingLinked, BeingCounted, Listed, LeftBehind, Place
<1>8. t \in Owners(b) => Place(b, {t}, {}, {}, {}) /\ Given(b) /\ freeListRefs[b] = References(b)
  BY <1>1 DEF InPlace, Untouched, InHands, BeingLinked, BeingCounted, Listed, LeftBehind, Place
<1>9. b \in OnList => Listed(b)
  BY <1>1 DEF InPlace, Untouched, InHands, BeingLinked, BeingCounted, Listed, LeftBehind, Place
<1>10. t \in Doing(Referring, b) => InHands(b) \/ BeingCounted(b) \/ Listed(b) \/ LeftBehind(b)
  BY <1>1 DEF InPlace, Untouched, BeingLinked
<1> QED BY <1>2, <1>3, <1>4, <1>5, <1>6, <1>7, <1>8, <1>9, <1>10

LEMMA ListStays ==
    ASSUME PoolInv, UNCHANGED freeListHead, UNCHANGED freeListNext
    PROVE  (\E n \in Nat : \E q : Chain(n, q)') /\ OnList' = OnList
<1>1. PICK n \in Nat : \E q : Chain(n, q)
  BY DEF PoolInv
<1>2. PICK q : Chain(n, q)
  BY <1>1
<1> QED BY <1>2, SameList

\* A step that has to do with one block.
LEMMA BlockStep ==
    ASSUME PoolInv, NEW t \in Threads, OnlyStep(t), PoolTypes', \E n \in Nat : \E q : Chain(n, q)',
           UNCHANGED freeListNext, Pointing(t)', NEW b \in Blocks, InPlace(b)',
           \A c \in Blocks \ {b} : SameBlock(t, c)
    PROVE  PoolInv'
<1> DEFINE S == {b}
<1>1. (\A c \in S : InPlace(c)') /\ \A c \in Blocks \ S : SameBlock(t, c)
  OBVIOUS
<1> HIDE DEF S
<1> QED BY <1>1, PoolKept

LEMMA AcquireKeeps == ASSUME PoolInv, NEW t \in Threads, Acquire(t) PROVE PoolInv'
<1>1. PICK b \in Blocks : b = head[t]
  BY DEF PoolInv, Pointing, Acquire
<1>2. pc[t] = "acquire" /\ InPlace(b) /\ PoolTypes /\ Pointing(t)
  BY DEF PoolInv, Acquire
<1>3. OnlyStep(t)
  BY <1>2 DEF OnlyStep, PoolTypes, Acquire, Goto
<1>4. CASE Refs(b) = 0
  <2>1. pc' = [pc EXCEPT ![t] = "load"] /\ UNCHANGED <<list, blocks, node, locals>>
    BY <1>1, <1>4 DEF Acquire, Goto, list, locals
  <2>2. PoolTypes' /\ pc'[t] = "load"
    BY <1>2, <2>1 DEF PoolTypes, list, blocks, locals
  <2>3. \A labels \in {Referring, Linking, Counting} : pc[t] \notin labels /\ pc'[t] \notin labels
    BY <1>2, <2>2 DEF Referring, Linking, Counting
  <2>4. Pointing(t)'
    BY <2>2 DEF Pointing, Referring, Linking, Counting
  <2>5. UNCHANGED list /\ UNCHANGED owned /\ \A c \in Blocks : (Given(c)' <=> Given(c))
    BY <2>1 DEF Given, blocks
  <2> QED BY <1>3, <2>2, <2>3, <2>4, <2>5, QuietStep
<1>5. CASE Refs(b) # 0
  <2>1. /\ pc' = [pc EXCEPT ![t] = "next"] /\ node' = [node EXCEPT ![t] = b]
        /\ UNCHANGED <<freeListHead, freeListNext, blocks, head, next, inGet, calls>>
        /\ FetchAdd(b, 1)
    BY <1>1, <1>5 DEF Acquire, Goto
  <2>2. References(b) \in Nat /\ References(b) <= Cardinality(Threads)
    BY ReferencesAre
  <2>3. ~Untouched(b) /\ ~BeingLinked(b)
    <3>1. freeListRefs[b] # 0 /\ freeListRefs[b] # Should
      <4>1. freeListRefs[b] \in Nat /\ Refs(b) = IF freeListRefs[b] < Should THEN freeListRefs[b]
                                                                           ELSE freeListRefs[b] - Should
        BY <1>2, RefsIs
      <4> QED BY <1>5, <4>1, PoolConstants
    <3> QED BY <3>1 DEF Untouched, BeingLinked
  <2>4. freeListRefs[b] \in {References(b), References(b) + 1, Should + References(b)}
    BY <1>2, <2>3 DEF InPlace, InHands, BeingCounted, Listed, LeftBehind
  <2>5. freeListRefs' = [freeListRefs EXCEPT ![b] = freeListRefs[b] + 1]
    <3>1. freeListRefs[b] + 1 \in 0 .. 2 * Should - 1
      BY <2>2, <2>4, PoolConstants
    <3> QED BY <1>2, <2>1, <3>1, FetchAddIs DEF PoolTypes
  <2>6. PoolTypes' /\ pc'[t] = "next" /\ node'[t] = b
    BY <1>2, <2>1, <2>5 DEF PoolTypes, blocks, Referring
  <2>9. (\E m \in Nat : \E r : Chain(m, r)') /\ OnList' = OnList
    BY <2>1, ListStays
  <2>10. Pointing(t)'
    BY <2>6 DEF Pointing, Referring
  <2>11. \A c \in Blocks \ {b} : SameBlock(t, c)
    BY <1>2, <2>1, <2>5, <2>6, <2>9 DEF SameBlock, Given, blocks, PoolTypes, Referring, Linking, Counting
  <2>12. InPlace(b)'
    <3>1. References(b)' = References(b) + 1
      <4>1. pc'[t] \in Referring /\ pc[t] \notin Referring
        BY <1>2, <2>6 DEF Referring
      <4> QED BY <1>3, <2>2, <2>6, <4>1, ReferencesMove
    <3>2. Doing(Linking, b)' = Doing(Linking, b) /\ Doing(Counting, b)' = Doing(Counting, b)
      <4>1. pc'[t] \notin Linking /\ pc[t] \notin Linking /\ pc'[t] \notin Counting /\ pc[t] \notin Counting
        BY <1>2, <2>6 DEF Linking, Counting
      <4> QED BY <4>1, <1>3, DoingMoves DEF Doing
    <3>3. Doing(Referring, b)' # {}
      BY <2>6 DEF Doing, Referring
    <3>4. \A o, l, k, s : Place(b, o, l, k, s) => Place(b, o, l, k, s)'
      BY <2>1, <2>9, <3>2 DEF Place, Owners, blocks
    <3>5. freeListRefs'[b] = freeListRefs[b] + 1 /\ (Given(b) => Given(b)')
      BY <1>2, <2>1, <2>5 DEF PoolTypes, Given, blocks
    <3>6. InHands(b) => InHands(b)'
      BY <3>1, <3>4, <3>5 DEF InHands
    <3>7. BeingCounted(b) => BeingCounted(b)'
      BY <3>1, <3>4, <3>5 DEF BeingCounted
    <3>8. Listed(b) => Listed(b)'
      BY <3>1, <3>4, <3>5 DEF Listed
    <3>9. LeftBehind(b) => LeftBehind(b)'
      BY <2>2, <3>1, <3>3, <3>4, <3>5, PoolConstants DEF LeftBehind
    <3> QED BY <1>2, <2>3, <3>6, <3>7, <3>8, <3>9 DEF InPlace
  <2> QED BY <1>3, <2>1, <2>6, <2>9, <2>10, <2>11, <2>12, BlockStep
<1> QED BY <1>4, <1>5

LEMMA SwingKeeps == ASSUME PoolInv, NEW t \in Threads, Swing(t) PROVE PoolInv'
<1>1. PICK b \in Blocks : b = node[t]
  BY DEF PoolInv, Pointing, Swing, Referring
<1>2. pc[t] = "swing" /\ InPlace(b) /\ PoolTypes /\ Pointing(t)
  BY DEF PoolInv, Swing
<1>3. OnlyStep(t)
  BY <1>2 DEF OnlyStep, PoolTypes, Swing, Goto
<1>4. UNCHANGED <<freeListNext, freeListRefs, blocks, node, next, inGet, calls>>
  BY DEF Swing
<1>5. CASE freeListHead # b
  <2>1. pc' = [pc EXCEPT ![t] = "unref"] /\ head' = [head EXCEPT ![t] = freeListHead] /\ UNCHANGED freeListHead
    BY <1>1, <1>5 DEF Swing, Goto
  <2>2. PoolTypes' /\ pc'[t] = "unref"
    BY <1>2, <1>4, <2>1 DEF PoolTypes, blocks, Referring
  <2>3. \A labels \in {Referring, Linking, Counting} : pc[t] \in labels <=> pc'[t] \in labels
    BY <1>2, <2>2 DEF Referring, Linking, Counting
  <2>4. Pointing(t)'
    BY <1>1, <1>4, <2>2 DEF Pointing
  <2>5. UNCHANGED list /\ UNCHANGED owned /\ \A c \in Blocks : (Given(c)' <=> Given(c))
    BY <1>4, <2>1 DEF Given, blocks, list
  <2> QED BY <1>3, <1>4, <2>2, <2>3, <2>4, <2>5, QuietStep
<1>6. CASE freeListHead = b
  <2>1. pc' = [pc EXCEPT ![t] = "got"] /\ freeListHead' = freeListNext[b] /\ UNCHANGED head
    BY <1>1, <1>2, <1>6 DEF Swing, Goto, Pointing
  <2>2. PoolTypes' /\ pc'[t] = "got"
    BY <1>2, <1>4, <2>1 DEF PoolTypes, blocks, Referring
  <2>3. (\E m \in Nat : \E r : Chain(m, r)') /\ b \in OnList /\ OnList' = OnList \ {b}
    <3>1. PICK n \in Nat : \E q : Chain(n, q)
      BY DEF PoolInv
    <3>2. PICK q : Chain(n, q)
      BY <3>1
    <3> QED BY <1>4, <1>6, <2>1, <3>2, PoppedList
  <2>4. Listed(b)
    BY <2>3, WhereIs
  <2>5. Pointing(t)'
    BY <1>1, <1>4, <2>2 DEF Pointing
  <2>6. \A c \in Blocks \ {b} : SameBlock(t, c)
    BY <1>1, <1>2, <1>4, <2>2, <2>3 DEF SameBlock, Given, blocks, Referring, Linking, Counting
  <2>7. InPlace(b)'
    <3>1. References(b)' = References(b)
      <4>1. pc'[t] \in Referring /\ pc[t] \in Referring /\ References(b) \in Nat
        BY <1>2, <2>2, ReferencesAre DEF Referring
      <4> QED BY <1>1, <1>3, <1>4, <4>1, ReferencesMove
    <3>2. Doing(Linking, b)' = Doing(Linking, b)
      <4>1. pc'[t] \notin Linking /\ pc[t] \notin Linking
        BY <1>2, <2>2 DEF Linking
      <4> QED BY <4>1, <1>3, DoingMoves DEF Doing
    <3>3. Doing(Counting, b)' = {t}
      <4>1. pc'[t] \in Counting /\ Doing(Counting, b) = {} /\ node'[t] = b
        BY <1>1, <1>4, <2>2, <2>4 DEF Counting, Listed, Place
      <4> QED BY <4>1, <1>3, DoingMoves
    <3>4. Place(b, {}, {}, {t}, {})'
      BY <1>4, <2>3, <2>4, <3>2, <3>3 DEF Place, Listed, Owners, blocks
    <3>5. BeingCounted(b)'
      BY <1>4, <2>4, <3>1, <3>4 DEF BeingCounted, Listed, Given, blocks
    <3> QED BY <3>5 DEF InPlace
  <2> QED BY <1>3, <1>4, <2>2, <2>3, <2>5, <2>6, <2>7, BlockStep
<1> QED BY <1>5, <1>6

LEMMA GotKeeps == ASSUME PoolInv, NEW t \in Threads, Got(t) PROVE PoolInv'
<1>1. PICK b \in Blocks : b = node[t]
  BY DEF PoolInv, Pointing, Got, Referring
<1>2. pc[t] = "got" /\ InPlace(b) /\ PoolTypes /\ Pointing(t)
  BY DEF PoolInv, Got
<1>3. OnlyStep(t)
  BY <1>2 DEF OnlyStep, PoolTypes, Got, Goto, locals
<1>4. /\ UNCHANGED <<freeListHead, freeListNext, initialBlockPoolIndex, made, locals>>
      /\ FetchAdd(b, -2) /\ pc' = [pc EXCEPT ![t] = "idle"] /\ owned' = [owned EXCEPT ![t] = @ \union {b}]
  BY <1>1 DEF Got, Own, Goto
<1>5. Place(b, {}, {}, {t}, {}) /\ Given(b) /\ freeListRefs[b] = References(b) + 1
  BY <1>1, <1>2, WhereIs DEF Counting
<1>6. References(b)' = References(b) - 1 /\ References(b)' \in Nat
  <2>1. pc'[t] \notin Referring /\ pc[t] \in Referring
    BY <1>2, <1>4 DEF Referring, PoolTypes
  <2>2. References(b) \in Nat /\ Doing(Referring, b) # {}
    BY <1>1, <2>1, ReferencesAre DEF Doing
  <2>3. References(b) # 0
    BY <2>2, ReferencesAre
  <2>4. References(b)' = References(b) - 1
    BY <1>1, <1>3, <2>1, <2>2, ReferencesMove
  <2> QED BY <2>2, <2>3, <2>4
<1>7. freeListRefs' = [freeListRefs EXCEPT ![b] = freeListRefs[b] + (-2)]
  <2>1. freeListRefs[b] + (-2) \in 0 .. 2 * Should - 1
    BY <1>5, <1>6, ReferencesAre, PoolConstants
  <2> QED BY <1>2, <1>4, <2>1, FetchAddIs DEF PoolTypes
<1>8. freeListRefs'[b] = References(b)'
  BY <1>2, <1>5, <1>6, <1>7, ReferencesAre DEF PoolTypes
<1>9. PoolTypes' /\ pc'[t] = "idle"
  <2>1. freeListRefs' \in [Blocks -> Nat]
    BY <1>2, <1>6, <1>7, <1>8 DEF PoolTypes
  <2> QED BY <1>2, <1>4, <2>1 DEF PoolTypes, locals
<1>10. (\E m \in Nat : \E r : Chain(m, r)') /\ OnList' = OnList
  BY <1>4, ListStays
<1>11. Pointing(t)'
  BY <1>9 DEF Pointing, Referring, Linking, Counting
<1>12. \A c \in Blocks \ {b} : SameBlock(t, c)
  BY <1>1, <1>2, <1>4, <1>7, <1>9, <1>10 DEF SameBlock, Given, locals, PoolTypes, Referring, Linking, Counting
<1>13. InPlace(b)'
  <2>1. Doing(Linking, b)' = {}
    <3>1. pc'[t] \notin Linking /\ Doing(Linking, b) = {}
      BY <1>5, <1>9 DEF Linking, Place
    <3> QED BY <3>1, <1>3, DoingMoves
  <2>2. Doing(Counting, b)' = {}
    <3>1. pc'[t] \notin Counting /\ Doing(Counting, b) = {t}
      BY <1>5, <1>9 DEF Counting, Place
    <3> QED BY <3>1, <1>3, DoingMoves
  <2>3. Owners(b)' = {t}
    BY <1>2, <1>4, <1>5 DEF Owners, Place, PoolTypes
  <2>4. Place(b, {t}, {}, {}, {})'
    BY <1>5, <1>10, <2>1, <2>2, <2>3 DEF Place
  <2> QED BY <1>4, <1>5, <1>8, <2>4 DEF InPlace, InHands, Given
<1> QED BY <1>3, <1>4, <1>9, <1>10, <1>11, <1>12, <1>13, BlockStep

LEMMA UnrefKeeps == ASSUME PoolInv, NEW t \in Threads, Unref(t) PROVE PoolInv'
<1>1. PICK b \in Blocks : b = node[t]
  BY DEF PoolInv, Pointing, Unref, Referring
<1>2. pc[t] = "unref" /\ InPlace(b) /\ PoolTypes /\ Pointing(t)
  BY DEF PoolInv, Unref
<1>3. OnlyStep(t)
  BY <1>2 DEF OnlyStep, PoolTypes, Unref, Goto, Loop
<1>4. UNCHANGED <<freeListHead, freeListNext, blocks, node, head, next, calls>> /\ FetchAdd(b, -1)
  BY <1>1 DEF Unref
<1>5. InHands(b) \/ BeingCounted(b) \/ Listed(b) \/ LeftBehind(b)
  BY <1>1, <1>2, WhereIs DEF Referring
<1>6. References(b) \in Nat \ {0} /\ References(b) <= Cardinality(Threads)
  <2>1. Doing(Referring, b) # {}
    BY <1>1, <1>2 DEF Doing, Referring
  <2> QED BY <2>1, ReferencesAre
<1>7. References(b)' = References(b) - 1
  <2>1. pc'[t] \notin Referring /\ pc[t] \in Referring
    BY <1>2 DEF Referring, PoolTypes, Unref, Goto, Loop
  <2> QED BY <1>1, <1>3, <1>6, <2>1, ReferencesMove
<1>8. freeListRefs[b] \in {References(b), References(b) + 1, Should + References(b)}
  BY <1>5 DEF InHands, BeingCounted, Listed, LeftBehind
<1>9. freeListRefs' = [freeListRefs EXCEPT ![b] = freeListRefs[b] + (-1)]
  <2>1. freeListRefs[b] + (-1) \in 0 .. 2 * Should - 1
    BY <1>6, <1>8, PoolConstants
  <2> QED BY <1>2, <1>4, <2>1, FetchAddIs DEF PoolTypes
<1>10. freeListRefs'[b] = freeListRefs[b] - 1 /\ freeListRefs' \in [Blocks -> Nat]
  BY <1>2, <1>6, <1>8, <1>9, PoolConstants DEF PoolTypes
<1>11. (\E m \in Nat : \E r : Chain(m, r)') /\ OnList' = OnList
  BY <1>4, ListStays
<1>12. Owners(b)' = Owners(b) /\ (Given(b)' <=> Given(b))
  BY <1>4 DEF Owners, Given, blocks
<1>13. CASE freeListRefs[b] = Should + 1
  <2>1. pc' = [pc EXCEPT ![t] = "addload"] /\ inGet' = [inGet EXCEPT ![t] = TRUE]
    BY <1>1, <1>13 DEF Unref, Goto
  <2>2. PoolTypes' /\ pc'[t] = "addload"
    BY <1>2, <1>4, <1>10, <2>1 DEF PoolTypes, blocks, Linking
  <2>3. Pointing(t)'
    BY <1>1, <1>4, <2>2 DEF Pointing
  <2>4. \A c \in Blocks \ {b} : SameBlock(t, c)
    BY <1>1, <1>2, <1>4, <1>9, <1>11, <2>2 DEF SameBlock, Given, blocks, PoolTypes, Referring, Linking, Counting
  <2>5. LeftBehind(b) /\ References(b) = 1
    <3>1. freeListRefs[b] # References(b) /\ freeListRefs[b] # References(b) + 1
      BY <1>6, <1>13, PoolConstants
    <3>2. LeftBehind(b)
      BY <1>5, <3>1 DEF InHands, BeingCounted, Listed
    <3>3. freeListRefs[b] = Should + References(b)
      BY <3>2 DEF LeftBehind
    <3> QED BY <1>6, <1>13, <3>2, <3>3, PoolConstants
  <2>6. Doing(Linking, b)' = {t} /\ Doing(Counting, b)' = {}
    <3>1. pc'[t] \in Linking /\ pc'[t] \notin Counting /\ node'[t] = b
      BY <1>1, <1>4, <2>2 DEF Linking, Counting
    <3>2. Doing(Linking, b) = {} /\ Doing(Counting, b) = {}
      BY <2>5 DEF LeftBehind, Place
    <3> QED BY <1>3, <3>1, <3>2, DoingMoves
  <2>7. Doing(Referring, b)' = {}
    <3>1. References(b)' = 0
      BY <1>7, <2>5
    <3>2. References(b)' = 0 => Doing(Referring, b)' = {}
      <4>1. References(b) = 0 => Doing(Referring, b) = {}
        BY ReferencesAre
      <4>2. IsFiniteSet(Doing(Referring, b)')
        <5>1. Doing(Referring, b)' \subseteq Threads
          BY DEF Doing
        <5> QED BY <5>1, PoolConstants, FS_Subset
      <4> QED BY <4>2, FS_EmptySet DEF References
    <3> QED BY <3>1, <3>2
  <2>8. Place(b, {}, {t}, {}, {})'
    BY <1>11, <1>12, <2>5, <2>6 DEF Place, LeftBehind
  <2>9. InPlace(b)'
    <3>1. freeListRefs'[b] = Should
      BY <1>10, <1>13, PoolConstants
    <3>2. Given(b)'
      BY <1>12, <2>5 DEF LeftBehind
    <3> QED BY <2>7, <2>8, <3>1, <3>2 DEF InPlace, BeingLinked
  <2> QED BY <1>3, <1>4, <1>11, <2>2, <2>3, <2>4, <2>9, BlockStep
<1>14. CASE freeListRefs[b] # Should + 1
  <2>1. pc' = [pc EXCEPT ![t] = IF head[t] = Null THEN "create" ELSE "acquire"] /\ inGet' = inGet
    BY <1>1, <1>14 DEF Unref, Goto, Loop
  <2>2. PoolTypes' /\ pc'[t] = (IF head[t] = Null THEN "create" ELSE "acquire")
    BY <1>2, <1>4, <1>10, <2>1 DEF PoolTypes, blocks
  <2>3. Pointing(t)'
    BY <1>2, <1>4, <2>2 DEF Pointing, PoolTypes, Referring, Linking, Counting
  <2>4. \A c \in Blocks \ {b} : SameBlock(t, c)
    BY <1>1, <1>2, <1>4, <1>9, <1>11, <2>2 DEF SameBlock, Given, blocks, PoolTypes, Referring, Linking, Counting
  <2>5. Doing(Linking, b)' = Doing(Linking, b) /\ Doing(Counting, b)' = Doing(Counting, b)
    <3>1. pc'[t] \notin Linking /\ pc[t] \notin Linking /\ pc'[t] \notin Counting /\ pc[t] \notin Counting
      BY <1>2, <2>2 DEF Linking, Counting
    <3> QED BY <3>1, <1>3, DoingMoves DEF Doing
  <2>6. \A o, l, k, s : Place(b, o, l, k, s) => Place(b, o, l, k, s)'
    BY <1>11, <1>12, <2>5 DEF Place
  <2>7. InHands(b) => InHands(b)'
    <3>1. freeListRefs[b] = References(b) => freeListRefs'[b] = References(b)'
      BY <1>6, <1>7, <1>10
    <3> QED BY <1>12, <2>6, <3>1 DEF InHands
  <2>8. BeingCounted(b) => BeingCounted(b)'
    <3>1. freeListRefs[b] = References(b) + 1 => freeListRefs'[b] = References(b)' + 1
      BY <1>6, <1>7, <1>10
    <3> QED BY <1>12, <2>6, <3>1 DEF BeingCounted
  <2>9. Listed(b) => Listed(b)'
    <3>1. freeListRefs[b] = References(b) + 1 => freeListRefs'[b] = References(b)' + 1
      BY <1>6, <1>7, <1>10
    <3> QED BY <1>12, <2>6, <3>1 DEF Listed
  <2>10. LeftBehind(b) => LeftBehind(b)'
    <3> SUFFICES ASSUME LeftBehind(b) PROVE LeftBehind(b)'
      OBVIOUS
    <3>1. References(b)' # 0
      BY <1>6, <1>7, <1>14, PoolConstants DEF LeftBehind
    <3>2. Doing(Referring, b)' # {}
      BY <3>1, FS_EmptySet DEF References
    <3>3. Place(b, {}, {}, {}, {})' /\ Given(b)'
      BY <1>12, <2>6 DEF LeftBehind
    <3>4. freeListRefs'[b] = Should + References(b)'
      BY <1>6, <1>7, <1>10, PoolConstants DEF LeftBehind
    <3> QED BY <3>2, <3>3, <3>4 DEF LeftBehind
  <2>11. InPlace(b)'
    BY <1>5, <2>7, <2>8, <2>9, <2>10 DEF InPlace
  <2> QED BY <1>3, <1>4, <1>11, <2>2, <2>3, <2>4, <2>11, BlockStep
<1> QED BY <1>13, <1>14

LEMMA AddKeeps == ASSUME PoolInv, NEW t \in Threads, NEW b \in owned[t], Add(t, b) PROVE PoolInv'
<1>1. pc[t] = "idle" /\ b \in Blocks /\ PoolTypes
  BY DEF PoolInv, PoolTypes, Add, Call
<1>2. /\ UNCHANGED <<freeListHead, freeListNext, initialBlockPoolIndex, made, head, next>>
      /\ owned' = [owned EXCEPT ![t] = @ \ {b}] /\ node' = [node EXCEPT ![t] = b]
      /\ inGet' = [inGet EXCEPT ![t] = FALSE] /\ calls' = [calls EXCEPT ![t] = @ + 1]
      /\ FetchAdd(b, Should) /\ pc' = [pc EXCEPT ![t] = IF freeListRefs[b] = 0 THEN "addload" ELSE "idle"]
  BY DEF Add, Call, Goto
<1>3. OnlyStep(t)
  BY <1>1, <1>2 DEF OnlyStep, PoolTypes
<1>4. Place(b, {t}, {}, {}, {}) /\ Given(b) /\ freeListRefs[b] = References(b)
  BY <1>1, WhereIs
<1>5. References(b) \in Nat /\ References(b) <= Cardinality(Threads)
  BY ReferencesAre
<1>6. freeListRefs' = [freeListRefs EXCEPT ![b] = freeListRefs[b] + Should]
  <2>1. freeListRefs[b] + Should \in 0 .. 2 * Should - 1 /\ Should \in Int
    BY <1>4, <1>5, PoolConstants
  <2> QED BY <1>1, <1>2, <2>1, FetchAddIs DEF PoolTypes
<1>7. freeListRefs'[b] = References(b) + Should /\ freeListRefs' \in [Blocks -> Nat]
  BY <1>1, <1>4, <1>5, <1>6, PoolConstants DEF PoolTypes
<1>8. PoolTypes' /\ pc'[t] = (IF freeListRefs[b] = 0 THEN "addload" ELSE "idle") /\ node'[t] = b
  <2>1. owned' \in [Threads -> SUBSET Blocks]
    BY <1>1, <1>2 DEF PoolTypes
  <2> QED BY <1>1, <1>2, <1>7, <2>1 DEF PoolTypes, Linking
<1>9. (\E m \in Nat : \E r : Chain(m, r)') /\ OnList' = OnList
  BY <1>2, ListStays
<1>10. Pointing(t)'
  BY <1>1, <1>8 DEF Pointing, Referring, Linking, Counting
<1>11. \A c \in Blocks \ {b} : SameBlock(t, c)
  BY <1>1, <1>2, <1>6, <1>8, <1>9 DEF SameBlock, Given, PoolTypes, Referring, Linking, Counting
<1>12. Doing(Referring, b)' = Doing(Referring, b) /\ References(b)' = References(b)
  <2>1. pc'[t] \notin Referring /\ pc[t] \notin Referring
    BY <1>1, <1>8 DEF Referring
  <2>2. Doing(Referring, b)' = Doing(Referring, b)
    BY <1>3, <2>1, DoingMoves DEF Doing
  <2> QED BY <2>2 DEF References
<1>13. Owners(b)' = {} /\ (Given(b)' <=> Given(b))
  BY <1>1, <1>2, <1>4 DEF Owners, Place, PoolTypes, Given
<1>14. Doing(Counting, b)' = {}
  <2>1. pc'[t] \notin Counting /\ Doing(Counting, b) = {}
    BY <1>4, <1>8 DEF Counting, Place
  <2> QED BY <2>1, <1>3, DoingMoves
<1>15. Doing(Linking, b)' = IF freeListRefs[b] = 0 THEN {t} ELSE {}
  <2>1. Doing(Linking, b) = {} /\ (pc'[t] \in Linking <=> freeListRefs[b] = 0)
    BY <1>4, <1>8 DEF Linking, Place
  <2> QED BY <2>1, <1>3, <1>8, DoingMoves
<1>16. OnList' \intersect {b} = {}
  BY <1>4, <1>9 DEF Place
<1>17. InPlace(b)'
  <2>1. CASE freeListRefs[b] = 0
    <3>1. Doing(Referring, b) = {} /\ freeListRefs'[b] = Should
      <4>1. References(b) = 0 /\ freeListRefs'[b] = Should
        BY <1>4, <1>7, <2>1, PoolConstants
      <4> QED BY <4>1, ReferencesAre
    <3>2. Place(b, {}, {t}, {}, {})'
      BY <1>13, <1>14, <1>15, <1>16, <2>1 DEF Place
    <3> QED BY <1>4, <1>12, <1>13, <3>1, <3>2 DEF InPlace, BeingLinked
  <2>2. CASE freeListRefs[b] # 0
    <3>1. Doing(Referring, b) # {} /\ freeListRefs'[b] = Should + References(b)'
      BY <1>4, <1>5, <1>7, <1>12, <2>2, ReferencesAre, PoolConstants
    <3>2. Place(b, {}, {}, {}, {})'
      BY <1>13, <1>14, <1>15, <1>16, <2>2 DEF Place
    <3> QED BY <1>4, <1>12, <1>13, <3>1, <3>2 DEF InPlace, LeftBehind
  <2> QED BY <2>1, <2>2
<1> QED BY <1>1, <1>2, <1>3, <1>8, <1>9, <1>10, <1>11, <1>17, BlockStep

LEMMA LinkKeeps == ASSUME PoolInv, NEW t \in Threads, Link(t) PROVE PoolInv'
<1>1. PICK b \in Blocks : b = node[t]
  BY DEF PoolInv, Pointing, Link, Linking
<1>2. pc[t] = "link" /\ PoolTypes
  BY DEF PoolInv, Link
<1>3. OnlyStep(t)
  BY <1>2 DEF OnlyStep, PoolTypes, Link, Goto, locals
<1>4. /\ UNCHANGED <<freeListHead, freeListRefs, blocks, locals>> /\ pc' = [pc EXCEPT ![t] = "one"]
      /\ freeListNext' = [freeListNext EXCEPT ![b] = next[t]]
  BY <1>1 DEF Link, Goto
<1>5. PoolTypes' /\ pc'[t] = "one" /\ node' = node /\ next' = next
  BY <1>2, <1>4 DEF PoolTypes, blocks, locals, Linking
<1>6. Place(b, {}, {t}, {}, {}) /\ Doing(Referring, b) = {}
  BY <1>1, <1>2, WhereIs DEF Linking
<1>7. \A c \in Blocks \ {b} : freeListNext'[c] = freeListNext[c]
  BY <1>2, <1>4 DEF PoolTypes
<1>8. (\E m \in Nat : \E r : Chain(m, r)') /\ OnList' = OnList
  <2>1. PICK n \in Nat : \E q : Chain(n, q)
    BY DEF PoolInv
  <2>2. PICK q : Chain(n, q)
    BY <2>1
  <2>3. OnList \subseteq Blocks \ {b}
    <3>1. OnList = {q[i] : i \in 1 .. n}
      BY <2>2, OnListIs
    <3> QED BY <1>6, <2>2, <3>1 DEF Chain, Place
  <2>4. Chain(n, q)' /\ OnList' = OnList
    BY <1>4, <1>7, <2>2, <2>3, SameList
  <2> QED BY <2>4
<1>9. Pointing(t)'
  <2>1. freeListNext'[b] = next[t]
    BY <1>2, <1>4 DEF PoolTypes
  <2> QED BY <1>1, <1>5, <2>1 DEF Pointing
<1>10. \A c \in Blocks : SameBlock(t, c)
  <2>1. \A labels \in {Referring, Linking, Counting} : pc'[t] \in labels <=> pc[t] \in labels
    BY <1>2, <1>5 DEF Referring, Linking, Counting
  <2> QED BY <1>4, <1>5, <1>8, <2>1 DEF SameBlock, Given, blocks
<1>11. ASSUME NEW u \in Threads \ {t}, pc[u] \in {"swing", "one", "publish"}
       PROVE  freeListNext'[node[u]] = freeListNext[node[u]]
  <2>1. node[u] \in Blocks
    BY <1>11 DEF PoolInv, Pointing, Referring, Linking, Counting
  <2>2. node[u] # b
    BY <1>6, <1>11 DEF Place, Doing, Referring, Linking, Counting
  <2> QED BY <1>7, <2>1, <2>2
<1> DEFINE S == {}
<1>12. (\A c \in S : InPlace(c)') /\ \A c \in Blocks \ S : SameBlock(t, c)
  BY <1>10
<1> HIDE DEF S
<1> QED BY <1>3, <1>5, <1>8, <1>9, <1>11, <1>12, PoolKept

LEMMA OneKeeps == ASSUME PoolInv, NEW t \in Threads, One(t) PROVE PoolInv'
<1>1. PICK b \in Blocks : b = node[t]
  BY DEF PoolInv, Pointing, One, Linking
<1>2. pc[t] = "one" /\ PoolTypes /\ Pointing(t)
  BY DEF PoolInv, One
<1>3. OnlyStep(t)
  BY <1>2 DEF OnlyStep, PoolTypes, One, Goto, locals
<1>4. /\ UNCHANGED <<freeListHead, freeListNext, blocks, locals>> /\ pc' = [pc EXCEPT ![t] = "publish"]
      /\ freeListRefs' = [freeListRefs EXCEPT ![b] = 1]
  BY <1>1 DEF One, Goto
<1>5. PoolTypes' /\ pc'[t] = "publish" /\ node' = node /\ next' = next
  BY <1>2, <1>4 DEF PoolTypes, blocks, locals, Counting
<1>6. Place(b, {}, {t}, {}, {}) /\ Doing(Referring, b) = {} /\ Given(b)
  BY <1>1, <1>2, WhereIs DEF Linking
<1>7. (\E m \in Nat : \E r : Chain(m, r)') /\ OnList' = OnList
  BY <1>4, ListStays
<1>8. Pointing(t)'
  BY <1>1, <1>2, <1>4, <1>5 DEF Pointing
<1>9. \A c \in Blocks \ {b} : SameBlock(t, c)
  BY <1>1, <1>2, <1>4, <1>5, <1>7 DEF SameBlock, Given, blocks, PoolTypes, Referring, Linking, Counting
<1>10. InPlace(b)'
  <2>1. Doing(Referring, b)' = {}
    <3>1. pc'[t] \notin Referring
      BY <1>5 DEF Referring
    <3> QED BY <1>3, <1>6, <3>1, DoingMoves
  <2>2. References(b)' = 0
    BY <2>1, FS_EmptySet DEF References
  <2>3. Doing(Linking, b)' = {} /\ Doing(Counting, b)' = {t}
    <3>1. pc'[t] \notin Linking /\ pc'[t] \in Counting /\ node'[t] = b
      BY <1>1, <1>5 DEF Linking, Counting
    <3>2. Doing(Linking, b) = {t} /\ Doing(Counting, b) = {}
      BY <1>6 DEF Place
    <3> QED BY <1>3, <3>1, <3>2, DoingMoves
  <2>4. Place(b, {}, {}, {t}, {})'
    BY <1>4, <1>6, <1>7, <2>3 DEF Place, Owners, blocks
  <2>5. freeListRefs'[b] = References(b)' + 1
    BY <1>2, <1>4, <2>2 DEF PoolTypes
  <2> QED BY <1>4, <1>6, <2>4, <2>5 DEF InPlace, BeingCounted, Given, blocks
<1> QED BY <1>3, <1>4, <1>5, <1>7, <1>8, <1>9, <1>10, BlockStep

LEMMA PublishKeeps == ASSUME PoolInv, NEW t \in Threads, Publish(t) PROVE PoolInv'
<1>1. PICK b \in Blocks : b = node[t]
  BY DEF PoolInv, Pointing, Publish, Counting
<1>2. pc[t] = "publish" /\ PoolTypes /\ Pointing(t)
  BY DEF PoolInv, Publish
<1>3. OnlyStep(t)
  BY <1>2 DEF OnlyStep, PoolTypes, Publish, Return, Loop, Goto
<1>4. UNCHANGED <<freeListNext, freeListRefs, blocks, node, head, inGet, calls>>
  BY DEF Publish
<1>5. CASE freeListHead # next[t]
  <2>1. pc' = [pc EXCEPT ![t] = "retry"] /\ next' = [next EXCEPT ![t] = freeListHead] /\ UNCHANGED freeListHead
    BY <1>5 DEF Publish, Goto
  <2>2. PoolTypes' /\ pc'[t] = "retry"
    BY <1>2, <1>4, <2>1 DEF PoolTypes, blocks, Counting
  <2>3. \A labels \in {Referring, Linking, Counting} : pc[t] \in labels <=> pc'[t] \in labels
    BY <1>2, <2>2 DEF Referring, Linking, Counting
  <2>4. Pointing(t)'
    BY <1>1, <1>4, <2>2 DEF Pointing
  <2>5. UNCHANGED list /\ UNCHANGED owned /\ \A c \in Blocks : (Given(c)' <=> Given(c))
    BY <1>4, <2>1 DEF Given, blocks, list
  <2> QED BY <1>3, <1>4, <2>2, <2>3, <2>4, <2>5, QuietStep
<1>6. CASE freeListHead = next[t]
  <2>1. freeListHead' = b /\ next' = next /\ Return(t) /\ freeListNext[b] = freeListHead
    BY <1>1, <1>2, <1>6 DEF Publish, Pointing
  <2>2. /\ pc'[t] \in {"idle", "create", "acquire"} /\ (pc'[t] = "acquire" => head[t] # Null)
        /\ pc' = [pc EXCEPT ![t] = pc'[t]]
    BY <1>2, <2>1 DEF Return, Loop, Goto, PoolTypes
  <2>3. PoolTypes'
    <3>1. PICK l : l = pc'[t]
      OBVIOUS
    <3>2. pc' = [pc EXCEPT ![t] = l] /\ l \in {"idle", "create", "acquire"}
      BY <2>2, <3>1
    <3> QED BY <1>2, <1>4, <2>1, <3>2 DEF PoolTypes, blocks
  <2>4. Place(b, {}, {}, {t}, {}) /\ Given(b) /\ freeListRefs[b] = References(b) + 1
    BY <1>1, <1>2, WhereIs DEF Counting
  <2>5. (\E m \in Nat : \E r : Chain(m, r)') /\ OnList' = OnList \union {b}
    <3>1. PICK n \in Nat : \E q : Chain(n, q)
      BY DEF PoolInv
    <3>2. PICK q : Chain(n, q)
      BY <3>1
    <3>3. b \notin OnList
      BY <2>4 DEF Place
    <3> QED BY <1>4, <2>1, <3>2, <3>3, PushedList
  <2>6. Pointing(t)'
    BY <1>2, <1>4, <2>2 DEF Pointing, Referring, Linking, Counting, PoolTypes
  <2>7. \A labels \in {Referring, Linking, Counting} : pc'[t] \notin labels
    BY <2>2 DEF Referring, Linking, Counting
  <2>8. \A c \in Blocks \ {b} : SameBlock(t, c)
    BY <1>1, <1>4, <2>5, <2>7 DEF SameBlock, Given, blocks
  <2>9. InPlace(b)'
    <3>1. Doing(Referring, b)' = Doing(Referring, b)
      <4>1. pc[t] \notin Referring
        BY <1>2 DEF Referring
      <4> QED BY <1>3, <2>7, <4>1, DoingMoves DEF Doing
    <3>2. References(b)' = References(b)
      BY <3>1 DEF References
    <3>3. Doing(Linking, b)' = {} /\ Doing(Counting, b)' = {}
      <4>1. Doing(Linking, b) = {} /\ Doing(Counting, b) = {t}
        BY <2>4 DEF Place
      <4> QED BY <1>3, <2>7, <4>1, DoingMoves
    <3>4. Place(b, {}, {}, {}, {b})'
      BY <1>4, <2>4, <2>5, <3>3 DEF Place, Owners, blocks
    <3> QED BY <1>4, <2>4, <3>2, <3>4 DEF InPlace, Listed, Given, blocks
  <2> QED BY <1>3, <1>4, <2>3, <2>5, <2>6, <2>8, <2>9, BlockStep
<1> QED BY <1>5, <1>6

LEMMA RetryKeeps == ASSUME PoolInv, NEW t \in Threads, Retry(t) PROVE PoolInv'
<1>1. PICK b \in Blocks : b = node[t]
  BY DEF PoolInv, Pointing, Retry, Counting
<1>2. pc[t] = "retry" /\ PoolTypes /\ Pointing(t)
  BY DEF PoolInv, Retry
<1>3. OnlyStep(t)
  BY <1>2 DEF OnlyStep, PoolTypes, Retry, Return, Loop, Goto, locals
<1>4. UNCHANGED <<freeListHead, freeListNext, blocks, locals>> /\ FetchAdd(b, Should - 1)
  BY <1>1 DEF Retry
<1>5. Place(b, {}, {}, {t}, {}) /\ Given(b) /\ freeListRefs[b] = References(b) + 1
  BY <1>1, <1>2, WhereIs DEF Counting
<1>6. References(b) \in Nat /\ References(b) <= Cardinality(Threads)
  BY ReferencesAre
<1>7. freeListRefs' = [freeListRefs EXCEPT ![b] = freeListRefs[b] + (Should - 1)]
  <2>1. freeListRefs[b] + (Should - 1) \in 0 .. 2 * Should - 1 /\ Should - 1 \in Int
    BY <1>5, <1>6, PoolConstants
  <2> QED BY <1>2, <1>4, <2>1, FetchAddIs DEF PoolTypes
<1>8. freeListRefs'[b] = Should + References(b) /\ freeListRefs' \in [Blocks -> Nat]
  BY <1>2, <1>5, <1>6, <1>7, PoolConstants DEF PoolTypes
<1>9. /\ pc' = [pc EXCEPT ![t] = pc'[t]]
      /\ freeListRefs[b] = 1 => pc'[t] = "link"
      /\ freeListRefs[b] # 1 => pc'[t] \in {"idle", "create", "acquire"} /\ (pc'[t] = "acquire" => head[t] # Null)
  BY <1>1, <1>2 DEF Retry, Return, Loop, Goto, PoolTypes
<1>10. PoolTypes'
  <2>1. PICK l : l = pc'[t]
    OBVIOUS
  <2>2. pc' = [pc EXCEPT ![t] = l] /\ l \in {"idle", "create", "acquire", "link"}
    BY <1>9, <2>1
  <2> QED BY <1>2, <1>4, <1>8, <2>2 DEF PoolTypes, blocks, locals, Linking
<1>11. (\E m \in Nat : \E r : Chain(m, r)') /\ OnList' = OnList
  BY <1>4, ListStays
<1>12. Pointing(t)'
  BY <1>1, <1>2, <1>4, <1>9 DEF Pointing, Referring, Linking, Counting, PoolTypes, locals
<1>13. pc'[t] \notin Referring /\ pc'[t] \notin Counting /\ (pc'[t] \in Linking <=> freeListRefs[b] = 1)
  BY <1>9 DEF Referring, Linking, Counting
<1>14. \A c \in Blocks \ {b} : SameBlock(t, c)
  <2>1. node'[t] = b /\ \A c \in Blocks \ {b} : freeListRefs'[c] = freeListRefs[c]
    BY <1>1, <1>2, <1>4, <1>7 DEF PoolTypes, locals
  <2> QED BY <1>1, <1>4, <1>11, <2>1 DEF SameBlock, Given, blocks
<1>15. Doing(Referring, b)' = Doing(Referring, b) /\ References(b)' = References(b)
  <2>1. pc[t] \notin Referring
    BY <1>2 DEF Referring
  <2>2. Doing(Referring, b)' = Doing(Referring, b)
    BY <1>3, <1>13, <2>1, DoingMoves DEF Doing
  <2> QED BY <2>2 DEF References
<1>16. Doing(Counting, b)' = {} /\ Doing(Linking, b)' = IF freeListRefs[b] = 1 THEN {t} ELSE {}
  <2>1. Doing(Linking, b) = {} /\ Doing(Counting, b) = {t} /\ node'[t] = b
    BY <1>1, <1>4, <1>5 DEF Place, locals
  <2> QED BY <1>3, <1>13, <2>1, DoingMoves
<1>17. Owners(b)' = {} /\ OnList' \intersect {b} = {} /\ Given(b)'
  BY <1>4, <1>5, <1>11 DEF Place, Owners, Given, blocks
<1>18. InPlace(b)'
  <2>1. CASE freeListRefs[b] = 1
    <3>1. References(b) = 0 /\ freeListRefs'[b] = Should
      BY <1>5, <1>6, <1>8, <2>1, PoolConstants
    <3>2. Doing(Referring, b)' = {}
      BY <1>15, <3>1, ReferencesAre
    <3>3. Place(b, {}, {t}, {}, {})'
      BY <1>16, <1>17, <2>1 DEF Place
    <3> QED BY <1>17, <3>1, <3>2, <3>3 DEF InPlace, BeingLinked
  <2>2. CASE freeListRefs[b] # 1
    <3>1. References(b) # 0 /\ freeListRefs'[b] = Should + References(b)'
      BY <1>5, <1>6, <1>8, <1>15, <2>2
    <3>2. Doing(Referring, b)' # {}
      BY <1>15, <3>1, ReferencesAre
    <3>3. Place(b, {}, {}, {}, {})'
      BY <1>16, <1>17, <2>2 DEF Place
    <3> QED BY <1>17, <3>1, <3>2, <3>3 DEF InPlace, LeftBehind
  <2> QED BY <2>1, <2>2
<1> QED BY <1>3, <1>4, <1>10, <1>11, <1>12, <1>14, <1>18, BlockStep

-----------------------------------------------------------------------------
(* The pool of blocks keeps its blocks.                                    *)

LEMMA PoolInit == ASSUME Init PROVE PoolInv
<1>1. PoolTypes
  BY PoolConstants DEF Init, PoolTypes
<1>2. \E n \in Nat : \E q : Chain(n, q)
  <2> DEFINE q == [i \in 0 .. 0 |-> Null]
  <2>1. Chain(0, q)
    BY DEF Init, Chain
  <2> HIDE DEF q
  <2> QED BY <2>1
<1>3. OnList = {}
  <2> DEFINE q == [i \in 0 .. 0 |-> Null]
  <2>1. Chain(0, q) /\ 0 \in Nat
    BY DEF Init, Chain
  <2> HIDE DEF q
  <2>2. OnList = {q[i] : i \in 1 .. 0}
    BY <2>1, OnListIs
  <2> QED BY <2>2
<1>4. ASSUME NEW b \in Blocks PROVE InPlace(b)
  <2>1. CASE Given(b)
    BY <2>1, PoolConstants DEF Init, Given, Blocks
  <2>2. CASE ~Given(b)
    <3>1. \A labels \in {Referring, Linking, Counting} : Doing(labels, b) = {}
      BY DEF Init, Doing, Referring, Linking, Counting
    <3>2. Place(b, {}, {}, {}, {})
      BY <1>3, <3>1 DEF Place, Owners, Init
    <3> QED BY <2>2, <3>1, <3>2 DEF InPlace, Untouched, Init
  <2> QED BY <2>1, <2>2
<1>5. \A t \in Threads : Pointing(t)
  BY DEF Init, Pointing, Referring, Linking, Counting
<1> QED BY <1>1, <1>2, <1>4, <1>5 DEF PoolInv

\* Nothing of the pool changes.
LEMMA PoolStays == ASSUME PoolInv, UNCHANGED vars PROVE PoolInv'
<1> USE DEF vars, list, blocks, locals
<1>1. (\E n \in Nat : \E q : Chain(n, q)') /\ OnList' = OnList
  BY ListStays
<1>2. PoolTypes'
  BY DEF PoolInv, PoolTypes
<1>3. \A t \in Threads : Pointing(t)'
  BY DEF PoolInv, Pointing
<1>4. ASSUME NEW b \in Blocks PROVE InPlace(b)'
  <2>1. \A labels : Doing(labels, b)' = Doing(labels, b)
    BY DEF Doing
  <2>2. Owners(b)' = Owners(b) /\ (Given(b)' <=> Given(b))
    BY DEF Owners, Given
  <2>3. References(b)' = References(b)
    BY <2>1 DEF References
  <2>4. \A o, l, k, s : Place(b, o, l, k, s) => Place(b, o, l, k, s)'
    BY <1>1, <2>1, <2>2 DEF Place
  <2> QED BY <2>1, <2>2, <2>3, <2>4 DEF PoolInv, InPlace, Untouched, InHands, BeingLinked, BeingCounted,
                                        Listed, LeftBehind
<1> QED BY <1>1, <1>2, <1>3, <1>4 DEF PoolInv

LEMMA PoolStep == ASSUME PoolInv, Next PROVE PoolInv'
<1>1. CASE Terminated
  BY <1>1, PoolStays DEF Terminated
<1>2. ASSUME NEW t \in Threads, Step(t) \/ Requisition(t) PROVE PoolInv'
  BY <1>2, RequisitionKeeps, TakeFromPoolKeeps, CreateKeeps, LoadHeadKeeps, AcquireKeeps, ReadNextKeeps,
     SwingKeeps, GotKeeps, UnrefKeeps, AddLoadKeeps, LinkKeeps, OneKeeps, PublishKeeps, RetryKeeps DEF Step
<1>3. ASSUME NEW t \in Threads, NEW b \in owned[t], Add(t, b) PROVE PoolInv'
  BY <1>3, AddKeeps
<1> QED BY <1>1, <1>2, <1>3 DEF Next

LEMMA KeepsFollows == ASSUME PoolInv PROVE OnePlace /\ CountsReferences /\ NotMarked
<1>1. ASSUME NEW b \in Blocks
      PROVE  /\ Referrers(b) = Doing(Referring, b)
             /\ {t \in Threads : node[t] = b /\ (pc[t] = "got" \/ Adding(t))}
                    = Doing(Linking, b) \union Doing(Counting, b)
             /\ {t \in Threads : b \in owned[t]} = Owners(b)
             /\ \A t \in Threads : node[t] = b /\ pc[t] \in {"got", "publish", "retry"} => t \in Doing(Counting, b)
             /\ \A t \in Doing(Counting, b) : t \in Threads /\ node[t] = b /\ pc[t] \in {"got", "publish", "retry"}
  BY DEF Referrers, Adding, Doing, Referring, Linking, Counting, Owners
<1>2. ASSUME NEW b \in Blocks
      PROVE  InTransit(b) <=>
                \/ Doing(Linking, b) \union Doing(Counting, b) # {}
                \/ freeListRefs[b] >= Should /\ Doing(Referring, b) # {}
  <2>1. (\E t \in Threads : node[t] = b /\ (pc[t] = "got" \/ Adding(t)))
            <=> Doing(Linking, b) \union Doing(Counting, b) # {}
    BY <1>1
  <2> QED BY <1>1, <2>1 DEF InTransit, ShouldBeOnFreeList
<1>3. ASSUME NEW b \in Blocks
      PROVE  /\ References(b) \in Nat /\ References(b) < Should /\ References(b) + 1 < Should
             /\ Should + References(b) >= Should /\ ~(0 >= Should)
             /\ (References(b) = 0 <=> Doing(Referring, b) = {})
  BY ReferencesAre, PoolConstants
<1>4. OnePlace
  <2> SUFFICES ASSUME NEW b \in 0 .. made - 1
               PROVE  LET owners == Owners(b)
                          carriers == Doing(Linking, b) \union Doing(Counting, b)
                      IN  /\ b < initialBlockPoolSize /\ b >= initialBlockPoolIndex => owners = {}
                          /\ b < initialBlockPoolIndex \/ b >= initialBlockPoolSize =>
                               \/ Cardinality(owners) = 1 /\ b \notin OnList /\ ~InTransit(b)
                               \/ owners = {} /\ b \in OnList /\ carriers = {} /\ ~ShouldBeOnFreeList(b)
                               \/ owners = {} /\ b \notin OnList /\ InTransit(b) /\ Cardinality(carriers) <= 1
    <3>1. 0 .. made - 1 \subseteq Blocks
      BY PoolConstants DEF PoolInv, PoolTypes, Blocks
    <3> QED BY <1>1, <3>1 DEF OnePlace
  <2>1. b \in Blocks /\ b < made /\ made \in Nat /\ initialBlockPoolIndex \in Nat
    BY PoolConstants DEF PoolInv, PoolTypes, Blocks
  <2>2. InPlace(b)
    BY <2>1 DEF PoolInv
  <2>3. Cardinality({}) = 0 /\ \A t : Cardinality({t}) = 1
    BY FS_EmptySet, FS_Singleton
  <2>4. b < initialBlockPoolSize /\ b >= initialBlockPoolIndex => ~Given(b)
    BY <2>1, PoolConstants DEF Given
  <2>5. (b < initialBlockPoolIndex \/ b >= initialBlockPoolSize) => Given(b)
    BY <2>1 DEF Given
  <2>6. CASE Untouched(b)
    BY <2>5, <2>6 DEF Untouched, Place
  <2>7. CASE InHands(b)
    <3>1. freeListRefs[b] = References(b) /\ ~(References(b) >= Should)
      BY <1>3, <2>1, <2>7, PoolConstants DEF InHands
    <3> QED BY <1>2, <2>1, <2>3, <2>4, <2>7, <3>1 DEF InHands, Place
  <2>8. CASE BeingLinked(b)
    <3>1. PICK t \in Threads : Doing(Linking, b) \union Doing(Counting, b) = {t}
      BY <2>8 DEF BeingLinked, Place
    <3>2. Owners(b) = {} /\ b \notin OnList
      BY <2>8 DEF BeingLinked, Place
    <3>3. InTransit(b) /\ Cardinality(Doing(Linking, b) \union Doing(Counting, b)) <= 1
      <4>1. Cardinality({t}) <= 1
        <5>1. Cardinality({t}) = 1
          BY FS_Singleton
        <5> QED BY <5>1
      <4>2. InTransit(b)
        BY <1>2, <2>1, <3>1
      <4> QED BY <3>1, <4>1, <4>2
    <3>4. Given(b)
      BY <2>8 DEF BeingLinked
    <3> QED BY <2>4, <3>2, <3>3, <3>4
  <2>9. CASE BeingCounted(b)
    <3>1. PICK t \in Threads : Doing(Linking, b) \union Doing(Counting, b) = {t}
      BY <2>9 DEF BeingCounted, Place
    <3>2. Owners(b) = {} /\ b \notin OnList
      BY <2>9 DEF BeingCounted, Place
    <3>3. InTransit(b) /\ Cardinality(Doing(Linking, b) \union Doing(Counting, b)) <= 1
      <4>1. Cardinality({t}) <= 1
        <5>1. Cardinality({t}) = 1
          BY FS_Singleton
        <5> QED BY <5>1
      <4>2. InTransit(b)
        BY <1>2, <2>1, <3>1
      <4> QED BY <3>1, <4>1, <4>2
    <3>4. Given(b)
      BY <2>9 DEF BeingCounted
    <3> QED BY <2>4, <3>2, <3>3, <3>4
  <2>10. CASE Listed(b)
    <3>1. freeListRefs[b] = References(b) + 1 /\ ~(References(b) + 1 >= Should)
      BY <1>3, <2>1, <2>10, PoolConstants DEF Listed
    <3> QED BY <2>1, <2>4, <2>10, <3>1 DEF Listed, Place, ShouldBeOnFreeList
  <2>11. CASE LeftBehind(b)
    <3>1. freeListRefs[b] >= Should
      BY <1>3, <2>1, <2>11 DEF LeftBehind
    <3>2. Cardinality(Doing(Linking, b) \union Doing(Counting, b)) <= 1
      BY <2>3, <2>11 DEF LeftBehind, Place
    <3> QED BY <1>2, <2>1, <2>4, <2>11, <3>1, <3>2 DEF LeftBehind, Place
  <2> QED BY <2>2, <2>6, <2>7, <2>8, <2>9, <2>10, <2>11 DEF InPlace
<1>5. CountsReferences
  <2> DEFINE counted(b) == b \in OnList \/ Doing(Counting, b) # {}
  <2>1. ASSUME NEW b \in Blocks PROVE Refs(b) = References(b) + (IF counted(b) THEN 1 ELSE 0)
    <3>1. InPlace(b)
      BY DEF PoolInv
    <3>2. Refs(b) = IF freeListRefs[b] < Should THEN freeListRefs[b] ELSE freeListRefs[b] - Should
      BY <3>1, RefsIs
    <3>3. \/ ~counted(b) /\ References(b) = 0 /\ freeListRefs[b] \in {0, Should}
          \/ ~counted(b) /\ freeListRefs[b] = References(b)
          \/ counted(b) /\ freeListRefs[b] = References(b) + 1
          \/ ~counted(b) /\ freeListRefs[b] = Should + References(b)
      <4>1. Untouched(b) \/ BeingLinked(b) => ~counted(b) /\ References(b) = 0 /\ freeListRefs[b] \in {0, Should}
        BY <1>3 DEF Untouched, BeingLinked, Place
      <4>2. InHands(b) => ~counted(b) /\ freeListRefs[b] = References(b)
        BY DEF InHands, Place
      <4>3. BeingCounted(b) => counted(b) /\ freeListRefs[b] = References(b) + 1
        BY DEF BeingCounted, Place
      <4>4. Listed(b) => counted(b) /\ freeListRefs[b] = References(b) + 1
        BY DEF Listed, Place
      <4>5. LeftBehind(b) => ~counted(b) /\ freeListRefs[b] = Should + References(b)
        BY DEF LeftBehind, Place
      <4> QED BY <3>1, <4>1, <4>2, <4>3, <4>4, <4>5 DEF InPlace
    <3> HIDE DEF counted
    <3> QED BY <1>3, <3>2, <3>3, PoolConstants
  <2>2. ASSUME NEW b \in Blocks
        PROVE  counted(b) <=> \/ b \in OnList
                              \/ \E t \in Threads : node[t] = b /\ pc[t] \in {"got", "publish", "retry"}
    BY <1>1
  <2>3. \A b \in Blocks : Cardinality(Referrers(b)) = References(b)
    BY <1>1 DEF References
  <2> HIDE DEF counted
  <2> QED BY <2>1, <2>2, <2>3 DEF CountsReferences
<1>6. NotMarked
  <2> SUFFICES ASSUME NEW t \in Threads, pc[t] = "got" PROVE ~ShouldBeOnFreeList(node[t])
    BY DEF NotMarked
  <2>1. PICK b \in Blocks : b = node[t]
    BY DEF PoolInv, Pointing, Counting
  <2>2. freeListRefs[b] = References(b) + 1
    BY <2>1, WhereIs DEF Counting
  <2>3. ~(freeListRefs[b] >= Should)
    BY <1>3, <2>2, PoolConstants
  <2> QED BY <2>1, <2>3 DEF ShouldBeOnFreeList
<1> QED BY <1>4, <1>5, <1>6

\* Every step of the pool is one of the store, or changes nothing of it.
LEMMA StoreStep == ASSUME PoolInv, [Next]_vars PROVE [Store!Next]_owned
<1> SUFFICES ASSUME owned' # owned PROVE Store!Next
  OBVIOUS
<1> USE DEF Store!Next
<1>1. ASSUME NEW t \in Threads, NEW b \in Blocks, Owners(b) = {}, owned' = [owned EXCEPT ![t] = @ \union {b}]
      PROVE  Store!Next
  <2>1. Store!Requisition(t, b)
    BY <1>1 DEF Store!Requisition, Owners
  <2> QED BY <2>1
<1>2. ASSUME NEW t \in Threads, TakeFromPool(t) PROVE Store!Next
  <2>1. PICK b : b = initialBlockPoolIndex
    OBVIOUS
  <2>2. b < initialBlockPoolSize /\ owned' = [owned EXCEPT ![t] = @ \union {b}]
    BY <1>2, <2>1 DEF TakeFromPool, Own
  <2>3. b \in Blocks /\ ~Given(b)
    BY <2>1, <2>2, PoolConstants DEF PoolInv, PoolTypes, Given, Blocks
  <2>4. Untouched(b)
    BY <2>3 DEF PoolInv, InPlace, InHands, BeingLinked, BeingCounted, Listed, LeftBehind
  <2> QED BY <1>1, <2>2, <2>3, <2>4 DEF Untouched, Place
<1>3. ASSUME NEW t \in Threads, Create(t) PROVE Store!Next
  <2>1. PICK b : b = made
    OBVIOUS
  <2>2. b < MaxBlocks /\ owned' = [owned EXCEPT ![t] = @ \union {b}]
    BY <1>3, <2>1 DEF Create, Own
  <2>3. b \in Blocks /\ ~Given(b)
    BY <2>1, <2>2, PoolConstants DEF PoolInv, PoolTypes, Given, Blocks
  <2>4. Untouched(b)
    BY <2>3 DEF PoolInv, InPlace, InHands, BeingLinked, BeingCounted, Listed, LeftBehind
  <2> QED BY <1>1, <2>2, <2>3, <2>4 DEF Untouched, Place
<1>4. ASSUME NEW t \in Threads, Got(t) PROVE Store!Next
  <2>1. PICK b \in Blocks : b = node[t]
    BY <1>4 DEF PoolInv, Pointing, Got, Referring
  <2>2. pc[t] = "got" /\ owned' = [owned EXCEPT ![t] = @ \union {b}]
    BY <1>4, <2>1 DEF Got, Own
  <2>3. Owners(b) = {}
    BY <2>1, <2>2, WhereIs DEF Counting, Place
  <2> QED BY <1>1, <2>2, <2>3
<1>5. ASSUME NEW t \in Threads, NEW b \in owned[t], Add(t, b) PROVE Store!Next
  <2>1. b \in Blocks /\ owned' = [owned EXCEPT ![t] = @ \ {b}]
    BY <1>5 DEF Add, PoolInv, PoolTypes
  <2>2. Store!Return(t, b)
    BY <2>1 DEF Store!Return
  <2> QED BY <2>1, <2>2
<1>6. ASSUME NEW t \in Threads, Step(t) \/ Requisition(t) PROVE TakeFromPool(t) \/ Create(t) \/ Got(t)
  BY <1>6 DEF Step, Requisition, LoadHead, Acquire, ReadNext, Swing, Unref, AddLoad, Link, One, Publish, Retry,
              blocks
<1>7. Next
  BY DEF vars, blocks
<1>8. ~Terminated
  BY DEF Terminated, vars, blocks
<1> QED BY <1>2, <1>3, <1>4, <1>5, <1>6, <1>7, <1>8 DEF Next

\* The pool gives a block to one user at a time, every block it has given out is in one place, and
\* the words of the blocks count the references to them, however gets, adds and failed swaps
\* interleave: for any threads, any number of blocks and calls.
THEOREM KeepsBlocksCorrect == MCSpec => KeepsBlocks
<1>1. MCInit => PoolInv /\ Store!Init
  <2> SUFFICES ASSUME Init PROVE PoolInv /\ Store!Init
    BY DEF MCInit
  <2> QED BY PoolInit DEF Init, Store!Init
<1>2. ASSUME PoolInv, [MCNext]_<<part, vars, hashVars, dequeueVars, collectionVars>>
      PROVE  PoolInv' /\ [Store!Next]_owned
  <2>1. [Next]_vars
    BY <1>2 DEF MCNext
  <2>2. CASE Next
    BY <1>2, <2>1, <2>2, PoolStep, StoreStep
  <2>3. CASE UNCHANGED vars
    BY <1>2, <2>1, <2>3, PoolStays, StoreStep
  <2> QED BY <2>1, <2>2, <2>3
<1>3. PoolInv => OnePlace /\ CountsReferences /\ NotMarked
  BY KeepsFollows
<1> QED BY <1>1, <1>2, <1>3, PTL DEF MCSpec, KeepsBlocks, ImplementsStore, Store!Spec
=============================================================================
