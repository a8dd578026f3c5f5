---------------------------- MODULE MCContainers ----------------------------
(***************************************************************************)
(* Instances for TLC of what the patterns' threads share: the parts of a   *)
(* queue (its pool of blocks, the table of its producers, the search of    *)
(* try_dequeue) and the collection of a MapReduce.  The variable part says *)
(* which one a behaviour is of; the variables of the others stay as they   *)
(* are at first.                                                           *)
(***************************************************************************)
EXTENDS BlockPool, TLC

CONSTANTS
    HashOf, INITIAL_IMPLICIT_PRODUCER_HASH_SIZE,                   \* of ProducerHash
    Consumers, MaxScored, MaxProducers, MaxPushes, MaxOvercommits, \* of TryDequeue
    Keys, MaxAdds, MaxRenewals                                     \* of KeyedCollection

VARIABLES
    part,
    tables, implicitProducerHashCount, resizeInProgress, producers, producerListTail,
    hash_pc, hash_local, returned,
    linked, tailIndex, headIndex, dequeueOptimisticCount, dequeueOvercommit,
    deq_pc, deq_local, excused,
    mutexes, values, locked, containment_mutex, add_pc, key, vals, vec, added, adds, renewals

hashVars == <<tables, implicitProducerHashCount, resizeInProgress, producers, producerListTail,
              hash_pc, hash_local, returned>>
dequeueVars == <<linked, tailIndex, headIndex, dequeueOptimisticCount, dequeueOvercommit,
                 deq_pc, deq_local, excused>>
collectionVars == <<mutexes, values, locked, containment_mutex, add_pc, key, vals, vec, added, adds, renewals>>

Hash == INSTANCE ProducerHash WITH None <- Null, pc <- hash_pc, local <- hash_local

Dequeue == INSTANCE TryDequeue WITH pc <- deq_pc, local <- deq_local

Collection == INSTANCE KeyedCollection WITH pc <- add_pc

ASSUME InstancesAssumption ==
    Hash!HashAssumption /\ Dequeue!DequeueAssumption /\ Collection!CollectionAssumption

MCInit ==
    /\ part \in {"blocks", "hash", "dequeue", "collection"}
    /\ Init /\ Hash!Init /\ Dequeue!Init /\ Collection!Init

MCNext ==
    /\ UNCHANGED part
    /\ \/ part = "blocks" /\ Next /\ UNCHANGED <<hashVars, dequeueVars, collectionVars>>
       \/ part = "hash" /\ Hash!Next /\ UNCHANGED <<vars, dequeueVars, collectionVars>>
       \/ part = "dequeue" /\ Dequeue!Next /\ UNCHANGED <<vars, hashVars, collectionVars>>
       \/ part = "collection" /\ Collection!Next /\ UNCHANGED <<vars, hashVars, dequeueVars>>

MCSpec == MCInit /\ [][MCNext]_<<part, vars, hashVars, dequeueVars, collectionVars>>

\* All threads begin to probe at the same slot.
MCHashOf == [t \in Threads |-> 1]

\* One producer has an element behind the one that consumers race for.
MCMaxPushes == <<2, 1, 1>>

Symmetry == Permutations(Threads) \union Permutations(Consumers)

-----------------------------------------------------------------------------
\* Every pushing thread has one producer, which consumers find.
OneProducer == Hash!OneProducer

\* try_pop misses a value that was there all the time only on account of another consumer
\* that is between the counters of the same sub-queue.
MissesOnlyBusy == Dequeue!MissesOnlyBusy

\* Nothing that is added to a collection is lost or doubled.
Kept == Collection!Kept
=============================================================================
