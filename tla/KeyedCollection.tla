-------------------------- MODULE KeyedCollection --------------------------
(***************************************************************************)
(* pattern/MapReduce.hpp, ThreadSafeKeyedCollection: a vector of values    *)
(* per key, each guarded by a mutex of its own.  add finds the mutex of    *)
(* its key in a vector that preAddKeys and get replace under a lock that   *)
(* add never takes.  So the caller has to see to it that neither meets an  *)
(* add to the same key: the guards of PreAddKeys and Take.  MapReduceH     *)
(* waits for every task that adds before it calls get; nothing in the      *)
(* repository calls preAddKeys.                                            *)
(***************************************************************************)
EXTENDS Integers, Sequences, FiniteSets

CONSTANTS
    Threads,
    Keys,       \* 0 .. pre_size - 1, the keys that the constructor makes
    MaxAdds, MaxRenewals    \* bounds on the calls

CollectionAssumption == MaxAdds \in Nat /\ MaxRenewals \in Nat

VARIABLES
    mutexes,    \* key -> mutex, the number of mutexes the key had before
    values,     \* key -> vector
    locked,     \* locked mutexes, as <<key, mutex>>
    containment_mutex,  \* whether it is locked
    pc, key, vals,      \* where a thread is; the keys and the values of its call
    vec,        \* the vector as the insertion of a thread found it
    added,      \* key -> the values added, in the order of their insertion
    adds, renewals

shared == <<mutexes, values, locked, containment_mutex>>
vars   == <<shared, pc, key, vals, vec, added, adds, renewals>>

\* The constructor.
Init ==
    /\ mutexes = [k \in Keys |-> 0] /\ values = [k \in Keys |-> <<>>]
    /\ locked = {} /\ containment_mutex = FALSE
    /\ pc = [t \in Threads |-> "idle"] /\ key = [t \in Threads |-> {}]
    /\ vals = [t \in Threads |-> <<>>] /\ vec = [t \in Threads |-> <<>>]
    /\ added = [k \in Keys |-> <<>>] /\ adds = 0 /\ renewals = 0

Goto(t, l) == pc' = [pc EXCEPT ![t] = l]
Begin(t, l, keys) == pc[t] = "idle" /\ Goto(t, l) /\ key' = [key EXCEPT ![t] = keys]
TheKey(t) == CHOOSE k \in key[t] : TRUE
MutexOf(t) == <<TheKey(t), mutexes[TheKey(t)]>>

Renews(t) == pc[t] \in {"contain", "renew"}
Adds(t) == pc[t] \notin {"idle", "contain", "renew"}

\* add, of one value or of several, all distinct here.
Add(t, k, n) ==
    /\ adds < MaxAdds /\ k \in DOMAIN mutexes
    /\ \A u \in Threads : Renews(u) => k \notin key[u]
    /\ Begin(t, "lock", {k})
    /\ vals' = [vals EXCEPT ![t] = [i \in 1 .. n |-> <<adds, i>>]]
    /\ adds' = adds + 1
    /\ UNCHANGED <<shared, vec, added, renewals>>

\* Not the code: the lock is not waited for.
Lock_Never(t) ==
    /\ pc[t] = "lock" /\ Goto(t, "insert")
    /\ locked' = locked \union {MutexOf(t)}
    /\ vec' = [vec EXCEPT ![t] = values[TheKey(t)]]
    /\ UNCHANGED <<mutexes, values, containment_mutex, key, vals, added, adds, renewals>>

Lock(t) ==
    /\ pc[t] = "lock" /\ Goto(t, "insert")
    /\ MutexOf(t) \notin locked /\ locked' = locked \union {MutexOf(t)}
    /\ vec' = [vec EXCEPT ![t] = values[TheKey(t)]]
    /\ UNCHANGED <<mutexes, values, containment_mutex, key, vals, added, adds, renewals>>

\* emplace_back, insert
Insert(t) ==
    /\ pc[t] = "insert" /\ Goto(t, "unlock")
    /\ values' = [values EXCEPT ![TheKey(t)] = vec[t] \o vals[t]]
    /\ added' = [added EXCEPT ![TheKey(t)] = @ \o vals[t]]
    /\ UNCHANGED <<mutexes, locked, containment_mutex, key, vals, vec, adds, renewals>>

Unlock(t) ==
    /\ pc[t] = "unlock" /\ Goto(t, "idle")
    /\ locked' = locked \ {MutexOf(t)}
    /\ key' = [key EXCEPT ![t] = {}]
    /\ vals' = [vals EXCEPT ![t] = <<>>] /\ vec' = [vec EXCEPT ![t] = <<>>]
    /\ UNCHANGED <<mutexes, values, containment_mutex, added, adds, renewals>>

-----------------------------------------------------------------------------
PreAddKeys(t, keys) ==
    /\ renewals < MaxRenewals /\ keys \subseteq DOMAIN mutexes
    /\ \A u \in Threads : Adds(u) => TheKey(u) \notin keys
    /\ Begin(t, "contain", keys)
    /\ renewals' = renewals + 1
    /\ UNCHANGED <<shared, vals, vec, added, adds>>

Contain(t) ==
    /\ pc[t] = "contain" /\ Goto(t, "renew")
    /\ ~containment_mutex /\ containment_mutex' = TRUE
    /\ UNCHANGED <<mutexes, values, locked, key, vals, vec, added, adds, renewals>>

\* One turn of the loop of preAddKeys.
Renew(t, k) ==
    /\ pc[t] = "renew" /\ k \in key[t]
    /\ key' = [key EXCEPT ![t] = @ \ {k}]
    /\ mutexes' = [mutexes EXCEPT ![k] = @ + 1]
    /\ values' = [values EXCEPT ![k] = <<>>] /\ added' = [added EXCEPT ![k] = <<>>]
    /\ UNCHANGED <<locked, containment_mutex, pc, vals, vec, adds, renewals>>

EndPreAddKeys(t) ==
    /\ pc[t] = "renew" /\ key[t] = {} /\ Goto(t, "idle")
    /\ containment_mutex' = FALSE
    /\ UNCHANGED <<mutexes, values, locked, key, vals, vec, added, adds, renewals>>

-----------------------------------------------------------------------------
(* get hands out all values and leaves the keys `left`, all of them new.   *)

Take(left) ==
    /\ \A t \in Threads : pc[t] = "idle"
    /\ mutexes' = [k \in left |-> 0] /\ values' = [k \in left |-> <<>>]
    /\ added' = [k \in left |-> <<>>]
    /\ UNCHANGED <<locked, containment_mutex, pc, key, vals, vec, adds, renewals>>

\* Into a vector: a collection that has no keys any more.
GetVector == Take({})

\* Into a map, which reads every key: not after the other get.
GetMap == DOMAIN mutexes = Keys /\ Take(Keys)

Next ==
    \/ \E t \in Threads :
        \/ \E k \in Keys, n \in 1 .. 2 : Add(t, k, n)
        \/ Lock(t) \/ Insert(t) \/ Unlock(t)
        \/ \E keys \in SUBSET Keys \ {{}} : PreAddKeys(t, keys)
        \/ Contain(t) \/ EndPreAddKeys(t) \/ \E k \in Keys : Renew(t, k)
    \/ GetVector \/ GetMap

Spec == Init /\ [][Next]_vars

-----------------------------------------------------------------------------
\* The vector of a key is what was added since it was renewed or taken, the values of each
\* call together and in their order: no add is lost to another thread's, to a renewal of
\* other keys or to a get, so get hands out all, and once.
Kept == \A k \in DOMAIN mutexes : values[k] = added[k]
=============================================================================
