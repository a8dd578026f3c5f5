----------------------------- MODULE ProducerHash -----------------------------
(***************************************************************************)
(* moodycamel::ConcurrentQueue (vendored): which sub-queue a pushing       *)
(* thread uses.  get_or_add_implicit_producer looks the thread up in a     *)
(* hash table and in the smaller tables it replaced, and creates a         *)
(* producer for a thread that is in none.  ImplicitProducer relies on it:  *)
(* no two threads may get the same producer.                               *)
(*                                                                         *)
(* One action is one access to memory that other threads can see.  The     *)
(* build has no notice of a thread's exit, so producers are never          *)
(* recycled.  Allocations may fail.                                        *)
(***************************************************************************)
EXTENDS Integers, Sequences, FiniteSets

CONSTANTS
    Threads,
    HashOf,         \* HashOf[t]: hash_thread_id of the id of t
    INITIAL_IMPLICIT_PRODUCER_HASH_SIZE,
    None

HashAssumption ==
    /\ IsFiniteSet(Threads) /\ None \notin Threads \union Nat
    /\ HashOf \in [Threads -> Nat]
    /\ INITIAL_IMPLICIT_PRODUCER_HASH_SIZE \in {2 ^ i : i \in 1 .. 10}

VARIABLES
    tables,         \* hash tables, oldest first: slot -> [key, value]; the last is the current one
    implicitProducerHashCount,
    resizeInProgress,
    producers,      \* next_prod of every producer made
    producerListTail,
    pc, local,      \* local variables of get_or_add_implicit_producer
    returned        \* returned[t]: the producers that thread t was given

shared == <<tables, implicitProducerHashCount, resizeInProgress, producers, producerListTail>>
vars == <<shared, pc, local, returned>>

Slots(capacity) == [i \in 0 .. capacity - 1 |-> [key |-> None, value |-> None]]
Capacity(h) == Cardinality(DOMAIN tables[h])
implicitProducerHash == Len(tables)

Fresh == [mainHash |-> 0, hash |-> 0, index |-> 0, newCount |-> 0, producer |-> None, prevTail |-> None]

Init ==
    /\ tables = <<Slots(INITIAL_IMPLICIT_PRODUCER_HASH_SIZE)>>
    /\ implicitProducerHashCount = 0
    /\ resizeInProgress = FALSE
    /\ producers = <<>> /\ producerListTail = None
    /\ pc = [t \in Threads |-> "idle"]
    /\ local = [t \in Threads |-> Fresh]
    /\ returned = [t \in Threads |-> {}]

Goto(t, label) == pc' = [pc EXCEPT ![t] = label]
Set(t, rec) == local' = [local EXCEPT ![t] = rec]

Return(t, producer) ==
    /\ Goto(t, "idle") /\ Set(t, Fresh)
    /\ returned' = [returned EXCEPT ![t] = @ \union {producer}]

\* Allocation failed: the push fails, which its caller does not notice.
ReturnNull(t) == Goto(t, "idle") /\ Set(t, Fresh) /\ UNCHANGED returned

Slot(t, h) == local[t].index % Capacity(h)

Begin(t) ==
    /\ pc[t] = "idle"
    /\ Set(t, [Fresh EXCEPT !.mainHash = implicitProducerHash,
                            !.hash = implicitProducerHash, !.index = HashOf[t]])
    /\ Goto(t, "find")
    /\ UNCHANGED <<shared, returned>>

\* Not the code: looks only into the current table.
Find_CurrentOnly(t) ==
    LET l == local[t]
        entry == tables[l.hash][Slot(t, l.hash)]
    IN  /\ pc[t] = "find"
        /\ CASE entry.key = t -> Return(t, entry.value)
             [] entry.key = None -> Goto(t, "count") /\ UNCHANGED <<local, returned>>
             [] OTHER -> Set(t, [l EXCEPT !.index = @ + 1]) /\ UNCHANGED <<pc, returned>>
        /\ UNCHANGED shared

\* One probe: the thread is found, or is not in this table, or may be further on.
Find(t) ==
    LET l == local[t]
        entry == tables[l.hash][Slot(t, l.hash)]
    IN  /\ pc[t] = "find"
        /\ CASE entry.key = t /\ l.hash = l.mainHash -> Return(t, entry.value)
             [] entry.key = t /\ l.hash # l.mainHash ->
                    /\ Set(t, [l EXCEPT !.producer = entry.value, !.index = HashOf[t]])
                    /\ Goto(t, "insert") /\ UNCHANGED returned
             [] entry.key = None /\ l.hash > 1 ->
                    /\ Set(t, [l EXCEPT !.hash = @ - 1, !.index = HashOf[t]])
                    /\ UNCHANGED <<pc, returned>>
             [] entry.key = None /\ l.hash = 1 -> Goto(t, "count") /\ UNCHANGED <<local, returned>>
             [] OTHER -> Set(t, [l EXCEPT !.index = @ + 1]) /\ UNCHANGED <<pc, returned>>
        /\ UNCHANGED shared

Count(t) ==
    /\ pc[t] = "count"
    /\ implicitProducerHashCount' = implicitProducerHashCount + 1
    /\ Set(t, [local[t] EXCEPT !.newCount = implicitProducerHashCount + 1])
    /\ Goto(t, "resize")
    /\ UNCHANGED <<tables, resizeInProgress, producers, producerListTail, returned>>

HalfFull(t, h) == local[t].newCount >= Capacity(h) \div 2

\* The flag is taken, and the table loaded again: nobody else replaces it now.
Resize(t) ==
    /\ pc[t] = "resize"
    /\ IF HalfFull(t, local[t].mainHash) /\ ~resizeInProgress
       THEN /\ resizeInProgress' = TRUE
            /\ Set(t, [local[t] EXCEPT !.mainHash = implicitProducerHash])
            /\ Goto(t, IF HalfFull(t, implicitProducerHash) THEN "grow" ELSE "clear")
       ELSE Goto(t, "fit") /\ UNCHANGED <<resizeInProgress, local>>
    /\ UNCHANGED <<tables, implicitProducerHashCount, producers, producerListTail, returned>>

Doubled(capacity) ==
    LET doubled[i \in Nat] == IF i = 0 THEN capacity ELSE 2 * doubled[i - 1]
    IN  doubled

\* The smallest doubling of the capacity that newCount does not fill half.
NewCapacity(t) ==
    LET doublings == {Doubled(Capacity(local[t].mainHash))[i] : i \in 1 .. Cardinality(Threads) + 1}
        enough == {c \in doublings : local[t].newCount < c \div 2}
    IN  CHOOSE c \in enough : \A d \in enough : c <= d

Grow(t) ==
    /\ pc[t] = "grow"
    /\ tables' = Append(tables, Slots(NewCapacity(t)))
    /\ Set(t, [local[t] EXCEPT !.mainHash = Len(tables) + 1])
    /\ Goto(t, "clear")
    /\ UNCHANGED <<implicitProducerHashCount, resizeInProgress, producers, producerListTail, returned>>

GrowFails(t) ==
    /\ pc[t] = "grow"
    /\ implicitProducerHashCount' = implicitProducerHashCount - 1
    /\ Goto(t, "failed")
    /\ UNCHANGED <<tables, resizeInProgress, producers, producerListTail, local, returned>>

Clear(t) ==
    /\ pc[t] \in {"clear", "failed"}
    /\ resizeInProgress' = FALSE
    /\ IF pc[t] = "clear" THEN Goto(t, "fit") /\ UNCHANGED <<local, returned>> ELSE ReturnNull(t)
    /\ UNCHANGED <<tables, implicitProducerHashCount, producers, producerListTail>>

\* Below three quarters the old table will do; else wait for the thread that resizes.
Fit(t) ==
    LET capacity == Capacity(local[t].mainHash)
    IN  /\ pc[t] = "fit"
        /\ IF local[t].newCount < (capacity \div 2) + (capacity \div 4)
           THEN Goto(t, "create") /\ UNCHANGED local
           ELSE Set(t, [local[t] EXCEPT !.mainHash = implicitProducerHash]) /\ Goto(t, "resize")
        /\ UNCHANGED <<shared, returned>>

\* recycle_or_create_producer, up to its load of the list's tail.
Create(t) ==
    /\ pc[t] = "create"
    /\ producers' = Append(producers, None)
    /\ Set(t, [local[t] EXCEPT !.producer = Len(producers) + 1, !.prevTail = producerListTail])
    /\ Goto(t, "link")
    /\ UNCHANGED <<tables, implicitProducerHashCount, resizeInProgress, producerListTail, returned>>

CreateFails(t) ==
    /\ pc[t] = "create"
    /\ implicitProducerHashCount' = implicitProducerHashCount - 1
    /\ ReturnNull(t)
    /\ UNCHANGED <<tables, resizeInProgress, producers, producerListTail>>

\* add_producer: one turn of the compare-and-exchange loop.
Link(t) ==
    LET l == local[t]
    IN  /\ pc[t] = "link"
        /\ producers' = [producers EXCEPT ![l.producer] = l.prevTail]
        /\ IF producerListTail = l.prevTail
           THEN /\ producerListTail' = l.producer
                /\ Set(t, [l EXCEPT !.index = HashOf[t]]) /\ Goto(t, "insert")
           ELSE /\ Set(t, [l EXCEPT !.prevTail = producerListTail])
                /\ UNCHANGED <<producerListTail, pc>>
        /\ UNCHANGED <<tables, implicitProducerHashCount, resizeInProgress, returned>>

\* The first free slot of the table that the thread calls mainHash.
Insert(t) ==
    LET l == local[t]
    IN  /\ pc[t] = "insert"
        /\ IF tables[l.mainHash][Slot(t, l.mainHash)].key = None
           THEN /\ tables' = [tables EXCEPT ![l.mainHash][Slot(t, l.mainHash)] =
                                [key |-> t, value |-> l.producer]]
                /\ Return(t, l.producer)
           ELSE Set(t, [l EXCEPT !.index = @ + 1]) /\ UNCHANGED <<tables, pc, returned>>
        /\ UNCHANGED <<implicitProducerHashCount, resizeInProgress, producers, producerListTail>>

Go(t) ==
    \/ Find(t) \/ Count(t) \/ Resize(t) \/ Grow(t) \/ GrowFails(t) \/ Clear(t)
    \/ Fit(t) \/ Create(t) \/ CreateFails(t) \/ Link(t) \/ Insert(t)

Next == \E t \in Threads : Begin(t) \/ Go(t)

Spec == Init /\ [][Next]_vars

-----------------------------------------------------------------------------
\* Every thread always gets the same producer, and no other thread gets it: this is
\* what makes enqueue, which has no lock, single-threaded.
OneEach ==
    /\ \A t \in Threads : Cardinality(returned[t]) <= 1
    /\ \A t, u \in Threads : t # u => returned[t] \cap returned[u] = {}

\* The comments on the two probing loops: they end, because every table keeps a
\* free slot, whatever old tables threads still insert into and whichever
\* allocations fail.
HasRoom == \A h \in DOMAIN tables : \E i \in DOMAIN tables[h] : tables[h][i].key = None

\* The least set with the list's tail and what its members lead to.
Reachable ==
    {p \in 1 .. Len(producers) :
        \A s \in SUBSET (1 .. Len(producers)) :
            /\ producerListTail \in s \union {None}
            /\ \A q \in s : producers[q] \in s \union {None}
            => p \in s}

\* A producer that a thread pushes to is on the list in which try_dequeue looks for
\* elements, however the threads that extend the list get in each other's way.
OnList == \A t \in Threads : returned[t] \subseteq Reachable

\* The flag that other threads wait for is up only while a thread is about to replace the
\* table: that thread takes it down, also when it gets no memory.
ResizeHeld == resizeInProgress => \E t \in Threads : pc[t] \in {"grow", "clear", "failed"}

\* A thread that pushes gets the one producer of its own, in which its values are found, and
\* waits for no resize that nobody does.
OneProducer == OneEach /\ HasRoom /\ OnList /\ ResizeHeld
=============================================================================
