------------------------------ MODULE BlockPool ------------------------------
(***************************************************************************)
(* The block pool of moodycamel::ConcurrentQueue (vendored, as TSQueue     *)
(* uses it): the blocks allocated with the queue, the lock-free free list  *)
(* and requisition_block, which tries the two and then the allocator.      *)
(*                                                                         *)
(* A thread is a producer that needs a block, or a consumer that has       *)
(* emptied one and returns it.  One action is one access to the memory     *)
(* that threads share; loads that only prepare a compare-and-swap are      *)
(* merged with it, as a successful swap says that what they read still     *)
(* holds.  Memory is sequentially consistent.                              *)
(***************************************************************************)
EXTENDS Integers, FiniteSets

CONSTANTS
    Threads,
    initialBlockPoolSize,   \* blocks allocated with the queue
    MaxBlocks,              \* when there are as many, the allocator gives no more
    Should,                 \* SHOULD_BE_ON_FREELIST, 2^31: above any number of references
    MaxCalls,               \* bound on the calls a thread makes
    Null

ASSUME PoolAssumption ==
    /\ initialBlockPoolSize \in Nat /\ MaxBlocks \in Nat
    /\ initialBlockPoolSize <= MaxBlocks
    /\ IsFiniteSet(Threads)
    /\ Should \in Nat /\ Should > Cardinality(Threads) + 1
    /\ MaxCalls \in Nat

Blocks == 0 .. MaxBlocks - 1        \* in the order in which they are made

ASSUME NullAssumption == Null \notin Blocks

VARIABLES
    freeListHead, freeListNext,
    freeListRefs,           \* a word: the count of references, and the bit Should
    initialBlockPoolIndex,
    made,                   \* blocks that exist: the pool's and those allocated
    owned,                  \* owned[t]: blocks in t's hands, outside the pool
    pc,
    node,                   \* the node t works on (prevHead of try_get, node of add)
    head,                   \* local variable head of try_get
    next,                   \* local variables next of try_get, head of add_knowing_...
    inGet,                  \* t's add_knowing_refcount_is_zero is called by try_get
    calls

list   == <<freeListHead, freeListNext, freeListRefs>>
blocks == <<initialBlockPoolIndex, made, owned>>
locals == <<node, head, next, inGet, calls>>
vars   == <<list, blocks, pc, locals>>

\* REFS_MASK: the reference count in a word.
Refs(b) == freeListRefs[b] % Should
ShouldBeOnFreeList(b) == freeListRefs[b] >= Should

\* fetch_add on a node's word.
FetchAdd(b, n) ==
    freeListRefs' = [freeListRefs EXCEPT ![b] = (@ + n) % (2 * Should)]

Goto(t, label) == pc' = [pc EXCEPT ![t] = label]

Own(t, b) == owned' = [owned EXCEPT ![t] = @ \union {b}]

Init ==
    /\ freeListHead = Null
    /\ freeListNext = [b \in Blocks |-> Null]
    /\ freeListRefs = [b \in Blocks |-> 0]
    /\ initialBlockPoolIndex = 0
    /\ made = initialBlockPoolSize
    /\ owned = [t \in Threads |-> {}]
    /\ pc = [t \in Threads |-> "idle"]
    /\ node = [t \in Threads |-> Null]
    /\ head = [t \in Threads |-> Null]
    /\ next = [t \in Threads |-> Null]
    /\ inGet = [t \in Threads |-> FALSE]
    /\ calls = [t \in Threads |-> 0]

-----------------------------------------------------------------------------
(* requisition_block: the initial pool, then the free list, then the       *)
(* allocator.                                                              *)

Call(t) ==
    /\ pc[t] = "idle" /\ calls[t] < MaxCalls
    /\ calls' = [calls EXCEPT ![t] = @ + 1]

Requisition(t) ==
    /\ Call(t)
    /\ Goto(t, IF initialBlockPoolIndex >= initialBlockPoolSize THEN "load" ELSE "pool")
    /\ UNCHANGED <<list, blocks, node, head, next, inGet>>

\* The index is taken, but the pool may have run out since the test.
TakeFromPool(t) ==
    /\ pc[t] = "pool"
    /\ initialBlockPoolIndex' = initialBlockPoolIndex + 1
    /\ IF initialBlockPoolIndex < initialBlockPoolSize
       THEN Own(t, initialBlockPoolIndex) /\ Goto(t, "idle")
       ELSE Goto(t, "load") /\ UNCHANGED owned
    /\ UNCHANGED <<list, made, locals>>

\* create<Block>, or nothing when the allocator has no memory.
Create(t) ==
    /\ pc[t] = "create"
    /\ IF made < MaxBlocks
       THEN Own(t, made) /\ made' = made + 1
       ELSE UNCHANGED <<owned, made>>
    /\ Goto(t, "idle")
    /\ UNCHANGED <<list, initialBlockPoolIndex, locals>>

-----------------------------------------------------------------------------
(* FreeList::try_get                                                       *)

\* The loop goes on with a head, and ends without one.
Loop(t, h) == Goto(t, IF h = Null THEN "create" ELSE "acquire")

LoadHead(t) ==
    /\ pc[t] = "load"
    /\ head' = [head EXCEPT ![t] = freeListHead]
    /\ Loop(t, freeListHead)
    /\ UNCHANGED <<list, blocks, node, next, inGet, calls>>

\* A node whose count is zero is no longer on the list; the count of
\* another one is raised, and its next pointer may be read.
Acquire(t) ==
    /\ pc[t] = "acquire"
    /\ IF Refs(head[t]) = 0
       THEN Goto(t, "load") /\ UNCHANGED <<freeListRefs, node>>
       ELSE /\ FetchAdd(head[t], 1)
            /\ node' = [node EXCEPT ![t] = head[t]]
            /\ Goto(t, "next")
    /\ UNCHANGED <<freeListHead, freeListNext, blocks, head, next, inGet, calls>>

ReadNext(t) ==
    /\ pc[t] = "next"
    /\ next' = [next EXCEPT ![t] = freeListNext[node[t]]]
    /\ Goto(t, "swing")
    /\ UNCHANGED <<list, blocks, node, head, inGet, calls>>

\* A failed swap leaves the present head in `head`.
Swing(t) ==
    /\ pc[t] = "swing"
    /\ IF freeListHead = node[t]
       THEN freeListHead' = next[t] /\ Goto(t, "got") /\ UNCHANGED head
       ELSE /\ head' = [head EXCEPT ![t] = freeListHead]
            /\ Goto(t, "unref")
            /\ UNCHANGED freeListHead
    /\ UNCHANGED <<freeListNext, freeListRefs, blocks, node, next, inGet, calls>>

\* Gives up two references, the thread's and the list's.
Got(t) ==
    /\ pc[t] = "got"
    /\ FetchAdd(node[t], -2)
    /\ Own(t, node[t])
    /\ Goto(t, "idle")
    /\ UNCHANGED <<freeListHead, freeListNext, initialBlockPoolIndex, made, locals>>

\* The last reference to a node that should be on the list: puts it there.
Unref(t) ==
    /\ pc[t] = "unref"
    /\ FetchAdd(node[t], -1)
    /\ IF freeListRefs[node[t]] = Should + 1
       THEN Goto(t, "addload") /\ inGet' = [inGet EXCEPT ![t] = TRUE]
       ELSE Loop(t, head[t]) /\ UNCHANGED inGet
    /\ UNCHANGED <<freeListHead, freeListNext, blocks, node, head, next, calls>>

-----------------------------------------------------------------------------
(* FreeList::add and add_knowing_refcount_is_zero                          *)

\* Not the code: adds the node although others still have references to it.
Add_Always(t, b) ==
    /\ Call(t) /\ b \in owned[t]
    /\ owned' = [owned EXCEPT ![t] = @ \ {b}]
    /\ node' = [node EXCEPT ![t] = b]
    /\ inGet' = [inGet EXCEPT ![t] = FALSE]
    /\ FetchAdd(b, Should)
    /\ Goto(t, "addload")
    /\ UNCHANGED <<freeListHead, freeListNext, initialBlockPoolIndex, made, head, next>>

\* add_block_to_free_list: marks the block, and adds it if nobody else refers to it.
Add(t, b) ==
    /\ Call(t) /\ b \in owned[t]
    /\ owned' = [owned EXCEPT ![t] = @ \ {b}]
    /\ node' = [node EXCEPT ![t] = b]
    /\ inGet' = [inGet EXCEPT ![t] = FALSE]
    /\ FetchAdd(b, Should)
    /\ Goto(t, IF freeListRefs[b] = 0 THEN "addload" ELSE "idle")
    /\ UNCHANGED <<freeListHead, freeListNext, initialBlockPoolIndex, made, head, next>>

AddLoad(t) ==
    /\ pc[t] = "addload"
    /\ next' = [next EXCEPT ![t] = freeListHead]
    /\ Goto(t, "link")
    /\ UNCHANGED <<list, blocks, node, head, inGet, calls>>

Link(t) ==
    /\ pc[t] = "link"
    /\ freeListNext' = [freeListNext EXCEPT ![node[t]] = next[t]]
    /\ Goto(t, "one")
    /\ UNCHANGED <<freeListHead, freeListRefs, blocks, locals>>

\* From here on other threads can raise the count again.
One(t) ==
    /\ pc[t] = "one"
    /\ freeListRefs' = [freeListRefs EXCEPT ![node[t]] = 1]
    /\ Goto(t, "publish")
    /\ UNCHANGED <<freeListHead, freeListNext, blocks, locals>>

\* add_knowing_refcount_is_zero returns, to requisition_block or to the user.
Return(t) == IF inGet[t] THEN Loop(t, head[t]) ELSE Goto(t, "idle")

Publish(t) ==
    /\ pc[t] = "publish"
    /\ IF freeListHead = next[t]
       THEN freeListHead' = node[t] /\ Return(t) /\ UNCHANGED next
       ELSE /\ next' = [next EXCEPT ![t] = freeListHead]
            /\ Goto(t, "retry")
            /\ UNCHANGED freeListHead
    /\ UNCHANGED <<freeListNext, freeListRefs, blocks, node, head, inGet, calls>>

\* The swap failed: the last one to give up a reference tries again.
Retry(t) ==
    /\ pc[t] = "retry"
    /\ FetchAdd(node[t], Should - 1)
    /\ IF freeListRefs[node[t]] = 1 THEN Goto(t, "link") ELSE Return(t)
    /\ UNCHANGED <<freeListHead, freeListNext, blocks, locals>>

-----------------------------------------------------------------------------
Step(t) ==
    \/ TakeFromPool(t) \/ Create(t)
    \/ LoadHead(t) \/ Acquire(t) \/ ReadNext(t) \/ Swing(t) \/ Got(t) \/ Unref(t)
    \/ AddLoad(t) \/ Link(t) \/ One(t) \/ Publish(t) \/ Retry(t)

\* The bound is reached.
Terminated == (\A t \in Threads : pc[t] = "idle" /\ calls[t] = MaxCalls) /\ UNCHANGED vars

Next ==
    \/ \E t \in Threads : Step(t) \/ Requisition(t)
    \/ \E t \in Threads : \E b \in owned[t] : Add(t, b)
    \/ Terminated

Spec == Init /\ [][Next]_vars

-----------------------------------------------------------------------------
\* The blocks of the list, found by following the next pointers.
OnList ==
    LET reach[n \in Nat] ==
            IF n = 0 THEN {freeListHead} \ {Null}
            ELSE reach[n - 1] \union ({freeListNext[b] : b \in reach[n - 1]} \ {Null})
    IN  reach[MaxBlocks]

Adding(t) == pc[t] \in {"addload", "link", "one", "publish", "retry"}

\* The threads that hold a reference to a node of the list.
Referrers(b) == {t \in Threads : node[t] = b /\ pc[t] \in {"next", "swing", "got", "unref"}}

\* A block that somebody took off the list and does not own yet, was returned
\* and is not yet on the list, or was left for whoever drops the last reference.
InTransit(b) ==
    \/ \E t \in Threads : node[t] = b /\ (pc[t] = "got" \/ Adding(t))
    \/ ShouldBeOnFreeList(b) /\ Referrers(b) # {}

\* Every block the pool has given out is in one place: with one owner, on the
\* list, or on its way between the two with a thread that will bring it there.
\* However gets, adds and failed swaps interleave, none is lost or given twice.
OnePlace ==
    \A b \in 0 .. made - 1 :
        LET owners == {t \in Threads : b \in owned[t]}
            carriers == {t \in Threads : node[t] = b /\ (pc[t] = "got" \/ Adding(t))}
        IN  /\ b < initialBlockPoolSize /\ b >= initialBlockPoolIndex => owners = {}
            /\ b < initialBlockPoolIndex \/ b >= initialBlockPoolSize =>
                 \/ Cardinality(owners) = 1 /\ b \notin OnList /\ ~InTransit(b)
                 \/ owners = {} /\ b \in OnList /\ carriers = {} /\ ~ShouldBeOnFreeList(b)
                 \/ owners = {} /\ b \notin OnList /\ InTransit(b) /\ Cardinality(carriers) <= 1

\* The comments on the reference counts: a node's count is the number of
\* threads that refer to it, and one more while the list, or the thread that
\* is about to swing the head to it or has just swung it away, counts for it.
CountsReferences ==
    \A b \in Blocks :
        LET lists == IF \/ b \in OnList
                        \/ \E t \in Threads : node[t] = b /\ pc[t] \in {"got", "publish", "retry"}
                     THEN 1 ELSE 0
        IN  Refs(b) = Cardinality(Referrers(b)) + lists

\* The assertion in try_get: a node just taken off the list is not marked.
NotMarked == \A t \in Threads : pc[t] = "got" => ~ShouldBeOnFreeList(node[t])

-----------------------------------------------------------------------------
\* Seen through `owned`, the pool gives a block to one user at a time.
Store == INSTANCE BlockStore WITH Users <- Threads, uses <- owned

ImplementsStore == Store!Spec

\* The pool gives no block twice and loses none, whatever its counts of references go through.
KeepsBlocks == ImplementsStore /\ [](OnePlace /\ CountsReferences /\ NotMarked)
=============================================================================
