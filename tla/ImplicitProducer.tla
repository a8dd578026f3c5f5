--------------------------- MODULE ImplicitProducer ---------------------------
(***************************************************************************)
(* moodycamel::ConcurrentQueue::ImplicitProducer (vendored): the sub-queue *)
(* of one pushing thread, on which push and try_pop of TSQueue end up.     *)
(*                                                                         *)
(* One thread enqueues; any number of threads dequeue.  The elements live  *)
(* in blocks of BLOCK_SIZE cells, which consumers find through the block   *)
(* index: a circular array of entries that grows when it is full.  The     *)
(* consumer that empties a block removes it from the index and returns it. *)
(*                                                                         *)
(* The element at index i is the number i.  One action is one access to    *)
(* memory that the other threads can see, in a sequentially consistent     *)
(* order.  Indices do not wrap: 2^64 values are never pushed.  Moving a    *)
(* value does not throw, as it holds for the futures, promises, pointers   *)
(* and maps the patterns push.                                             *)
(***************************************************************************)
EXTENDS Integers, Sequences, FiniteSets

CONSTANTS
    Consumers,
    BLOCK_SIZE,
    IMPLICIT_INITIAL_INDEX_SIZE,
    Blocks,         \* the blocks of the pool
    MaxElements,    \* bound on the elements enqueued
    MaxCount,       \* bound on the calls of dequeue that pass the first test
    Null

ASSUME ProducerAssumption ==
    /\ IsFiniteSet(Consumers)
    /\ BLOCK_SIZE \in Nat \ {0, 1}
    /\ IMPLICIT_INITIAL_INDEX_SIZE \in Nat \ {0, 1}
    /\ MaxElements \in Nat /\ MaxCount \in Nat
    /\ Null \notin Blocks /\ Null \notin Nat

INVALID_BLOCK_BASE == -1

VARIABLES
    tailIndex, headIndex, dequeueOptimisticCount, dequeueOvercommit,
    headers,        \* block index headers made so far: [tail, index]; blockIndex is the last
    entries,        \* the index entries: [key, value]
    cells,          \* the elements of each block
    elementsCompletelyDequeued,
    tailBlock,
    inUse,          \* blocks this producer has from the pool
    ppc, newBlock,  \* the producer, also in its destructor
    dtor,           \* local variables of the destructor: [index, block]
    pc, local,      \* the consumers
    handed          \* elements that dequeue has returned

counts == <<tailIndex, headIndex, dequeueOptimisticCount, dequeueOvercommit>>
index  == <<headers, entries>>
memory == <<cells, elementsCompletelyDequeued, tailBlock, inUse>>
producer  == <<ppc, newBlock, dtor>>
consumers == <<pc, local, handed>>
vars   == <<counts, index, memory, producer, consumers>>

\* Local variables of dequeue, before it sets them.
Fresh == [overcommit |-> 0, my |-> 0, index |-> 0, header |-> 0, tail |-> 0, entry |-> 0]

blockIndex == Len(headers)
Capacity(h) == Len(headers[h].index)

\* Positions of the index are counted from 0.
EntryAt(h, pos) == headers[h].index[(pos % Capacity(h)) + 1]

NewEntries(first, count) == [i \in 1 .. count |-> first + i - 1]

Init ==
    /\ tailIndex = 0 /\ headIndex = 0
    /\ dequeueOptimisticCount = 0 /\ dequeueOvercommit = 0
    /\ headers = <<[tail |-> IMPLICIT_INITIAL_INDEX_SIZE - 1,
                    index |-> NewEntries(1, IMPLICIT_INITIAL_INDEX_SIZE)]>>
    /\ entries = [e \in 1 .. IMPLICIT_INITIAL_INDEX_SIZE |->
                    [key |-> INVALID_BLOCK_BASE, value |-> Null]]
    /\ cells = [b \in Blocks |-> [i \in 0 .. BLOCK_SIZE - 1 |-> Null]]
    /\ elementsCompletelyDequeued = [b \in Blocks |-> 0]
    /\ tailBlock = Null /\ inUse = {}
    /\ ppc = "idle" /\ newBlock = Null
    /\ dtor = [index |-> 0, block |-> Null]
    /\ pc = [c \in Consumers |-> "idle"]
    /\ local = [c \in Consumers |-> Fresh]
    /\ handed = {}

-----------------------------------------------------------------------------
(* enqueue                                                                 *)

NextEntry == EntryAt(blockIndex, headers[blockIndex].tail + 1)

Enqueue ==
    /\ ppc = "idle" /\ tailIndex < MaxElements
    /\ ppc' = IF tailIndex % BLOCK_SIZE = 0 THEN "insert" ELSE "construct"
    /\ UNCHANGED <<counts, index, memory, newBlock, dtor, consumers>>

HasRoom(e) == entries[e].key = INVALID_BLOCK_BASE \/ entries[e].value = Null

\* insert_block_index_entry, when the next entry is free.
InsertKey ==
    /\ ppc = "insert" /\ HasRoom(NextEntry)
    /\ entries' = [entries EXCEPT ![NextEntry].key = tailIndex]
    /\ ppc' = "tail"
    /\ UNCHANGED <<counts, headers, memory, newBlock, dtor, consumers>>

\* Not the code: copies the entries as they lie, not from the oldest on.
GrownHeader_Unrotated ==
    LET cap == Capacity(blockIndex)
    IN  [tail  |-> cap - 1,
         index |-> headers[blockIndex].index \o NewEntries(Len(entries) + 1, cap)]

\* The new header: the old entries from the oldest on, then as many new ones.
GrownHeader ==
    LET old == headers[blockIndex]
        cap == Capacity(blockIndex)
    IN  [tail  |-> cap - 1,
         index |-> [i \in 1 .. cap |-> old.index[((old.tail + i) % cap) + 1]]
                      \o NewEntries(Len(entries) + 1, cap)]

\* new_block_index; insert_block_index_entry then inserts into the new header.
NewBlockIndex ==
    /\ ppc = "insert" /\ ~HasRoom(NextEntry)
    /\ headers' = Append(headers, GrownHeader)
    /\ entries' = entries \o [i \in 1 .. Capacity(blockIndex) |->
                                [key |-> INVALID_BLOCK_BASE, value |-> Null]]
    /\ UNCHANGED <<counts, memory, producer, consumers>>

\* The allocator has no memory for a header; enqueue returns false.
NoBlockIndex ==
    /\ ppc = "insert" /\ ~HasRoom(NextEntry)
    /\ ppc' = "idle"
    /\ UNCHANGED <<counts, index, memory, newBlock, dtor, consumers>>

StoreTail ==
    /\ ppc = "tail"
    /\ headers' = [headers EXCEPT ![blockIndex].tail = (@ + 1) % Capacity(blockIndex)]
    /\ ppc' = "requisition"
    /\ UNCHANGED <<counts, entries, memory, newBlock, dtor, consumers>>

\* requisition_block and reset_empty: nobody else sees the block yet.
Requisition(b) ==
    /\ ppc = "requisition"
    /\ inUse' = inUse \union {b} /\ newBlock' = b
    /\ elementsCompletelyDequeued' = [elementsCompletelyDequeued EXCEPT ![b] = 0]
    /\ ppc' = "value"
    /\ UNCHANGED <<counts, index, cells, tailBlock, dtor, consumers>>

\* There is no block: rewind_block_index_tail, and the entry is free again.
NoBlock ==
    /\ ppc = "requisition"
    /\ headers' = [headers EXCEPT ![blockIndex].tail = (@ - 1) % Capacity(blockIndex)]
    /\ ppc' = "rewound"
    /\ UNCHANGED <<counts, entries, memory, newBlock, dtor, consumers>>

ClearEntry ==
    /\ ppc = "rewound"
    /\ entries' = [entries EXCEPT ![NextEntry].value = Null]
    /\ ppc' = "idle"
    /\ UNCHANGED <<counts, headers, memory, newBlock, dtor, consumers>>

StoreBlock ==
    /\ ppc = "value"
    /\ entries' = [entries EXCEPT ![EntryAt(blockIndex, headers[blockIndex].tail)].value = newBlock]
    /\ tailBlock' = newBlock /\ newBlock' = Null
    /\ ppc' = "construct"
    /\ UNCHANGED <<counts, headers, cells, elementsCompletelyDequeued, inUse, dtor, consumers>>

Construct ==
    /\ ppc = "construct"
    /\ cells' = [cells EXCEPT ![tailBlock][tailIndex % BLOCK_SIZE] = tailIndex]
    /\ ppc' = "publish"
    /\ UNCHANGED <<counts, index, elementsCompletelyDequeued, tailBlock, inUse,
                   newBlock, dtor, consumers>>

Publish ==
    /\ ppc = "publish"
    /\ tailIndex' = tailIndex + 1
    /\ ppc' = "idle"
    /\ UNCHANGED <<headIndex, dequeueOptimisticCount, dequeueOvercommit, index, memory,
                   newBlock, dtor, consumers>>

-----------------------------------------------------------------------------
(* dequeue                                                                 *)

Goto(c, label) == pc' = [pc EXCEPT ![c] = label]
Set(c, rec) == local' = [local EXCEPT ![c] = rec]

Return(c) == Goto(c, "idle") /\ Set(c, Fresh)

LoadOvercommit(c) ==
    /\ pc[c] = "idle" /\ ppc \notin {"destroy", "gone"}
    /\ dequeueOptimisticCount < MaxCount
    /\ Set(c, [local[c] EXCEPT !.overcommit = dequeueOvercommit])
    /\ Goto(c, "filter")
    /\ UNCHANGED <<counts, index, memory, producer, handed>>

\* The first test only keeps most calls on an empty queue from counting.
Filter(c) ==
    /\ pc[c] = "filter"
    /\ IF dequeueOptimisticCount - local[c].overcommit < tailIndex
       THEN Goto(c, "count") /\ UNCHANGED local
       ELSE Return(c)
    /\ UNCHANGED <<counts, index, memory, producer, handed>>

Count(c) ==
    /\ pc[c] = "count"
    /\ dequeueOptimisticCount' = dequeueOptimisticCount + 1
    /\ Set(c, [local[c] EXCEPT !.my = dequeueOptimisticCount])
    /\ Goto(c, "recheck")
    /\ UNCHANGED <<tailIndex, headIndex, dequeueOvercommit, index, memory, producer, handed>>

\* Not the code: trusts the first test.
Recheck_Never(c) ==
    /\ pc[c] = "recheck"
    /\ Goto(c, "claim")
    /\ UNCHANGED <<counts, index, memory, producer, local, handed>>

\* The second test decides: it holds for as many calls as there are elements.
Recheck(c) ==
    /\ pc[c] = "recheck"
    /\ Goto(c, IF local[c].my - local[c].overcommit < tailIndex THEN "claim" ELSE "over")
    /\ UNCHANGED <<counts, index, memory, producer, local, handed>>

\* Not the code: does not take its count back.
Overcommit_Never(c) ==
    /\ pc[c] = "over"
    /\ Return(c)
    /\ UNCHANGED <<counts, index, memory, producer, handed>>

Overcommit(c) ==
    /\ pc[c] = "over"
    /\ dequeueOvercommit' = dequeueOvercommit + 1
    /\ Return(c)
    /\ UNCHANGED <<tailIndex, headIndex, dequeueOptimisticCount, index, memory, producer, handed>>

Claim(c) ==
    /\ pc[c] = "claim"
    /\ headIndex' = headIndex + 1
    /\ Set(c, [local[c] EXCEPT !.index = headIndex])
    /\ Goto(c, "header")
    /\ UNCHANGED <<tailIndex, dequeueOptimisticCount, dequeueOvercommit, index, memory, producer, handed>>

\* get_block_index_entry_for_index: the header, its tail, the tail's key.
LoadHeader(c) ==
    /\ pc[c] = "header"
    /\ Set(c, [local[c] EXCEPT !.header = blockIndex])
    /\ Goto(c, "tail")
    /\ UNCHANGED <<counts, index, memory, producer, handed>>

LoadTail(c) ==
    /\ pc[c] = "tail"
    /\ Set(c, [local[c] EXCEPT !.tail = headers[local[c].header].tail])
    /\ Goto(c, "entry")
    /\ UNCHANGED <<counts, index, memory, producer, handed>>

\* The first index of the block that index i is in.
Base(i) == i - (i % BLOCK_SIZE)

\* The entry as many positions before the tail's as its block is before the tail's.
FindEntry(c) ==
    LET l == local[c]
        tailBase == entries[EntryAt(l.header, l.tail)].key
        offset == (Base(l.index) - tailBase) \div BLOCK_SIZE
    IN  /\ pc[c] = "entry"
        /\ Set(c, [l EXCEPT !.entry = EntryAt(l.header, l.tail + offset)])
        /\ Goto(c, "move")
        /\ UNCHANGED <<counts, index, memory, producer, handed>>

BlockOf(c) == entries[local[c].entry].value

Move(c) ==
    LET cell == local[c].index % BLOCK_SIZE
    IN  /\ pc[c] = "move"
        /\ handed' = handed \union {cells[BlockOf(c)][cell]}
        /\ cells' = [cells EXCEPT ![BlockOf(c)][cell] = Null]
        /\ Goto(c, "empty")
        /\ UNCHANGED <<counts, index, elementsCompletelyDequeued, tailBlock, inUse, producer, local>>

SetEmpty(c) ==
    /\ pc[c] = "empty"
    /\ elementsCompletelyDequeued' = [elementsCompletelyDequeued EXCEPT ![BlockOf(c)] = @ + 1]
    /\ IF elementsCompletelyDequeued[BlockOf(c)] = BLOCK_SIZE - 1
       THEN Goto(c, "unlink") /\ UNCHANGED local
       ELSE Return(c)
    /\ UNCHANGED <<counts, index, cells, tailBlock, inUse, producer, handed>>

\* The block leaves the index; the consumer still has it, in local variable entry.
Unlink(c) ==
    /\ pc[c] = "unlink"
    /\ entries' = [entries EXCEPT ![local[c].entry].value = Null]
    /\ Set(c, [Fresh EXCEPT !.entry = BlockOf(c)])
    /\ Goto(c, "return")
    /\ UNCHANGED <<counts, headers, memory, producer, handed>>

ReturnBlock(c) ==
    /\ pc[c] = "return"
    /\ inUse' = inUse \ {local[c].entry}
    /\ Return(c)
    /\ UNCHANGED <<counts, index, cells, elementsCompletelyDequeued, tailBlock, producer, handed>>

-----------------------------------------------------------------------------
(* The destructor, when no call is running.                                *)

Quiet == ppc = "idle" /\ \A c \in Consumers : pc[c] = "idle"

Destroy ==
    /\ Quiet
    /\ ppc' = "destroy"
    /\ dtor' = [index |-> headIndex, block |-> Null]
    /\ UNCHANGED <<counts, index, memory, newBlock, consumers>>

\* One turn of the loop; on entering a block it frees the one before.
DestroyNext ==
    /\ ppc = "destroy" /\ dtor.index # tailIndex
    /\ LET i == dtor.index
           last == headers[blockIndex].tail
           offset == (Base(i) - entries[EntryAt(blockIndex, last)].key) \div BLOCK_SIZE
           enters == i % BLOCK_SIZE = 0 \/ dtor.block = Null
           block == IF enters THEN entries[EntryAt(blockIndex, last + offset)].value
                              ELSE dtor.block
       IN  /\ inUse' = IF enters THEN inUse \ {dtor.block} ELSE inUse
           /\ cells' = [cells EXCEPT ![block][i % BLOCK_SIZE] = Null]
           /\ dtor' = [index |-> i + 1, block |-> block]
    /\ UNCHANGED <<counts, index, elementsCompletelyDequeued, tailBlock, ppc, newBlock, consumers>>

\* The tail block, unless the consumer of its last element has returned it.
DestroyEnd ==
    /\ ppc = "destroy" /\ dtor.index = tailIndex
    /\ inUse' = IF tailBlock # Null /\ (headIndex # tailIndex \/ tailIndex % BLOCK_SIZE # 0)
                THEN inUse \ {tailBlock} ELSE inUse
    /\ ppc' = "gone"
    /\ UNCHANGED <<counts, index, cells, elementsCompletelyDequeued, tailBlock, newBlock, dtor, consumers>>

-----------------------------------------------------------------------------
Produce ==
    \/ InsertKey \/ NewBlockIndex \/ NoBlockIndex \/ StoreTail
    \/ \E b \in Blocks \ inUse : Requisition(b)
    \/ NoBlock \/ ClearEntry \/ StoreBlock \/ Construct \/ Publish

Consume(c) ==
    \/ Filter(c) \/ Count(c) \/ Recheck(c) \/ Overcommit(c) \/ Claim(c)
    \/ LoadHeader(c) \/ LoadTail(c) \/ FindEntry(c) \/ Move(c)
    \/ SetEmpty(c) \/ Unlink(c) \/ ReturnBlock(c)

Terminated == ppc = "gone" /\ UNCHANGED vars

Next ==
    \/ Enqueue \/ Produce
    \/ \E c \in Consumers : LoadOvercommit(c) \/ Consume(c)
    \/ Destroy \/ DestroyNext \/ DestroyEnd
    \/ Terminated

Spec == Init /\ [][Next]_vars

-----------------------------------------------------------------------------
TypeOK ==
    /\ tailIndex \in 0 .. MaxElements /\ headIndex \in Nat
    /\ dequeueOptimisticCount \in Nat /\ dequeueOvercommit \in Nat
    /\ \A h \in DOMAIN headers :
         /\ headers[h].index \in Seq(DOMAIN entries)
         /\ headers[h].tail \in 0 .. Capacity(h) - 1
    /\ \A e \in DOMAIN entries :
         /\ entries[e].key \in {INVALID_BLOCK_BASE} \union 0 .. MaxElements
         /\ entries[e].value \in Blocks \union {Null}
    /\ cells \in [Blocks -> [0 .. BLOCK_SIZE - 1 -> 0 .. MaxElements \union {Null}]]
    /\ elementsCompletelyDequeued \in [Blocks -> 0 .. BLOCK_SIZE]
    /\ tailBlock \in Blocks \union {Null} /\ newBlock \in Blocks \union {Null}
    /\ inUse \subseteq Blocks
    /\ handed \subseteq 0 .. MaxElements

Deciding(c) == pc[c] \in {"recheck", "over", "claim"}

\* The optimistic count is what was claimed, what was counted too much, and
\* the calls that have counted and not yet done either.
Balance ==
    dequeueOptimisticCount =
        headIndex + dequeueOvercommit + Cardinality({c \in Consumers : Deciding(c)})

\* The comment on the second test: the overcommit it uses is at most the count,
\* although the two are read at different times.
OvercommitBelowCount == \A c \in Consumers : pc[c] = "recheck" => local[c].overcommit <= local[c].my

\* The assertions in enqueue and in the destructor: the head never passes the
\* tail, however the two tests of concurrent dequeues interleave with enqueue.
HeadBehindTail == headIndex <= tailIndex

\* The assertions in get_block_index_index_for_index: a consumer finds the entry
\* of its block, and in the block its element, while the producer inserts
\* entries, moves the tail of the index, rewinds it, or replaces the index.
FindsElement ==
    \A c \in Consumers : pc[c] = "move" =>
        /\ entries[local[c].entry].key = Base(local[c].index)
        /\ BlockOf(c) \in inUse
        /\ cells[BlockOf(c)][local[c].index % BLOCK_SIZE] = local[c].index

\* A block of this producer has one place: in the producer's hands, in one
\* entry of the index, or with the consumer that returns it.
BlockOnce ==
    LET places(b) ==
            (IF newBlock = b THEN 1 ELSE 0)
            + Cardinality({e \in DOMAIN entries : entries[e].value = b})
            + Cardinality({c \in Consumers : pc[c] = "return" /\ local[c].entry = b})
    IN  ppc \notin {"destroy", "gone"} => \A b \in inUse : places(b) = 1

\* The destructor gives back every block.
AllReturned == ppc = "gone" => inUse = {}

\* The four numbers agree, and the head never passes the tail.  Every variable keeps its type.
CountsRight == TypeOK /\ Balance /\ OvercommitBelowCount /\ HeadBehindTail

\* No element and no block is lost or has two owners, until the destructor returns.
Finds == FindsElement /\ BlockOnce /\ AllReturned

-----------------------------------------------------------------------------
\* The sub-queue seen as a stream: the elements that no dequeue has claimed.
S == INSTANCE Stream WITH
        Readers <- Consumers, Values <- 0 .. MaxElements, Nothing <- Null,
        stream <- [i \in 1 .. tailIndex - headIndex |-> headIndex + i - 1],
        popped <- [c \in Consumers |->
            IF pc[c] \in {"header", "tail", "entry", "move"} THEN local[c].index ELSE Null]

\* dequeue returns the elements in the order of the enqueues, each once.
ImplementsStream == S!Spec
=============================================================================
