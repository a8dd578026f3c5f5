-------------------------- MODULE ProducerInvariants --------------------------
(***************************************************************************)
(* The inductive invariants of the two kinds of producers of a queue: IInv *)
(* of ImplicitProducer and RingInv of ExplicitProducer, the instance       *)
(* Explicit of MCProducers.                                                *)
(***************************************************************************)
EXTENDS MCProducers

-----------------------------------------------------------------------------
(* ImplicitProducer.                                                       *)

\* An entry of the index: the base of a block, and the block.
Entry == [key : {INVALID_BLOCK_BASE} \union 0 .. MaxElements, value : Blocks \union {Null}]

\* An index has two slots at least, and its tail and its entries are there.
IndexShape ==
    /\ entries \in Seq(Entry)
    /\ headers \in Seq([tail : Nat, index : Seq(Nat)]) /\ headers # <<>>
    /\ \A h \in 1 .. Len(headers) :
        /\ Capacity(h) >= 2 /\ headers[h].tail < Capacity(h)
        /\ \A p \in 1 .. Capacity(h) : headers[h].index[p] \in 1 .. Len(entries)

\* What the memory of the producer holds.
MemoryShape ==
    /\ cells \in [Blocks -> [0 .. BLOCK_SIZE - 1 -> 0 .. MaxElements \union {Null}]]
    /\ elementsCompletelyDequeued \in [Blocks -> Nat]
    /\ tailBlock \in Blocks \union {Null} /\ newBlock \in Blocks \union {Null}
    /\ inUse \subseteq Blocks
    /\ dtor \in [index : Nat, block : Blocks \union {Null}]

\* Where the producer and the consumers are, and their counters.
ControlShape ==
    /\ tailIndex \in 0 .. MaxElements /\ headIndex \in Nat
    /\ dequeueOptimisticCount \in Nat /\ dequeueOvercommit \in Nat
    /\ ppc \in {"idle", "insert", "tail", "requisition", "rewound", "value", "construct",
                "publish", "destroy", "gone"}
    /\ pc \in [Consumers -> {"idle", "filter", "count", "recheck", "over", "claim", "header",
                             "tail", "entry", "move", "empty", "unlink", "return"}]
    /\ local \in [Consumers -> [overcommit : Nat, my : Nat, index : Nat, header : Nat, tail : Nat,
                                entry : Nat \union Blocks \union {Null}]]

Shape == IndexShape /\ MemoryShape /\ ControlShape

\* What the producer and the consumers know where they are.
Positions ==
    /\ ppc \in {"insert", "tail", "requisition", "rewound", "value"} => tailIndex % BLOCK_SIZE = 0
    /\ ppc \notin {"idle", "destroy", "gone"} => tailIndex < MaxElements
    /\ newBlock = Null <=> ppc # "value"
    /\ ppc \in {"destroy", "gone"} => \A c \in Consumers : pc[c] = "idle"
    /\ \A c \in Consumers :
        /\ pc[c] \in {"tail", "entry"} => local[c].header \in 1 .. Len(headers)
        /\ pc[c] = "entry" => local[c].tail < Capacity(local[c].header)
        /\ pc[c] \in {"move", "empty", "unlink"} => local[c].entry \in 1 .. Len(entries)

Types == Shape /\ Positions

\* The tail of the last index.
LastTail == headers[blockIndex].tail

\* The entry j places back from where the next block goes; the first is the
\* tail's, and the last is the next one to be used.
Back(j) == EntryAt(blockIndex, LastTail + 1 - j)

\* The blocks that are in the index, or were: the next one has this number.
Inserted ==
    tailIndex \div BLOCK_SIZE +
        IF tailIndex % BLOCK_SIZE # 0 \/ ppc \in {"requisition", "value", "construct", "publish"}
        THEN 1 ELSE 0

\* No block is between its insertion and its first element.
Between == tailIndex % BLOCK_SIZE = 0 /\ ppc \in {"idle", "insert", "tail", "rewound", "destroy", "gone"}

Valid(e) == entries[e].key # INVALID_BLOCK_BASE

\* The entry was never used.
Unused(e) == ~Valid(e) /\ entries[e].value = Null

\* The entry has the key of an insertion that is not over, or has failed.
Keyed(e) == entries[e].key = tailIndex /\ entries[e].value = Null /\ Between

\* The last n blocks are in the last index, in order; there is one if there ever was one.
Filled(n) ==
    /\ n <= Inserted
    /\ Inserted >= 1 => n >= 1
    /\ ppc = "requisition" /\ Inserted >= 2 => n >= 2
    /\ \A j \in 1 .. n : entries[Back(j)].key = (Inserted - j) * BLOCK_SIZE
    /\ \A j \in n + 1 .. Capacity(blockIndex) :
          Unused(Back(j)) \/ (j = Capacity(blockIndex) /\ Keyed(Back(j)))

Filling == \E n \in 0 .. Capacity(blockIndex) : Filled(n)

\* An insertion that is not over, or has failed, is at the next entry or the last.
Pending ==
    /\ ppc \in {"tail", "rewound"} => Keyed(NextEntry)
    /\ ppc \in {"requisition", "value"} => entries[Back(1)].value = Null

\* The last index has every entry once.
Distinct ==
    /\ \A i, j \in 1 .. Capacity(blockIndex) : Back(i) = Back(j) => i = j
    /\ \A e \in 1 .. Len(entries) : \E j \in 1 .. Capacity(blockIndex) : Back(j) = e

\* The number of the block at place p is o + p, whole turns of the index aside.
AlignedAt(h, p, o) ==
    Valid(EntryAt(h, p)) => \E m \in Int : entries[EntryAt(h, p)].key = (o + p + m * Capacity(h)) * BLOCK_SIZE

\* Entries of an index are as far apart as their blocks are, whole turns aside.
Aligned(h) == \E o \in Int : \A p \in 0 .. Capacity(h) - 1 : AlignedAt(h, p, o)

\* An index that was replaced is still good for the consumers that have it.
Replaced(h) ==
    /\ \A p \in 0 .. Capacity(h) - 1 : Valid(EntryAt(h, p))
    /\ Aligned(h)
    /\ \E r \in Nat : Capacity(blockIndex) = r * Capacity(h)

\* The index and those it replaced are in order.
Indexed == Filling /\ Pending /\ Distinct /\ \A h \in 1 .. Len(headers) - 1 : Replaced(h)

\* The calls that will claim an index, or would if the tail were at t.
Committed(t) ==
    {c \in Consumers : pc[c] = "claim" \/ (pc[c] = "recheck" /\ local[c].my - local[c].overcommit < t)}

\* Claims never pass the tail: neither the tail of now nor one to come.
ClaimsBelow == \A t \in Nat : t >= tailIndex => headIndex + Cardinality(Committed(t)) <= t

\* The counters of optimistic dequeues.
Counting ==
    /\ Balance /\ OvercommitBelowCount /\ ClaimsBelow
    /\ \A c \in Consumers :
        pc[c] \in {"filter", "count"} => local[c].overcommit <= dequeueOvercommit

\* The calls that have an index and are not done with it.
Holding(c) == pc[c] \in {"header", "tail", "entry", "move", "empty"}

\* The indices that dequeue is done with.
Past == {i \in 0 .. headIndex - 1 : ~ \E c \in Consumers : Holding(c) /\ local[c].index = i}

\* The indices of the block with key k.
IndicesOf(k) == k .. k + BLOCK_SIZE - 1

\* The entry has a block.
Linked(e) == entries[e].value # Null

\* The block with key k is in the index.
Reachable(k) == \E e \in 1 .. Len(entries) : entries[e].key = k /\ Linked(e)

\* The producer has linked all blocks that begin below this index.
Stored == IF tailIndex % BLOCK_SIZE # 0 \/ ppc \in {"construct", "publish"} THEN tailIndex + 1 ELSE tailIndex

\* A block is in the index until dequeue is done with all its indices.
Covered == \A k \in 0 .. Stored - 1 : k % BLOCK_SIZE = 0 => IndicesOf(k) \subseteq Past \/ Reachable(k)

\* A block in the index counts the elements dequeued from it; the consumer that
\* has counted the last one is about to take it out.
LinkKept(e) ==
    /\ entries[e].key \in 0 .. Stored - 1 /\ entries[e].key % BLOCK_SIZE = 0
    /\ elementsCompletelyDequeued[entries[e].value] = Cardinality(IndicesOf(entries[e].key) \intersect Past)
    /\ IndicesOf(entries[e].key) \subseteq Past => \E c \in Consumers : pc[c] = "unlink" /\ local[c].entry = e
    /\ entries[e].key + BLOCK_SIZE >= Stored => entries[e].value = tailBlock

\* All blocks in the index.
Links == \A e \in 1 .. Len(entries) : Linked(e) => LinkKept(e)

\* Index h has an entry with the block of key k.
Leads(h, k) ==
    \E p \in 0 .. Capacity(h) - 1 : Linked(EntryAt(h, p)) /\ entries[EntryAt(h, p)].key = k

\* The block that a consumer looks for is there, and so is the one it has found.
OnTrack(c) ==
    /\ Holding(c) => local[c].index < headIndex
    /\ pc[c] \in {"tail", "entry"} => Leads(local[c].header, Base(local[c].index))
    /\ pc[c] = "entry" => Valid(EntryAt(local[c].header, local[c].tail))
    /\ pc[c] \in {"move", "empty"} =>
        Linked(local[c].entry) /\ entries[local[c].entry].key = Base(local[c].index)
    /\ pc[c] = "unlink" => Linked(local[c].entry) /\ IndicesOf(entries[local[c].entry].key) \subseteq Past

\* No two consumers have one index, or take out one block.
Apart ==
    \A c, d \in Consumers :
        \/ c = d
        \/ /\ Holding(c) /\ Holding(d) => local[c].index # local[d].index
           /\ pc[c] = "unlink" /\ pc[d] = "unlink" => local[c].entry # local[d].entry

\* A consumer is about to return block b.
Returning(c, b) == pc[c] = "return" /\ local[c].entry = b

\* A block has one place at most.
OneOwner ==
    /\ \A e \in 1 .. Len(entries) : Linked(e) =>
        /\ entries[e].value # newBlock
        /\ \A f \in 1 .. Len(entries) : entries[f].value = entries[e].value => e = f
        /\ \A c \in Consumers : ~Returning(c, entries[e].value)
    /\ \A c \in Consumers : pc[c] = "return" =>
        /\ local[c].entry \in Blocks /\ local[c].entry # newBlock
        /\ \A d \in Consumers : Returning(d, local[c].entry) => c = d

\* The producer or a consumer has the block, or it is in the index.
HasPlace(b) ==
    \/ newBlock = b
    \/ \E e \in 1 .. Len(entries) : entries[e].value = b
    \/ \E c \in Consumers : Returning(c, b)

\* The blocks of this producer are those that have a place, until the destructor.
Placed == ppc \notin {"destroy", "gone"} => \A b \in Blocks : b \in inUse <=> HasPlace(b)

\* No block has counted more elements than it has, and a new one none.
CountedEmpty ==
    /\ \A b \in Blocks : elementsCompletelyDequeued[b] <= BLOCK_SIZE
    /\ ppc = "value" => elementsCompletelyDequeued[newBlock] = 0

\* What is in the index, and who looks for it.
Tracking == Covered /\ Links /\ (\A c \in Consumers : OnTrack(c)) /\ Apart

\* Whose the blocks are.
Owning == OneOwner /\ Placed /\ CountedEmpty

\* The calls that have an index and have not taken its element.
Waiting(c) == pc[c] \in {"header", "tail", "entry", "move"}

\* The element of index i has been enqueued, and not taken out of its cell.
Present(i) ==
    /\ i < tailIndex \/ (i = tailIndex /\ ppc = "publish")
    /\ i >= headIndex \/ \E c \in Consumers : Waiting(c) /\ local[c].index = i

\* The block of entry e has the elements that are present.
Full(e) ==
    \A i \in IndicesOf(entries[e].key) : Present(i) => cells[entries[e].value][i % BLOCK_SIZE] = i

\* The elements are where dequeue looks for them, until the destructor.
CellsKept == ppc \notin {"destroy", "gone"} => \A e \in 1 .. Len(entries) : Linked(e) => Full(e)

\* Elements are handed over once, by the dequeue that has claimed them.
HandedKept ==
    /\ handed \subseteq 0 .. headIndex - 1
    /\ \A c \in Consumers : Waiting(c) => local[c].index \notin handed

\* The blocks in the index with keys from k on.
From(k) == {entries[e].value : e \in {f \in 1 .. Len(entries) : Linked(f) /\ entries[f].key >= k}}

\* It still has the blocks from the one it is in.
Freeing ==
    ppc = "destroy" =>
        /\ headIndex <= dtor.index /\ dtor.index <= tailIndex
        /\ dtor.index = headIndex => dtor.block = Null /\ inUse = From(0)
        /\ dtor.index > headIndex =>
            /\ inUse = From(Base(dtor.index - 1))
            /\ \E e \in 1 .. Len(entries) :
                Linked(e) /\ entries[e].key = Base(dtor.index - 1) /\ dtor.block = entries[e].value

\* The destructor loses no block.
Destroying == Freeing /\ AllReturned

\* The layers, each of which needs those before it.
IInv ==
    /\ Types /\ Indexed /\ Counting /\ Tracking /\ Owning
    /\ CellsKept /\ HandedKept /\ Destroying

-----------------------------------------------------------------------------
(* The ring of an explicit producer.                                       *)

\* The number of the block that holds an element.
Number(i) == i \div BLOCK_SIZE

\* Cell x of block number k is for this element.
ElementAt(k, x) == k * BLOCK_SIZE + x

\* The number of blocks the producer has entered.
Entered ==
    Number(e_tailIndex) +
        IF e_tailIndex % BLOCK_SIZE # 0 \/ e_ppc \in {"entry", "front", "construct", "publish"} THEN 1 ELSE 0

\* Those that are in the ring begin with the oldest.
Oldest == Entered - slotsUsed

\* The numbers of the blocks in the ring.
Window == Oldest .. Entered - 1

\* Those before this one have an entry the front of the index has passed.
Displayed == IF e_ppc \in {"entry", "front"} THEN Entered - 1 ELSE Entered

\* Those before this one have an entry.
Recorded == IF e_ppc = "entry" THEN Entered - 1 ELSE Entered

\* Where a consumer looks for its block.
Reading == {"header", "front", "find"}

\* An element is in its cell.
InCell(e) ==
    /\ e < e_tailIndex \/ (e = e_tailIndex /\ e_ppc = "publish")
    /\ e >= e_headIndex \/ \E c \in Consumers : e_pc[c] \in Reading \union {"move"} /\ e_local[c].index = e

\* It was taken out and its cell is flagged.
Finished(e) == e < e_headIndex /\ \A c \in Consumers : e_pc[c] # "idle" => e_local[c].index # e

\* The places of an index and its entries, counted from 0.
Room(h) == Len(e_headers[h].entries)

Slot(h, p) == e_headers[h].entries[p + 1]

Places(h) == 0 .. Room(h) - 1

\* Where the numbers of an index are, up to whole turns.
Turn(h, p) == (p - Number(Slot(h, p).base)) % Room(h)

\* The places that have a block.
Used(h) == {p \in Places(h) : Slot(h, p).block # Null}

Entries == [base : Nat, block : Blocks \union {Null}]

ProducerTypes ==
    /\ e_tailIndex \in Nat /\ e_headIndex \in 0 .. e_tailIndex
    /\ e_ppc \in {"idle", "block", "grow", "requisition", "entry", "front", "construct", "publish"}
    /\ e_ppc \in {"block", "grow", "requisition", "entry", "front"} => e_tailIndex % BLOCK_SIZE = 0
    /\ size \in Nat \ {0} /\ slotsUsed \in 0 .. size /\ front \in 0 .. size - 1
    /\ e_headers = <<>> => e_tailIndex = 0 /\ slotsUsed = 0 /\ e_ppc \in {"idle", "block", "grow"}
    /\ e_ppc = "requisition" => slotsUsed < size
    /\ Oldest >= 0
    /\ Entered > 0 => slotsUsed > 0

HeaderTypes ==
    /\ e_headers \in Seq([front : Int, entries : Seq(Entries)])
    /\ \A h \in DOMAIN e_headers : Room(h) \in Nat \ {0}
    /\ e_headers # <<>> => Room(Len(e_headers)) = size

OwnedTypes ==
    /\ ring \in [Explicit!Owned -> Explicit!Owned] /\ Explicit!Owned \subseteq Blocks
    /\ IsFiniteSet(Explicit!Owned) /\ slotsUsed = Cardinality(Explicit!Owned)

MemoryTypes ==
    /\ e_cells \in [Blocks -> [Explicit!Cells -> Nat \union {Null}]]
    /\ emptyFlags \in [Blocks -> SUBSET Explicit!Cells]

ConsumerTypes ==
    /\ e_pc \in [Consumers -> {"idle", "header", "front", "find", "move", "flag"}]
    /\ e_local \in [Consumers -> [index : Nat, header : Nat, front : Int, block : Blocks \union {Null}]]

\* Types, and the bounds of the numbers.
RingTypes == ProducerTypes /\ HeaderTypes /\ OwnedTypes /\ MemoryTypes /\ ConsumerTypes

\* Different calls have claimed different elements, of blocks in the ring.
Claims ==
    /\ \A c \in Consumers : e_pc[c] # "idle" =>
         e_local[c].index < e_headIndex /\ Number(e_local[c].index) >= Oldest
    /\ \A c, d \in Consumers : e_pc[c] # "idle" /\ e_pc[d] # "idle" /\ e_local[c].index = e_local[d].index => c = d
    /\ Number(e_headIndex) >= Oldest

\* The ring goes through the blocks in the order of their numbers.
InRing(blk) ==
    /\ Explicit!Owned = {blk[k] : k \in Window}
    /\ \A k, l \in Window : blk[k] = blk[l] => k = l
    /\ \A k \in Window : ring[blk[k]] = blk[IF k = Entered - 1 THEN Oldest ELSE k + 1]
    /\ e_tailBlock = IF slotsUsed = 0 THEN Null ELSE blk[Entered - 1]

\* A block holds the elements of its number that are present, and has flags for those
\* that are finished.
Contents(blk) ==
    /\ \A k \in Window, x \in Explicit!Cells :
         /\ e_cells[blk[k]][x] = IF InCell(ElementAt(k, x)) THEN ElementAt(k, x) ELSE Null
         /\ x \in emptyFlags[blk[k]] <=> Finished(ElementAt(k, x))
    /\ \A b \in Blocks \ Explicit!Owned, x \in Explicit!Cells : e_cells[b][x] = Null

\* The numbers of every index are lined up.
LinedUp ==
    \A h \in DOMAIN e_headers :
        /\ \A p \in Used(h) : Slot(h, p).base % BLOCK_SIZE = 0
        /\ \A p, q \in Used(h) : Turn(h, p) = Turn(h, q)

\* The last one has all blocks of the ring.
Displays(blk) ==
    e_headers # <<>> =>
        LET h == Len(e_headers) IN
        /\ \A p \in Used(h) : Turn(h, p) = (front - Displayed) % size
        /\ \A k \in Oldest .. Recorded - 1 :
             Explicit!EntryAt(h, front - Displayed + k) = [base |-> ElementAt(k, 0), block |-> blk[k]]
        /\ Displayed > 0 => e_headers[h].front \in Used(h)

\* What a consumer reads leads it to its block.
Led(blk) ==
    \A c \in Consumers :
        LET h == e_local[c].header
            k == Number(e_local[c].index)
        IN  /\ e_pc[c] \in {"front", "find"} =>
                 /\ h \in DOMAIN e_headers /\ e_headers[h].front \in Used(h)
                 /\ \E p \in Places(h) : Slot(h, p) = [base |-> ElementAt(k, 0), block |-> blk[k]]
            /\ e_pc[c] = "find" => e_local[c].front \in Used(h)
            /\ e_pc[c] \in {"move", "flag"} => e_local[c].block = blk[k]

\* The blocks of the ring are blk[Oldest] to blk[Entered - 1].
Arranged(blk) == InRing(blk) /\ Contents(blk) /\ Displays(blk) /\ Led(blk)

\* Until the destructor there are such blocks.
RingInv ==
    IF e_ppc = "gone" THEN e_pc = [c \in Consumers |-> "idle"] /\ DOMAIN ring = {}
    ELSE RingTypes /\ Claims /\ LinedUp /\ \E blk \in [Window -> Blocks] : Arranged(blk)
===============================================================================
