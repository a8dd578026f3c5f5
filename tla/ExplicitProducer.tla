-------------------------- MODULE ExplicitProducer --------------------------
(***************************************************************************)
(* moodycamel::ConcurrentQueue::ExplicitProducer (vendored): the sub-queue *)
(* of a producer with a token, which the patterns do not use but try_pop   *)
(* would serve like the others.  It keeps its blocks in a ring and reuses  *)
(* the block ahead once its flags say that it is empty, while consumers    *)
(* look blocks up in a circular index that the producer overwrites.        *)
(*                                                                         *)
(* How dequeue counts is as in ImplicitProducer, which shows that a call   *)
(* claims an index only if its element is there: here that is one action.  *)
(* The element at index i is the number i; nothing throws.                 *)
(***************************************************************************)
EXTENDS Integers, Sequences, FiniteSets

CONSTANTS
    Consumers,
    BLOCK_SIZE,
    EXPLICIT_INITIAL_INDEX_SIZE,
    Blocks,         \* the blocks of the pool
    MaxElements,    \* bound on the elements enqueued
    Null

ExplicitAssumption ==
    /\ BLOCK_SIZE \in Nat \ {0, 1}
    /\ EXPLICIT_INITIAL_INDEX_SIZE \in Nat \ {0} /\ EXPLICIT_INITIAL_INDEX_SIZE % 2 = 0
    /\ MaxElements \in Nat /\ Null \notin Blocks /\ Null \notin Nat

VARIABLES
    tailIndex, headIndex,
    headers,        \* block index headers made so far: [front, entries]; the last is blockIndex
    slotsUsed, size, front,     \* the producer's pr_blockIndexSlotsUsed, Size and Front
    ring, tailBlock,            \* Block::next of the blocks it has, and its tail
    cells,          \* the elements of each block
    emptyFlags,     \* the cells of each block that are flagged
    ppc, pc, local  \* the producer; the consumers, and their local variables

indices == <<tailIndex, headIndex>>
index   == <<headers, slotsUsed, size, front>>
blocks  == <<ring, tailBlock>>
memory  == <<cells, emptyFlags>>
threads == <<ppc, pc, local>>
vars    == <<indices, index, blocks, memory, threads>>

Cells == 0 .. BLOCK_SIZE - 1
Owned == DOMAIN ring
is_empty(b) == emptyFlags[b] = Cells
Base(i) == i - (i % BLOCK_SIZE)
Fresh == [index |-> 0, header |-> 0, front |-> 0, block |-> Null]

NoEntry == [base |-> 0, block |-> Null]
Header(shown, entries, n) ==
    [front |-> shown, entries |-> entries \o [i \in 1 .. n - Len(entries) |-> NoEntry]]

\* Positions of an index are counted from 0.
EntryAt(h, pos) == headers[h].entries[(pos % Len(headers[h].entries)) + 1]

\* The constructor's new_block_index may fail; enqueue tries it again.  The blocks were
\* in use before.
Init ==
    /\ tailIndex = 0 /\ headIndex = 0
    /\ \/ headers = <<Header(-1, <<>>, EXPLICIT_INITIAL_INDEX_SIZE)>>
          /\ size = EXPLICIT_INITIAL_INDEX_SIZE
       \/ headers = <<>> /\ size = EXPLICIT_INITIAL_INDEX_SIZE \div 2
    /\ slotsUsed = 0 /\ front = 0
    /\ ring = [b \in {} |-> Null] /\ tailBlock = Null
    /\ cells = [b \in Blocks |-> [i \in Cells |-> Null]]
    /\ emptyFlags = [b \in Blocks |-> Cells]
    /\ ppc = "idle" /\ pc = [c \in Consumers |-> "idle"] /\ local = [c \in Consumers |-> Fresh]

-----------------------------------------------------------------------------
(* enqueue                                                                 *)

Enqueue ==
    /\ ppc = "idle" /\ tailIndex < MaxElements
    /\ ppc' = IF tailIndex % BLOCK_SIZE = 0 THEN "block" ELSE "construct"
    /\ UNCHANGED <<indices, index, blocks, memory, pc, local>>

CanReuse == tailBlock # Null /\ is_empty(ring[tailBlock])

\* reset_empty
Flags(b) == [emptyFlags EXCEPT ![b] = {}]

\* The block ahead is empty; its entry of the index is the next to be overwritten.
Reuse ==
    /\ ppc = "block" /\ CanReuse /\ ppc' = "entry"
    /\ tailBlock' = ring[tailBlock]
    /\ emptyFlags' = Flags(ring[tailBlock])
    /\ UNCHANGED <<indices, index, ring, cells, pc, local>>

Full == headers = <<>> \/ slotsUsed = size

NewBlock ==
    /\ ppc = "block" /\ ~CanReuse
    /\ ppc' = IF Full THEN "grow" ELSE "requisition"
    /\ UNCHANGED <<indices, index, blocks, memory, pc, local>>

\* The entries in use, from the oldest on.
Copied == [i \in 1 .. slotsUsed |-> EntryAt(Len(headers), front - slotsUsed + i - 1)]

new_block_index ==
    /\ ppc = "grow" /\ ppc' = "requisition"
    /\ headers' = Append(headers, Header(slotsUsed - 1, Copied, 2 * size))
    /\ size' = 2 * size /\ front' = slotsUsed
    /\ UNCHANGED <<indices, slotsUsed, blocks, memory, pc, local>>

\* No memory for an index or a block, or none may be allocated: enqueue returns false.
Fail ==
    /\ ppc \in {"grow", "requisition"} /\ ppc' = "idle"
    /\ UNCHANGED <<indices, index, blocks, memory, pc, local>>

\* requisition_block, and the block goes in behind the tail.
Requisition(b) ==
    /\ ppc = "requisition" /\ b \notin Owned /\ ppc' = "entry"
    /\ emptyFlags' = Flags(b)
    /\ ring' = [c \in Owned \union {b} |->
                  CASE c = b -> IF tailBlock = Null THEN b ELSE ring[tailBlock]
                    [] c = tailBlock -> b
                    [] OTHER -> ring[c]]
    /\ tailBlock' = b /\ slotsUsed' = slotsUsed + 1
    /\ UNCHANGED <<indices, headers, size, front, cells, pc, local>>

StoreEntry ==
    /\ ppc = "entry" /\ ppc' = "front"
    /\ headers' = [headers EXCEPT ![Len(headers)].entries[front + 1] =
                                     [base |-> tailIndex, block |-> tailBlock]]
    /\ UNCHANGED <<indices, slotsUsed, size, front, blocks, memory, pc, local>>

StoreFront ==
    /\ ppc = "front" /\ ppc' = "construct"
    /\ headers' = [headers EXCEPT ![Len(headers)].front = front]
    /\ front' = (front + 1) % size
    /\ UNCHANGED <<indices, slotsUsed, size, blocks, memory, pc, local>>

Construct ==
    /\ ppc = "construct" /\ ppc' = "publish"
    /\ cells' = [cells EXCEPT ![tailBlock][tailIndex % BLOCK_SIZE] = tailIndex]
    /\ UNCHANGED <<indices, index, blocks, emptyFlags, pc, local>>

Publish ==
    /\ ppc = "publish" /\ ppc' = "idle"
    /\ tailIndex' = tailIndex + 1
    /\ UNCHANGED <<headIndex, index, blocks, memory, pc, local>>

-----------------------------------------------------------------------------
(* dequeue                                                                 *)

\* Consumer c goes from one label to the next.
Step(c, from, to) == pc[c] = from /\ pc' = [pc EXCEPT ![c] = to] /\ UNCHANGED ppc
Set(c, l) == local' = [local EXCEPT ![c] = l]

Claim(c) ==
    /\ headIndex < tailIndex /\ ppc # "gone" /\ Step(c, "idle", "header")
    /\ headIndex' = headIndex + 1
    /\ Set(c, [Fresh EXCEPT !.index = headIndex])
    /\ UNCHANGED <<tailIndex, index, blocks, memory>>

LoadHeader(c) ==
    /\ Step(c, "header", "front")
    /\ Set(c, [local[c] EXCEPT !.header = Len(headers)])
    /\ UNCHANGED <<indices, index, blocks, memory>>

LoadFront(c) ==
    /\ Step(c, "front", "find")
    /\ Set(c, [local[c] EXCEPT !.front = headers[local[c].header].front])
    /\ UNCHANGED <<indices, index, blocks, memory>>

\* The entry as many positions from the front's as its block is from the front's.
Lookup(h, shown, i) ==
    EntryAt(h, shown + ((Base(i) - EntryAt(h, shown).base) \div BLOCK_SIZE))

Find(c) ==
    /\ Step(c, "find", "move")
    /\ Set(c, [local[c] EXCEPT !.block = Lookup(local[c].header, local[c].front, local[c].index).block])
    /\ UNCHANGED <<indices, index, blocks, memory>>

Cell(c) == local[c].index % BLOCK_SIZE

Move(c) ==
    /\ Step(c, "move", "flag")
    /\ cells' = [cells EXCEPT ![local[c].block][Cell(c)] = Null]
    /\ UNCHANGED <<indices, index, blocks, emptyFlags, local>>

set_empty(c) ==
    /\ Step(c, "flag", "idle")
    /\ emptyFlags' = [emptyFlags EXCEPT ![local[c].block] = @ \union {Cell(c)}]
    /\ Set(c, Fresh)
    /\ UNCHANGED <<indices, index, blocks, cells>>

-----------------------------------------------------------------------------
(* The destructor, when no call is running.                                *)

Quiet == ppc = "idle" /\ \A c \in Consumers : pc[c] = "idle"

\* Not the code: the first entry, however many blocks ahead the head is.
HalfDequeued_First ==
    IF headIndex % BLOCK_SIZE = 0 THEN Null ELSE EntryAt(Len(headers), front - slotsUsed).block

\* The first entry, from the oldest on, whose block does not end before the head.
HalfDequeued ==
    LET entry(i) == EntryAt(Len(headers), front - slotsUsed + i)
        n == CHOOSE i \in 0 .. size :
                /\ ~(entry(i).base + BLOCK_SIZE < headIndex)
                /\ \A j \in 0 .. i - 1 : entry(j).base + BLOCK_SIZE < headIndex
    IN  IF headIndex % BLOCK_SIZE = 0 THEN Null ELSE entry(n).block

\* The cells it destructs: of each block that is not empty those between head and tail.
Destructed ==
    {x \in Owned \X Cells :
        /\ ~is_empty(x[1])
        /\ x[1] = HalfDequeued => x[2] >= headIndex % BLOCK_SIZE
        /\ x[1] = tailBlock /\ tailIndex % BLOCK_SIZE # 0 => x[2] < tailIndex % BLOCK_SIZE}

Destroy ==
    /\ Quiet /\ ppc' = "gone"
    /\ cells' = [b \in Blocks |-> [i \in Cells |-> IF <<b, i>> \in Destructed THEN Null ELSE cells[b][i]]]
    /\ ring' = [b \in {} |-> Null] /\ tailBlock' = Null /\ headers' = <<>>
    /\ UNCHANGED <<indices, slotsUsed, size, front, emptyFlags, pc, local>>

Next ==
    \/ Enqueue \/ Reuse \/ NewBlock \/ new_block_index \/ Fail
    \/ \E b \in Blocks : Requisition(b)
    \/ StoreEntry \/ StoreFront \/ Construct \/ Publish
    \/ \E c \in Consumers :
        Claim(c) \/ LoadHeader(c) \/ LoadFront(c) \/ Find(c) \/ Move(c) \/ set_empty(c)
    \/ Destroy
    \/ ppc = "gone" /\ UNCHANGED vars

Spec == Init /\ [][Next]_vars

-----------------------------------------------------------------------------
\* A consumer finds its element, although between its reads of header, front and entry the
\* producer overwrites entries, reuses blocks and replaces the index; and whoever starts
\* now finds every element that is not claimed.
FindsElement ==
    /\ \A c \in Consumers : pc[c] = "move" => cells[local[c].block][Cell(c)] = local[c].index
    /\ ppc # "gone" => \A i \in headIndex .. tailIndex - 1 :
         LET h == Len(headers)
             b == Lookup(h, headers[h].front, i).block
         IN  b \in Owned /\ cells[b][i % BLOCK_SIZE] = i

\* The assertion in set_empty: no cell is flagged twice between two resets.
FlaggedOnce ==
    \A c \in Consumers : pc[c] = "flag" => Cell(c) \notin emptyFlags[local[c].block]

\* The comment on the reuse: the index has room, since it has a slot for every block of the
\* ring and a reused block takes the oldest.  The ring closes over all blocks.
RoomForRing ==
    /\ ppc # "gone" => slotsUsed = Cardinality(Owned)
    /\ ppc \in {"entry", "front"} => slotsUsed <= size
    /\ \A S \in SUBSET Owned : S # {} /\ (\A b \in S : ring[b] \in S) => S = Owned

\* The destructor destructs the elements that are left, and no cell that holds none.
DestructsAll ==
    Quiet => Destructed = {x \in Owned \X Cells : cells[x[1]][x[2]] # Null}

\* The ring keeps every element until it is moved out or destructed, and its index has room.
FindsInRing == FindsElement /\ FlaggedOnce /\ RoomForRing /\ DestructsAll
=============================================================================
