# A specification of the Compositional Performance Analyzer's patterns

This directory holds TLA+ models of `CompositionalPerformanceAnalyzer/source` -
the parallel patterns, the lock-free queue below them, what several nodes
exchange, the algorithms and the demo - the TLC configurations that check them
on small instances, and TLAPS proofs about the four patterns that have threads,
about what their threads share (the lock-free queue, its pool of blocks and its
producers, the keyed collection), about what the nodes exchange and about the
algorithms. Paths below are relative to `source/` unless they say otherwise.

## 1. The system

The program is a header-only C++ library of *patterns* and a small demo. A
pattern is an object that takes a `std::future` for an input and a
`std::promise` for an output and fulfils the promise some time later. Patterns
hold other patterns; one built of asynchronous patterns is itself one, so their
contract composes, and that contract is what most of this project is about.
There are no exceptions, no cancellation, no persistence; the hard part is
threads that block each other in `future.get()`, two-step operations on
lock-free queues, and a `Dispose` that may come while work is in flight.

### Components

**PatternInterface** (`interfaces/PatternInterface.hpp`). State: the atomic
flags `initialized` and `dying`. Operations: `Compute` (makes a promise, calls
the virtual `InternallyCompute`), `Init`, `Dispose`, `create_copy`,
`ComputePure`. The assertion `assertInit` is called by nobody, so `Compute` is
accepted before `Init` and after `Dispose`. Correct when: a job is answered at
most once, with its input there, only while the pattern is up; a job given to
a pattern that is down is kept and answered after the next `Init`; the
destructor breaks what is left. This contract is module `Pattern`.

**Executor** (`interfaces/Executor.hpp`). State: the copies of a pattern and an
atomic `round_robin_counter`. `Compute` sends a job to the copy the counter
names (one copy only, if the pattern is blocking). Correct when: the index is in
range, also where the counter wraps, and concurrent calls keep the loads of the
copies within one of each other.

**TaskPool** (`pattern/TaskPool.hpp`). State: `thread_count` threads, a queue,
an executor with a copy per thread. `InternallyCompute` pushes; each thread runs
`PerformTask`: test `dying`, `try_pop`, `executor.Compute`. `Init` raises the
copies and starts the threads, `Dispose` sets `dying`, joins, takes the copies
down; the queue stays as it is. Hard: a thread may block for the output of
another job of the same pool; `Dispose`/`Init` with jobs in all places. Correct
when: no job is lost or duplicated, a chain of jobs never blocks the pool,
`Dispose` returns, and no thread runs over copies that are down.

**Pipeline** (`pattern/Pipeline.hpp`). State: two threads, two queues, two
executors. `InternallyCompute` makes a promise for the intermediate value and
pushes on both queues, in two steps. Hard: everything between the two pushes;
the two threads wait for each other's jobs. Correct when: no half of a job is
lost, the stages do not block each other, `Dispose` returns.

**MapReduceLocalH / MapReduceGlobalH** (`pattern/MapReduce.hpp`). State: threads,
three queues, per call a keyed collection on the stack. A call pushes a map and
a shuffle task per input, waits, pushes a reduce task per key, waits. Threads
serve maps, then shuffles, then reductions; a shuffle blocks for its map.
Several nodes exchange maps (`ShuffleNodes`) or results (`ReduceAtEnd`) over
MPI. Hard: shuffles hold a pointer into a call's stack frame; threads that block
for maps still in the queue; values moved out without a lock. Correct when:
each key is reduced over exactly what was emitted for it, the pointer never
dangles, and the threads do not all block.

**MapReduceLocalV** (`pattern/MapReduce.hpp`). State: threads, a map and a
reduce queue. A call pushes the maps and then reduces their results pairwise,
in the order of a growing vector of futures. Hard: the index arithmetic of the
tree, and a call that blocks for futures in vector order while threads finish
them in any order. Correct when: the result has every input once and the call
never waits for a future nobody will set.

**ThreadSafeKeyedCollection** (same file). A vector of values and a mutex per
key; `add` locks the key's mutex, `get` moves the values out unlocked.

**AlgorithmWrapper, Composition.** The leaves: `AlgorithmWrapper` waits for its
input and computes in the calling thread; `Composition` calls two executors in
the calling thread, one after the other.

**TSQueue** (`interfaces/ThreadSafeQueue.hpp`) wraps the vendored
**moodycamel::ConcurrentQueue** (`interfaces/concurrentqueue-master/`). State: a
hash from threads to producers, a list of producers, per producer a sub-queue of
blocks with an index to find them, a pool of blocks with a lock-free free list.
`push` finds the thread's producer and enqueues; `try_pop` picks a producer by
size, then tries the others. Hard: everything, as no step takes a lock. Correct
when: each sub-queue is a FIFO stream, no value and no block is lost or has two
owners, and a pop misses an element that is there only while another consumer is
between the counters of its sub-queue.

**MPI helpers** (`helper/mpi_helper.hpp`): blocking send and receive of sized
buffers, with one tag for all messages. Correct when the nodes never wait in a
circle and every receive gets the message meant for it.

**Quicksort** (`helper/quicksort.hpp`): Hoare's partition, whose scans test no
bounds. **Reduction and bitmap algorithms** (`algorithms/`, `Globals.cpp`): count
the bytes of bitmaps, in four representations that must reduce to the same
sums. **extrap_writer** (`helper/extrap_writer.h`): timings by name, threads and
size, written as files whose lines are paired by position.

**Demo** (`CompositionalPerformanceAnalyzer.cpp`): `main` builds
`pipeline(pipeline(increaser, taskpool(quicksort)), nopper)`, computes ten
vectors and disposes.

**futurepacker** and **ThreadSafeMap** are called by nothing. `PROJECT.json` lists
all components with their status.

### How they interact

    caller --Compute--> TaskPool / Pipeline / MapReduce --push--> TSQueue
    pattern's thread --try_pop--> TSQueue, --Compute--> Executor --Compute--> a copy
    copy = AlgorithmWrapper | Composition (in the same thread) | another pattern
    owner --Init / Dispose--> pattern --> its Executors --> their copies

    push / try_pop --> producer hash --> a producer's sub-queue --> block pool
    MapReduce on each node --send / receive--> MapReduce on the others

Everything between threads of a node goes through the queues, the promises and the two
atomic flags. The owner is the one thread that calls `Init`, `Dispose` and the
destructor; `Init` and `Dispose` test and set `initialized` in two steps and
would not survive two owners. The models have one, as the demo does.

## 2. The modules

| module | models | shown by |
|---|---|---|
| `Pattern` | the contract of a pattern, abstractly | refined by the four patterns and by the pool of `Demo` |
| `Executor` | the round robin, as operators | `TaskPool`, `NestedPools` use it |
| `TaskPool` | `TaskPool.hpp` over a wrapper, an inline or an asynchronous copy | `pool`, proofs |
| `TaskProofs` | theorems about `TaskPool`, `NestedPools`, `Quicksort`, `Bitmap` and `ExtrapWriter` | TLAPS |
| `Pipeline` | `Pipeline.hpp`, each stage over a leaf or an asynchronous pattern | `pipe`, proofs |
| `PipelineProofs` | theorems about `Pipeline` | TLAPS |
| `MapReduceH` | `MapReduceLocalH` and `MapReduceGlobalH` on one node | `mr_safe`, `mr_live`, `mr_stuck`, proofs |
| `MapReduceHProofs` | theorems about `MapReduceH` | TLAPS |
| `MapReduceV` | `MapReduceLocalV` on one node | `mrv`, proofs |
| `MapReduceVProofs` | theorems about `MapReduceV` | TLAPS |
| `StreamLemmas` | lemmas about queues of streams, sequences and sets of numbers | TLAPS |
| `MpiExchange` | what the three exchange between nodes | `mpi`, proofs |
| `MpiExchangeProofs` | theorems about `MpiExchange` | TLAPS |
| `Structure` | building, copying, `Init`, `Dispose`, destruction of nested patterns | `structure` |
| `NestedPools` | a pool whose copies are pools | `nesting`, proofs |
| `MCNestedPools` | chains of jobs in `NestedPools`, for the run and the proofs | `nesting`, proofs |
| `Demo` | the whole demo, all patterns and threads | `nesting`; refines `Pipeline` twice and `Pattern` |
| `Stream` | the FIFO stream of one pushing thread, abstractly | refined by `ImplicitProducer` |
| `ImplicitProducer` | the sub-queue of a thread without a token, which the patterns use | `producers`, proofs |
| `ExplicitProducer` | the sub-queue of a token | `producers`, proofs |
| `ProducerInvariants` | the inductive invariants of both kinds of sub-queues | proofs |
| `ProducerProofs` | theorems about them | TLAPS |
| `BlockStore` | what the block pool promises, abstractly | refined by `BlockPool` |
| `BlockPool` | the initial blocks, the free list, `requisition_block` | `containers`, proofs |
| `ProducerHash` | `get_or_add_implicit_producer` | `containers`, proofs |
| `TryDequeue` | the choice of a sub-queue in `try_dequeue`, and the counters of `dequeue` | `containers`, proofs |
| `KeyedCollection` | `ThreadSafeKeyedCollection`, lock by lock | `containers`, proofs |
| `ContainersProofs` | theorems about the pool, the hash, the search and the collection | TLAPS |
| `Quicksort` | `quicksort.hpp` | `algorithms`, proofs |
| `Bitmap` | the histogram algorithms and the loading of files | `algorithms`, proofs |
| `ExtrapWriter` | `extrap_writer.h` | `algorithms`, proofs |
| `MC*` | the instances for TLC | |

Each part is abstracted where another uses it. `TaskPool` and the other patterns
take a queue to be a set of streams (`Stream`), a copy to be something that
keeps the contract (`Pattern`), a call on the keyed collection to be one step.
`ImplicitProducer`, the four refinements of `Pattern`, and `KeyedCollection`
show that of the code in question; `Demo` puts the patterns together again.
These links are arguments between modules, each of which is checked; the whole
is not one theorem.

**MC modules.** A run may hold several instances. Its MC module then has a
variable (`kind`, `program`, `part`, `scenario`) that the initial state chooses and
no step changes, and the next-state relation is that of the instance it names.
Variables of the other instances keep their initial values. A module that is
reached by `INSTANCE` only states its assumptions as an operator
(`HashAssumption`, ...), and the MC module assumes it of its instances. So every
instance of a run is one connected component of its state graph; the properties
speak of each.

Operators named `X_Something`, marked "Not the code", are variants of the definition
`X` with one bug; nothing uses them. They record, for each property, a mistake in
the code that the property would show.

### Conventions

*Jobs.* A call of `Compute` is a job: the future and promise it carries. A value
is not modelled where no property depends on it, only whether its promise is
set. `Dep[j]` is the job whose output future is `j`'s input, or `NoJob` for an
input from outside, which `Supply` makes ready. A caller chains only its own
calls, and only after the earlier one returned (`ChainAssumption`): that is how a
future gets to be an input.

*The queue.* A queue is a function from pushing threads to sequences. A pop takes
the head of any nonempty one, and a failing pop (`PopFail`) is always possible:
`try_dequeue` may fail on a nonempty queue ("likely but not guaranteed").

*A `dying` test.* `while (!dying)` and the `try_pop` are two steps, and the flag
may change between them. After a failed pop the loop tests again at once, so
that test is the same step as the one at its head.

*Waiting.* `future.get()` is a guard on the step that uses the value. The wait
and the use are one step: a promise is set once and never reset, so nothing
could tell them apart.

*What another pattern does.* An "async" copy takes a job and returns; then
`InnerAnswer` answers it, under the guards of `Pattern!Answer`. Its own `Dispose`
is part of the outer `DisposeEnd`, so it is assumed to return. That is not always
so (see `Ends` of the pipeline), and no liveness of `Dispose` is claimed for an outer
pattern over an undrained asynchronous one; `Demo` shows it for a drained one.

*Drains.* The demo gets every output before it disposes and computes nothing
meanwhile (`CompositionalPerformanceAnalyzer.cpp`, lines 55-63). `Drains = TRUE`
is a program like that; `FALSE` may dispose at any time.

*Steps of the queue.* In `BlockPool`, `ImplicitProducer`, `ExplicitProducer` and
`ProducerHash` a step is one access to memory that other threads can see, and
memory is sequentially consistent: the acquire and release orders are taken to
be strong enough, not shown to be.

### TaskPool

`initialized`, `dying`, the executor's `up`; `owner` is where the owner is
(idle, starting threads, joining, gone); `pc`, `job` say where each thread is
and what it holds; `inner_queue` is the queue; `counter` and `target` the round
robin and what it decided; `inner` what asynchronous copies hold; `submitted`,
`answered`, `supplied` the promises.

| code | action |
|---|---|
| `Compute`, `InternallyCompute` | `Submit` |
| `Init` | `InitBegin`, one `Spawn` per thread, `InitEnd` |
| `Dispose` | `DisposeBegin`, `DisposeEnd` after all joins |
| `~TaskPool` | `Destroy`: only when down, the Dispose having come first |
| `PerformTask` | `TestDying`, `Pop` or `PopFail`, `Enter` (`executor.Compute` to the call of the copy), `Execute` |

The counter wraps at `CounterModulus`, 2^64 in the code. The instances use a
power of two as well; with a number of copies that does not divide it the
rotation skips where it wraps, once in 2^64 calls.

### Pipeline

As TaskPool with two stages. `half[c]` is the job a caller has pushed on the
first queue only: `PushFirst` and `PushSecond` are the two pushes, and the
owner, the stages and other callers run between them. `done[1]` and `done[2]` are
the intermediate and the output promises.

### MapReduceH and MapReduceV

Each call runs in a thread of its own and has a stream of its own. In
`MapReduceH`, `at` and `next` are its position and loop variable, `values` its keyed
collection. A thread's `pc` runs through "map", "shuffle", "reduce", which are
the three functions it tries in turn. `Get` is the shuffle's `future.get()`, `Add`
one `tskc->add` under the mutex of its key, `SetShuffled` its promise. `Await` is
the loop over the shuffles' futures together with the unlocked move of the
values. The two classes differ in the container they move the values into; both
have an entry for every key below `pre_size` and so behave alike.

In `MapReduceV`, `outputs[c]` is the call's vector of futures, by the values they
have or `Unset`; a map result is the sequence of inputs it was made of, and
reducing concatenates. `PushReduce` is one turn of the reduction loop, from the
waits for two futures to the push. A call with an empty vector has undefined
behaviour (the bound `inputs.size() - 1` wraps), which `MapReduceVAssumption`
excludes.

### MpiExchange

Every node makes the calls of `Kind`, one after the other, each of a pattern of one
of the three classes, and runs the call's script: the rounds of `ShuffleNodes` (a
pair of nodes exchanges sizes, keys, vector lengths and values, in an order that
their ranks decide) or the barrier, the local reduction, and `ReduceAtEnd`, where
rank 0 receives from the others in turn. `barrier[n]` is the last call in which node
`n` has entered the barrier, which tells the barriers of different calls apart. `wire[m][n]` is the channel from `m` to `n`. A send either puts its
message there and goes on, or waits until it has been taken: MPI is free to
choose, and so is each step. A message's `part` says what its sender meant by
it; only the property `Matched` reads it. A value is the sequence of the
contributions reduced into it.

### Structure

The heap is a sequence of objects; `create` makes an object together with the
copies its executors make (one of a blocking pattern, one per thread of a pool
otherwise). `InitPattern`, `DisposePattern` and `Destroy` are the calls of one
owner on patterns the program has a pointer to, with everything they reach.
`RECURSIVE` operators follow the nesting, so this module is for TLC only.

### Demo and NestedPools

`Demo` is the program of the demo with all its threads. `main` is sequential: it
is the sequence `Program` of its steps, the ones of `Init` and `Dispose` of the three
nested patterns included. `Outer`, `Inner` and `Pool` at the end of the module map
its state to `Pipeline`, `Pipeline` and `Pattern`. `main`'s ten vectors are all alike;
the instance's differ, so that a mixed-up output shows.

`NestedPools` has the threads of an outer pool push one caller's chain into inner
pools, whose `ChainAssumption` therefore fails: two jobs of a chain may lie in two
streams of one copy and be taken in either order. `MCNestedPools` gives its
constants values: the records of `Chains` have the threads of both pools and the
number of jobs, and the variable `program` says which of them a behaviour is of.

### The lock-free queue

`BlockPool`: `pc` follows `try_get`, `add` and `add_knowing_refcount_is_zero`; a
node's `freeListRefs` keeps the flag `SHOULD_BE_ON_FREELIST` as the number `Should`
added to its references. `ImplicitProducer`: the four counters, `headers` (every
index array so far, as consumers may still hold an old one), `entries`, `cells`, the
blocks' counts; `ppc` is the producer inside `enqueue`, `pc` each consumer inside
`dequeue`, `local` what they have read. The element at index `i` is the number `i`.
`ExplicitProducer` adds the ring and the flags of empty cells. `ProducerHash`
keeps every table, and the list of producers. `TryDequeue` has the four counters of
each sub-queue and `dequeue` in its loads and additions, without the elements; its
`excused` is a history variable, written in one place (`Observe`) and read by no
action.

### KeyedCollection, Quicksort, Bitmap, ExtrapWriter

`KeyedCollection` has `add`, `preAddKeys` and both `get`s in steps of several
threads. `Quicksort` has the recursion as a stack of ranges, one action per turn of
a loop. `Bitmap` cuts a bitmap into slices of whole pixels and reduces the partial
results in any order, for the four pairs of decomposer and reducer that their
types admit. `ExtrapWriter` has the calls between two `clear`s in any order, and
what `flush` then writes.

## 3. The runs

| run | instances | states | properties |
|---|---|---|---|
| `pool` | 2 threads, a chain of 3 jobs, another caller; a wrapper, an inline, an asynchronous copy | 29 464 | `TypeOK`, `OnePlace`, `NoWaitOnQueued`, `QuietWhenDown`, `RoundRobin`, `ImplementsPattern`, `Ends` |
| `pipe` | 2 callers, one chaining, and 1 chaining caller, disposing at any time; 1 chaining caller that drains; 2 callers over an asynchronous first stage, draining | 55 819 | `OnePlace`, `NoCycleOfOneCaller`, `Implements`, `Ends` |
| `mr_safe` | 2 calls, 3 inputs, 2 keys, 2 threads, disposing at any time | 128 517 | `CollectionAlive`, `Complete`, `MapIsThere` |
| `mr_live` | 1 call, 2 inputs, 3 threads, drains | 31 526 | `ImplementsPattern`, `DisposeEnds` |
| `mr_stuck` | 1 call, 1 input, 1 thread | violation | `NoStuck` |
| `mrv` | calls of 3 and 1 inputs, 2 threads, disposing at any time; 4 and 1 inputs, 1 thread, drains | 182 405 | `TreeHolds`, `Implements`, `DisposeEnds` |
| `mpi` | 4 nodes, 4 calls: `GlobalH`, `LocalV`, `GlobalH`, `LocalH` | 134 167 | `Matched`, `Complete`, `NoCircle` |
| `structure` | every program with up to 4 patterns, pools of 1 or 2 threads | 319 963 | `Lifetimes`, `Copies` |
| `nesting` | the demo, 2 vectors, 2 pool threads; pools of pools: a chain of 3 and another job on 2 copies of 1 thread, a chain of 3 on 3 copies of 1 thread, a chain of 2 and another job on 2 copies of 2 threads | 31 986 | `NoCircle`, `MainReturns`, `ImplementsAll`, `Answers` |
| `producers` | 2 consumers, 3 blocks of 2 cells, an index of 2 that grows | 1 596 951 | `CountsRight`, `Finds`, `FindsInRing`, `ImplementsStream` |
| `containers` | 3 threads on a block pool and on a hash of 2 slots that grows; 3 producers, of which 2 are scored, 2 consumers; a collection of 2 keys | 1 168 648 | `OneProducer`, `MissesOnlyBusy`, `Kept`, `KeepsBlocks` |
| `algorithms` | all arrays of up to 4 of 6 elements; 2 bitmaps and 5 bad files; up to 4 calls of the writer | 518 830 | `Partitions`, `Histograms`, `Aligned`, `Sorts` |

### The properties

*pool.* `OnePlace`: a submitted job is in exactly one of queue, one thread's hands,
a copy, answered, broken. `NoWaitOnQueued`: no thread waits for the output of a
job that is still queued. This is why a pool of a single thread does not block
itself on a chain; it holds because a caller's stream is FIFO and the caller
pushes the earlier job first. `QuietWhenDown`: no thread runs over copies that
are down. `RoundRobin`: loads within one of each other. `Ends`: `Dispose` returns,
and while the pool stays up every job whose input is there is answered.

*pipe.* `OnePlace`, per stage. `NoCycleOfOneCaller`: whenever both stages wait,
they hold jobs of two callers; a single caller's chain never blocks the pipeline.
With two callers it can: the first stage holds `c1`'s second job and waits for
the output of its first, while the second stage holds `c2`'s job, whose
intermediate value the first stage would have to produce. That is a real
deadlock, with draining too. `Ends`: a program that drains gets its answers and
its `Dispose` returns; with one caller that does not drain, `Dispose` may hang,
and only because one stage left with a job in its queue that the other waits for.
Both directions occur.

*mr_safe, mr_live, mr_stuck.* `CollectionAlive`: the pointer in a shuffle task is
never used or queued once the call has gone on. `Complete`: what is reduced for a
key is what was emitted for it, each value once. `MapIsThere`: a shuffle in a
thread's hands waits for a map that still exists somewhere. `NoStuck`: the
threads are not all waiting for maps in the queue; see the finding.

*mrv.* `TreeHolds`: every future in the vector has its value or exactly one task
that will set it, and the result has every input as often as the vector of
inputs. No thread waits for another, so one thread is enough and `Dispose`
returns without draining; compare MapReduceH.

*`ImplementsPattern`, `Implements`.* The module, with the mapping at its end,
implements `Pattern`: with its liveness (a pattern that stays up answers what it
can, `Responsive`) for the two MapReduce modules, without it for the two others,
whose `Ends` states it. For the MapReduce modules the safety part is checked with
`Drains`: without it a call, which runs in its caller's thread, may set its promise
after `Dispose` has returned.

*mpi.* `Matched`: every receive gets the message that was meant for it, of the
length it expects, although all have one tag. `Complete`: before the local
reduction every key is on the node the distributer names, with all nodes' values;
rank 0 returns every value once and the others return nothing. `NoCircle`: some node
can always go on, whatever MPI buffers.

*structure.* `Lifetimes`: no inner pattern is in two executors; `Init` and `Dispose`
reach every pattern below, once, though some were up or down before; no running
thread is destroyed; a pattern that is up can answer `ComputePure` down to its
leaves. `Copies`: a copy is built like its original, thread counts included, and
`ThreadCount` is the number of threads, except that a pool counts none of its own.

*nesting.* `MainReturns`: the outputs are the inputs, sorted and increased; nothing
is left in a queue when `main` disposes; and it returns. `ImplementsAll`: the outer
and the inner pipeline implement `Pipeline`, the pool `Pattern`. `NoCircle`,
`Answers`: a pool of pools answers every job, unless inner pools wait for each
other's queued jobs in a circle (`Blocked`). That cannot happen when the round robin
has a copy for every job (`Spread`), or when the copies have more threads than there
are jobs that wait for another one (`Few`); it does happen to a chain longer than
there are copies of one thread (`Answers` allows it, and the long program meets it).

*producers.* `CountsRight`: optimistic count, overcommit, head and tail agree, and
the head never passes the tail. `Finds`, `FindsInRing`: every consumer finds its own
element, every block has one place, the destructor destructs and returns what is
left. `ImplementsStream`: the sub-queue is the FIFO stream that the patterns'
modules assume.

*containers.* `KeepsBlocks`: the block pool implements `BlockStore`; every block
is owned, on the list, or on its way with one thread that will bring it there; the
reference counts are right. `OneProducer`: each thread has one producer of its own,
which is on the list; every table keeps a free slot, so probing ends; and no
thread waits for a resize that nobody does. `MissesOnlyBusy`: `try_dequeue` fails
only if every producer, at some time during the call, was empty or had another
consumer between its count (`dequeueOptimisticCount`) and its claim of an element or
its `dequeueOvercommit`. The comment at `concurrentqueue.h:1036` promises no more
than "likely but not guaranteed", and an element can indeed be missed that is there all
the time: consumer B counts itself in behind A, which takes the last element; before
B has added to the overcommit, an element is pushed; the next call finds a count that
is too high and fails. A single consumer misses nothing. `Kept`: what is added to a key is there once, or was handed out.

*algorithms.* `Partitions`: the unguarded scans stay in their range, and a partition
splits it into two smaller ones in order. `Sorts`: in the end the array is sorted,
and it is always a permutation. `Histograms`: every byte of the accepted files is
counted once, in lists the reducers can add. `Aligned`: if a name was measured
with every size for each of its thread counts, the i-th line of a region belongs to
the i-th point. Without that condition lines shift, as the writer leaves out what
it does not have.

### Bounds, and why they are enough

Two threads are what it takes for any interleaving of two of them; the threads
are alike, so a third adds no new pair, except where the number matters
(`mr_live`, where it must exceed the inputs). A chain of three jobs in the pool has
one job in the middle that waits and is waited for; two chained jobs and one of
another caller suffice for the cycle of a pipeline. `CounterModulus` is 2 in `pool`,
fewer than the jobs, so the counter wraps and wrapped values are used. Two
keys, one of which not every input emits, tell a lost or misplaced value apart;
768 do not add a case. Trees over three and four inputs are the smallest
unbalanced and the smallest balanced one with two levels. The theorems of section
4 hold for all of these numbers.

- `mpi`: four nodes give two rounds of exchanges beyond the first and pairs that
  wait for others' pairs, and the smallest tree of two levels for `LocalV`; the
  vectors have lengths 0 to 2. A fast node starts a call while others are in the
  one before, and the four calls put each opening behind another pattern's end. A
  number of bytes is passed as an `int` of at most `INT_MAX`; that it is large
  enough is `ExchangeAssumption`, a precondition of the code (see section 5).
- `producers`: `MaxElements` 7 (`MaxInRing` 9) with blocks of 2 cells uses at least
  four blocks' worth of indices out of three blocks, so blocks are reused and the index
  of 2 entries grows. `MaxCount` bounds the calls of `dequeue`.
- `containers`: `MaxCalls` 3 per thread and three threads let one thread hold a
  stale head over a whole get and add by each of the others (ABA). One block comes
  with the pool, one from the allocator, which may also fail. All threads hash to
  the same slot. `TryDequeue` has one producer more than are scored: the 3 of the code
  is the constant `MaxScored`, 2 here. One producer gets two elements, so that one is
  there while consumers race for the other; after two overcommits at a producer
  (`MaxOvercommits`) calls no longer overlap.
- `structure`: `MaxCreates` 4, enough for a copy of a copy of a nested pattern.
- `algorithms`: four elements are the smallest array with two nested partitions;
  values beside the keys tell equal keys apart.

`Init` and `Dispose` may alternate any number of times: no run bounds them. Runs
`mr_safe`, `producers` and `containers` use symmetry over threads (and blocks, where
nothing orders them); all properties they check treat these alike, and they
check no liveness.

`CHECK_DEADLOCK FALSE` is in `pipe`, `mr_safe` and `nesting`, where the program
really may block for ever, as said above and below. Elsewhere a module that may
come to an end stutters there (`Terminated`, `Finished`), so every other end is a
deadlock TLC reports.

### Fairness

- Weak fairness of every thread, of a call that was begun, and of an `Init` or
  `Dispose` that was begun: the operating system runs them.
- None on beginning `Init`, `Dispose`, `Compute` or the destructor, except in
  `Demo`, where `main` goes on.
- Weak fairness of `Supply`: inputs come in the end. Otherwise `Dispose` would
  wait for a thread that waits for the world.
- Strong fairness of pops (some thread's pop, in patterns whose threads share a
  queue): a pop may fail on a nonempty queue, but not every time. Each failure
  disables the pop until the loop comes round, so weak fairness would not do. This is
  an assumption about the schedule, which the queue does not enforce. A pop misses an
  element only beside another consumer (`MissesOnlyBusy`), but two consumers whose
  steps alternate for ever, each testing before the other counts and with an overcommit
  loaded one too small, can make each other fail for ever while an element stays. In
  `NestedPools` a failing pop is no step, so weak fairness is the same.
- Weak fairness of `InnerAnswer`: the contract of the inner pattern.

No liveness is claimed of the queue's parts: they are lock-free, and a thread may
have to try again as long as others succeed. Likewise `try_pop`
prefers the larger sub-queues, and could pass over a small one while others are
kept full. The strong fairness of pops is per queue and says nothing of that.

### The finding

`MapReduce.hpp:708` (and `:415`) says with `assert(threads > 0 && mpi_nodes > 0)`
what a MapReduce needs. That is not enough. A thread that finds `map_queue` empty
goes on to `shuffle_queue`; if a call pushes the map and the shuffle of an input
in between, the thread takes the shuffle and waits in `future.get()`
(`MapReduce.hpp:528`) for a map that is still in the queue. With one thread and
one input nobody is left to run it. `mr_stuck` shows it in a few steps. With `T`
threads it takes `T` inputs in flight; with more threads than inputs it cannot
happen (`mr_live`). `mr_safe` admits it (3 inputs, 2 threads), and a `Dispose` that hangs
because one thread left while another waits for a queued map; the safety
properties hold all the same.

## 4. The proofs

The theorems hold for any finite set of threads or consumers, any callers, jobs,
chains, inputs, nodes, calls, keys, arrays, bitmaps and blocks. They assume only what the modules
assume of their constants (`PoolAssumption`, `ChainAssumption`, `PipelineAssumption`,
...), and what a theorem's statement says: `PatternRefined` of the MapReduce modules,
`NoStuckCorrect`, `BalancedCorrect` and `HistogramsCorrect` have a condition, which
the runs that check the property meet. That of `HistogramsCorrect` is that a
reducer adds once, as `REPEATS_REDUCE` is 1 (`Commons.hpp:38`), and that
`ReduceAddVector` was given 0 as the sum of no values: with any other number
it would count bytes that are not there.

| module | theorem | states |
|---|---|---|
| `TaskProofs` | `TypeCorrect`, `QuietCorrect`, `OnePlaceCorrect`, `NoWaitOnQueuedCorrect` | the invariants `TypeOK`, `QuietWhenDown`, `OnePlace`, `NoWaitOnQueued` |
| | `BalancedCorrect`, `RoundRobinCorrect` | `Balanced` and, of the run, `RoundRobin`, if the counter does not wrap within a rotation |
| | `PatternRefined` | the pool keeps the safety part of `Pattern` |
| | `PartitionsCorrect`, `SortsCorrect` | `Partitions` and `Sorts` of `Quicksort` |
| | `HistogramsCorrect` | `Histograms` of `Bitmap`, with the program's constants |
| | `AlignedCorrect` | `Aligned` of `ExtrapWriter` |
| | `NoCircleCorrect` | `NoCircle` of `nesting` |
| `PipelineProofs` | `OnePlaceCorrect`, `NoSelfCycleCorrect`, `NoCycleOfOneCallerCorrect` | the invariants `OnePlace`, `NoSelfCycle` and, of the run, `NoCycleOfOneCaller` |
| | `PatternRefined`, `ImplementsCorrect` | the pipeline keeps the safety part of `Pattern` (`Implements` of the run) |
| `MapReduceHProofs` | `CollectionAliveCorrect`, `CompleteCorrect`, `MapIsThereCorrect` | the invariants of these names |
| | `NoStuckCorrect` | `NoStuck`, if there are more threads than inputs |
| | `PatternRefined` | the safety part of `Pattern`, if the program drains |
| `MapReduceVProofs` | `OutputsComingCorrect`, `CompleteCorrect`, `TreeHoldsCorrect` | the invariants `OutputsComing` and `Complete`, and `TreeHolds`, which is both |
| | `PatternRefined` | the safety part of `Pattern`, if the program drains |
| `ProducerProofs` | `CountsAreRight`, `FindsHolds` | the invariants `CountsRight` and `Finds` |
| | `ProducerImplementsStream` | the sub-queue implements `Stream` |
| | `FindsInRingCorrect` | the invariant `FindsInRing`, of `ExplicitProducer` |
| `ContainersProofs` | `KeptCorrect`, `MissesOnlyBusyCorrect`, `OneProducerCorrect` | the invariants `Kept`, `MissesOnlyBusy` and `OneProducer` of `MCContainers` |
| | `KeepsBlocksCorrect` | `KeepsBlocks`: the pool implements `BlockStore`, keeps every block in one place and counts its references |
| `MpiExchangeProofs` | `MatchedCorrect`, `CompleteCorrect`, `NoCircleCorrect` | the invariants `Matched`, `Complete` and `NoCircle` of `MpiExchange` |

A module about one component has a theorem `Invariance`, `Spec => []IInv`, from which
the others follow (the algorithms in `TaskProofs` have `SortInvariance`,
`HistogramInvariance` and `WriterInvariance`, the nested pools `NestedInvariance`, the explicit producer `RingInvariance`;
`ContainersProofs` has an invariant for each of its four). A run may check several instances of a module, of which a variable
says which one a behaviour is of (`kind`, `program`); `RoundRobinCorrect`,
`NoCycleOfOneCallerCorrect`, `ImplementsCorrect` and `TreeHoldsCorrect` state the run's
property for the instance of the module's own constants, whichever they are. What
follows says what the invariants are and why it takes that much.

### TaskPool

`IInv` has three layers, each proved on those before it.

1. `Types`: `TypeOK`, and that a thread holds a job exactly between `Pop` and the
   end of `executor.Compute`.
2. `Life`: how the flags, `up` and the owner's position go together, with
   `QuietWhenDown`. It is needed to know that no thread holds a job when the
   destructor drops the queue, so that nothing is lost silently.
3. `Places`: `OnePlace`, with `StreamsOrdered` (each caller's jobs are in its own stream,
   each behind the one it depends on) and `DepsFirst` (a job that left the queue
   left none behind that it depends on). `OnePlace` needs no chains, but
   `NoWaitOnQueued` does not follow from it: `Pop` would have to know that the
   head of a stream is not waiting for a job further back.

`PushQueued` and `PopQueued` say what a push and a pop do to the set of queued
jobs; `PlacesFrame` handles the steps that move none; there is a lemma for each
kind of step that does. The refinement maps `Submit` to `Accept`, `Supply` to
`Supply`, `InitBegin` to `Start`, `DisposeEnd` to `Stop`, `Execute` and
`InnerAnswer` to `Answer`, `Destroy` to `Destroy`, the rest to stuttering.

The round robin has an invariant of its own, `Robin`, on top of `IInv`. `Spread`
divides the counter by the number of copies: the copies below the remainder have
had one job more than the others. To keep it, `Enter` must add a job to just one
copy, so `SentOnce` says that a job a thread holds has not been sent before. The
counter wraps in the code, at 2^64 for a `size_t`; `BalancedCorrect` assumes
`CounterFits`: that there are fewer jobs than that, or that the number of copies divides it.
With three copies and a counter that did wrap, one copy would be skipped.

### StreamLemmas

First what the proofs about the exchange and the algorithms need to know of
sequences: what a sequence of sequences flattens to, and that a finite set of numbers
has an ascending enumeration. Then what the proofs about the other three patterns need to know of a queue of
streams, for any values: a push puts one value at the end of one stream and a pop
takes one from a front, and so they keep values apart (`PushApart`,
`PopApart`) and streams in the order of the chains (`PushKeeps`, `PopKeeps`);
streams that agree read from their ends go on to agree (`SameEndPush`,
`SameEndPop`); what the opening and the joining of streams do to a queue.

### Pipeline

The layers are those of the pool, with `OnePlace`, `InOrder` and `DepsFirst` for
each stage. That is not enough for `NoSelfCycle`. Say the stages hold jobs x and y
of one caller, and each waits for the other. Then x is chained behind y or later
and y needs the intermediate value of y, which the first stage has still to
produce. To refute it one has to know that what is queued for the first stage is
pushed later than x: `SameOrder` says that a caller's streams in the two queues,
the second with the job the caller has yet to push (`Second`), are ends of one
history of calls. Both are pushed to in one order and popped from in that order;
the history covers the moment between the two pushes of a call, at which one
queue has the job and the other not yet. `InputsFirst` (an
intermediate value is set after its input) is what `Answer` of the contract asks
for, the input of the second stage being an intermediate value and not the
job's.

### MapReduceH

`Types` includes `Cursor`: how far a call is in its vector, from which what it has
pushed follows. Then, for each input, `MapsKept`: its map, once pushed, is queued,
in a thread's hands, or over; `Places`: its shuffle is in exactly one of three
places from its push on (`ShufflesKept`, `ShufflesApart`), and values are added
only after the map and moved out only after all shuffles (`InTurn`); `ValuesKept`:
a key's vector holds what was added, each value once. `CollectionAlive` follows
from `Cursor` and `Places`: a call beyond `Await` has no shuffle anywhere but
over. `Complete` follows from `ValuesKept`. `NoStuck` is a pigeonhole: if all
threads are in `Get`, they hold different inputs' shuffles, of which there are
fewer than threads. The refinement rests on `Contract` as well, which is an
invariant of its own.

### MapReduceV

`Places`: each future of a call that has no value has one task, and each that
has one has none (`OneTask`); a task is at one place. `TreeKept`: there is a
function `leaves` from the futures to sequences of positions in the vector of
inputs, such that a map's future stands for its own position, a reduction's for
those of the two futures it reads, one after the other, and every position that
is mapped is in exactly one of the `Roots`, the futures nobody has read yet. The
reduction loop reads the futures `2n-1` and `2n` and appends one, so `Roots`
shrinks by one in each turn and is the last future alone at the end. It is
quantified away, as nothing in the code stores it. `Complete` then compares the
result with the vector by a bijection between the positions. `FuturesAssumption`
holds for every model: it says that `Unset` is not a value.

### ImplicitProducer

The proof about the lock-free code the patterns' queues end up on. It holds
for any finite set of consumers, any set of blocks, any block size and initial
size of the index above 1 and any bounds on the numbers of elements and of calls.
The proof has what concerns the block index alone first, then the rest. The layers
of `IInv` (in `ProducerInvariants`):

1. `Types`: the types, and what the producer and each consumer know where they are.
2. `Counting`: `Balance`, `OvercommitBelowCount`, and `ClaimsBelow`, which
   `HeadBehindTail` does not follow without: for every `t` from the tail on, the
   head and the calls that have passed, or will pass, the second test if it sees
   `t` stay below `t`. It is stated for all `t` because a call's test is decided
   by a tail that has yet to be stored.
3. `Indexed`: counted back from its tail, the last index has the blocks inserted
   last, in order, and unused entries behind them, with the one whose insertion is
   under way or has failed at the end (`Filling`, `Pending`); it has every entry
   once (`Distinct`). An index that was replaced has lost sight of the newer
   blocks, but its places are as far apart as the keys of their entries, whole
   turns aside, because it goes into the new one a whole number of times
   (`Replaced`, `Aligned`). That is what the subtraction of keys in `dequeue`
   needs of an index that may be old, its tail as well as the entry looked for.
4. `Tracking`: a block is in the index until every index in it is past
   (`Covered`); it has counted as many elements as are past, and if these are all,
   a consumer is taking it out (`Links`); what a consumer looks for is in the
   index it has loaded, and what it has found stays there (`OnTrack`); consumers
   have different indices and take out different blocks (`Apart`).
5. `Owning`: blocks have one owner (`OneOwner`), the producer's blocks are those
   that have one (`Placed`), and none counts more elements than it has.
6. `CellsKept`: an element published and not yet moved is in its cell.
   `HandedKept`: what was handed over has no claim left.
7. `Destroying`: the destructor still has the blocks from the one it is in on.

The first three layers are proved each without the later ones, the others
together. `FindEntry` joins them: `Covered` gives the block an entry, `Aligned`
says that the computed place is that entry's, `OnTrack` that it stays. The
refinement maps `Publish` to `Push`, `Claim` to `Pop`, for which the stream must
not be empty (`ClaimIsBelow`), and `Move` to `HandOver`, for which the element in
the cell must be the one claimed (`MoveHands`).

### ExplicitProducer

`RingInv` counts blocks by the elements they are for: the block with `Number` k has
elements `k * BLOCK_SIZE` and on. Of all numbers the producer has `Entered` so far, the ring
has the last `slotsUsed` (`Window`). The invariant says that there is a function `blk`
from those numbers to blocks, which nothing in the code stores, so that `Arranged(blk)`:

- `InRing`: the ring goes through these blocks in the order of the numbers, from the
  tail back to the oldest, and each block is in it once;
- `Contents`: a cell holds its element from `Construct` until it is moved, and nothing
  otherwise; its flag is set when it was moved and flagged;
- `Displays`: the last index has an entry for every block of the ring, in that order and
  ending at its front, but for the step in which `Reuse` or `Requisition` has entered a
  block and the entry is still to be stored (`Recorded`, `Displayed`);
- `Led`: what a consumer has read leads it to the block of the element it claimed.

`Claims` says that different calls have claimed different elements, and that neither
these nor the head are in a block the ring has left behind. That is why `Reuse` is safe: the
flags of the oldest block are all set only when all its elements are `Finished`.

A consumer may subtract the base of the entry at a front it read from an index that was
replaced, or has gone on. `LinedUp` is what makes that right: in every index, old ones
too, the places of any two entries in use are as far apart as their numbers, but for whole
turns. It survives `StoreEntry`, as an entry is overwritten by one whose number is a whole turn
further, and a new index begins lined up. `LookupFinds` then computes the place from any entry in
use. The entry sought is in the old index still, since only the last index is written,
and in it only the place of the oldest block, which has no element claimed.

The half dequeued block needs the least number that does not end before the head
(`HalfDequeuedIs`), and that the ring closes is induction along the ring, as a least
counterexample (`RingCloses`). The theorem holds for any size of the first index;
`ExplicitAssumption` wants it above 1 and even, because the constructor halves it if it gets no
memory.

### What the threads share

The theorems of `ContainersProofs` are about the instances in `MCContainers`, whose
constants are as general as the modules': any threads, consumers, keys and bounds.

`Kept`: `Guarded` says what a thread in `add` relies on (`AddsTo`). Its key is in the
collection and nobody renews it: the program keeps a key from being renewed while
a thread adds to it, and the guards of `Add` and `PreAddKeys` say so; while it
inserts it has the mutex of that key, the one `preAddKeys` made last; and the
vector it has read is still the key's. Two threads therefore insert into
different keys, and what one writes back loses nothing of the other's.

`MissesOnlyBusy`: `Balance` says of each producer that its count is the elements
claimed, the overcommits and the consumers in between (`CountedIn`); it is why
`Consumers` must be finite. `Search` says of each call that a producer not excused is
on the list, has had an element all the time, and nobody else in between (`Seen`). So a
size read from its tail of then and its head of now cannot be 0 (`Scores`); and what
`dequeue` has read there is still so, its count less the overcommit being the head
(`Reads`), which is why neither test fails there. A search with no producer scored, or
in its second round, has none behind it that is not excused (`SearchedTo`), nor the best
one (`Tries`). That at least one producer is scored is all the proof needs of the three.

`OneProducer`: six layers, each proved with the help of those before it.
`HashTypes` has the tables in ascending order of size and at most one thread in
the resize, which is why nobody waits for one that nobody does. `HashProbing`: a key is in a table
once, probing comes to every entry (`Reached`), and what a thread has seen of the
slots and tables it went through is still so. `HashCounts`: the count of
producers is the number of threads that have, or are about to have, a key.
`HashRoom` is why probing ends. For every n of at least three quarters of a table's
size less one, the threads that are in it, may insert into it, or still wait
with a count of at most n are no more than n, so a slot is free. It takes n as a
variable because the test of a thread uses the count it got, and the threads
behind it have got others. `HashOwns` gives a producer one owner, and `HashList`
says that nothing points to a producer on the way to the list: its `next` can be
written again after a failed exchange and the list loses nothing. What is on the list
is stated with closed sets, and the doubling of the size, a recursive function,
is reasoned about by the least counterexample (`Smallest`).

`KeepsBlocks`: `PoolInv` says of each block that it is in one of six places, each
with the word it must have there: `Untouched`; `InHands` of a thread; `BeingLinked`
by one, with the flag set and no reference to it; `BeingCounted`, between one's
write of 1 and its swing of the head, or just off the list; `Listed`; and
`LeftBehind`, flagged, for whoever drops the last reference. A step takes at most one
block from one place to another and leaves the rest alone (`SameBlock`). The list is
a function from positions to blocks (`Chain`), so that `OnList`, which follows the
pointers as often as there are blocks, is its range; that is where the pigeonhole
comes in again. ABA is excluded by `Pointing`: the next pointer a thread has
read is the node's as long as the thread refers to it, since only a node
without references is linked. That no word overflows into its flag needs `Should` above
the number of threads plus one, as `PoolAssumption` has it. The theorem discharges what
`ImplicitProducer` assumes of `Requisition`: a block comes from the pool to one
producer at a time.

### MpiExchange

All messages carry one tag and no kind, and a node that has buffered its messages
goes on, into the next phase or call. So the invariant speaks of all messages of a
pair of nodes, over all calls, as one stream. `SentBy` says how many of them
a sender has sent by where it is, `GotBy` how many a receiver has received by where
it is; both are `Base`, what earlier calls took, plus what this one has. `WireIs`
says that the wire from n to m holds just the messages from one number to the
other, and that the part and the data of each are what `Index` and the call make
them (`Carried`). `IndexTells`: a number in the stream belongs to one call, phase
and place only. Hence the message a receiver finds is the one it expects
(`Matched`), although sender and receiver may be calls apart.

What a node works on is `HeldIs`: after the exchange with the nodes in `Heard` it
covers the keys it keeps for itself with the contributions of these, each once, and
the other keys with its own, as it still has to give them away. `GatheredIs` says
the same of what rank 0 has received, `ResultsIs` of what the calls returned,
`InboxIs` of a transfer under way, `BarrierIs` that nobody is a barrier ahead. What
the operators make of maps is proved for any number of nodes: `FlattenSeq`, the
order of a `std::map`'s keys (`AscendingIs`), merging one after the other
(`MergeAllCarries`), and the tree of `LocalV` (`TreeAnswer`), where the result of
a pair is appended and paired again: as in `MapReduceV`, the maps nobody has read
yet have every node's contributions once. These operators are recursive functions,
so each fact is proved for the smallest number for which it fails (`Smallest`,
`Descent`), which then does not exist.

`NoCircle` holds also if MPI buffers nothing. `Rank` numbers the operations of a
call so that both nodes of a transfer have the same number for it (`RankShared`) and every
node's operations have growing numbers (`RankGrows`). Take the nodes in the earliest
call and of them one whose operation has the smallest rank. If it waits for a node,
that one is not beyond the operation they share, else the message would be on the
wire or taken (`SenderWaits`, `ReceiverWaits`, from the streams), nor before it, as it
would have a smaller rank or an earlier call. So it is at it, and one of the two goes on.

### Quicksort

`SortInv` says that the pending ranges lie in the array in ascending order and behind
the one that is partitioned (`Ranges`), that any two elements are in order or in
one range not yet done (`Covered`), and what the scans have passed (`Scanning`).
The scans test no bounds: `Scanning` names for each the element that stops it,
which is the pivot in the first round and the element last swapped afterwards, and
says that the first upward scan stops before the last element, without which the
upper half might be the whole range and the recursion endless.

### Bitmap

Each of the four pairs of a decomposer and a reducer has partial results of its own
form (`Shapes`), and `Value` reads a count from each. `HistogramInv` says that for
every index the counts of the partial results (`Total`) and the bytes that the
pieces still to be decomposed cover (`Left`) make up the bytes of the bitmap, or of
all files accepted. The turns of a decomposer's loop correspond one to one to
the bytes of a slice of whole pixels (`HitsAre`), and slices that end at pixel
boundaries cover each byte once (`SlicesCover`), so a decomposition moves a number from
`Left` to `Total` (`PieceCounts`). A reduction takes two results away and appends
their sum, for each pair of types (`ReductionAdds`, `TotalReduced`); the sum of a
sequence is a recursive function, and that it may be taken in any order is `SumWithout`.
That two reducible results have the same keys follows from `Shapes`. `AcceptableIs`
is that both readers of files test the same.

### ExtrapWriter

`WriterInv` says which regions, thread counts and sizes the nested maps have: those
that were measured since the last `clear`, with all their timings in the order of
the calls, and that the two sets of sizes are those of the calls. `Ascending` is the
order of a `std::map`. The lines of a region are then those of its sizes in their
order (`Lined`), which are those of the file if every size was measured.

### NestedPools

`NestedInv` is `IInv` of `NestedPools` for the program of the behaviour. `OnePlace`
says that there is a function that tells where each job is: still new, in the outer
queue, with an outer thread, in a copy's queue, with a copy's thread, or done; and
with which thread and in which copy. Values that are in two places of a queue, or in
two queues, would need two values of it. Each action changes it for one job
(`NestedSubmit` to `NestedExecute`). `Robin` adds that the copies of different jobs
differ while the counter has not been round, for which it counts the jobs picked. `Chained`
says that among any jobs submitted there is one that waits for none of the others.

`NestedSafe` takes copies that wait for each other. If few jobs wait, the threads of
one of them would have to hold more different waiting jobs than there are. If the jobs
are spread, each copy has only the job it holds and an empty queue, so every
held job waits for a held job, against `Chained`. The chains may have any length and the
pools any threads; the assumption is that the counter's modulus, 2^64 in the code,
is greater than the number of copies (`NestedAssumption`).

### Only model-checked

- Liveness of every module: fairness and `ENABLED` are out of the prover's reach.
- What a RECURSIVE operator computes for every input: `Structure`, which follows
  the nesting of patterns. The prover cannot read it.
- `Lifetimes` and `Copies` of `Structure`, for the same reason.
- The demo of the run `nesting`: `MainReturns` and `ImplementsAll` are temporal.

## 5. What is not modelled

- Parts of the queue nothing here uses: bulk operations, consumer tokens, moving
  and swapping queues, the blocking queue, the C interface. Nor its memory orders
  (memory is sequentially consistent), nor indices that wrap at 2^64.
- Exceptions of algorithms: no algorithm of the repository throws on what the
  patterns give it.
- Two owners that call `Init` or `Dispose` of one pattern at once; nor, as the owner in
  `Structure` is sequential, a call of a MapReduce that still runs while its reducer
  goes down.
- Two calls of one MapReduce at once on a node of several: their messages share a
  tag and would mix. A program that initialises MPI by `MPI_Init` may not do it.
- Messages of 2^31 bytes or more, which `int` cannot count.
- A MapReduceV call with no inputs; `preAddKeys` of a key while another thread is in
  `add` on it: undefined behaviour, which no caller in the repository causes.
- Bitmaps whose size field and contents disagree, and slices that cut a pixel.
- `futurepacker`, which wraps and unwraps ready futures; `ThreadSafeMap`, which
  nothing uses; the two clocks; console output.

## 6. What is left

The modules of the plan are written, and the patterns, the two kinds of sub-queues, the
containers, the exchange between nodes, pools of pools and the algorithms are proved. What
could still be proved are the safety parts of the refinements of `Demo`; and
`Structure`, if nesting were followed without recursion.
