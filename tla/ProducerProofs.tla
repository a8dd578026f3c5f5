---------------------------- MODULE ProducerProofs ----------------------------
(***************************************************************************)
(* Theorems about the two kinds of producers of a queue, for any number of *)
(* consumers, any blocks and any size of them.                             *)
(*                                                                         *)
(* ImplicitProducer: the counters of optimistic dequeues agree, every      *)
(* consumer finds its element, no block is lost or has two owners, and the *)
(* sub-queue is the FIFO stream the patterns rely on.                      *)
(*                                                                         *)
(* ExplicitProducer, as the instance Explicit of MCProducers: every        *)
(* consumer finds its element in the ring, flags it once, the index has    *)
(* room for the ring, and the destructor destructs what is left.           *)
(***************************************************************************)
EXTENDS ProducerInvariants, SequenceTheorems, FiniteSetTheorems, WellFoundedInduction, TLAPS

-----------------------------------------------------------------------------
(* Numbers.                                                                *)

LEMMA Product == ASSUME NEW b \in Nat, NEW x \in Int, x >= 1 PROVE b * x >= b
  OBVIOUS

\* The quotient and the remainder of a division.
LEMMA DivMod ==
    ASSUME NEW b \in Nat \ {0}, NEW a \in Int
    PROVE  a % b \in 0 .. b - 1 /\ a \div b \in Int /\ a = (a \div b) * b + (a % b)
  OBVIOUS

\* There is only one of each.
LEMMA DivModUnique ==
    ASSUME NEW b \in Nat \ {0}, NEW q \in Int, NEW r \in 0 .. b - 1
    PROVE  (q * b + r) % b = r /\ (q * b + r) \div b = q
<1> DEFINE a == q * b + r
           d == a \div b
           m == a % b
<1>1. a \in Int /\ d \in Int /\ m \in 0 .. b - 1 /\ a = d * b + m
  BY DivMod
<1>2. d - q >= 1 => b * (d - q) >= b
  BY <1>1, Product
<1>3. q - d >= 1 => b * (q - d) >= b
  BY <1>1, Product
<1>4. d = q
  BY <1>1, <1>2, <1>3
<1> QED BY <1>1, <1>4

\* A remainder does not change by whole turns.
LEMMA ModShift ==
    ASSUME NEW b \in Nat \ {0}, NEW a \in Int, NEW m \in Int
    PROVE  (a + m * b) % b = a % b
<1> DEFINE q == (a \div b) + m
           r == a % b
<1>1. q \in Int /\ r \in 0 .. b - 1 /\ a + m * b = q * b + r
  BY DivMod
<1>2. (q * b + r) % b = r
  BY <1>1, DivModUnique
<1> QED BY <1>1, <1>2

\* It is the number itself, or one turn away.
LEMMA Wrap ==
    ASSUME NEW b \in Nat \ {0}, NEW r \in 0 .. b - 1
    PROVE  r % b = r /\ (r + b) % b = r /\ (r - b) % b = r
<1>1. ASSUME NEW m \in Int PROVE (r + m * b) % b = r % b
  <2>1. r \in Int
    OBVIOUS
  <2> QED BY <2>1, ModShift
<1>2. (r + 1 * b) % b = r % b
  BY <1>1
<1>3. -1 \in Int /\ (r + (-1) * b) % b = r % b
  BY <1>1
<1>4. (0 * b + r) % b = r
  BY DivModUnique
<1>5. r + 1 * b = r + b /\ r + (-1) * b = r - b /\ 0 * b + r = r
  OBVIOUS
<1> QED BY <1>2, <1>3, <1>4, <1>5

-----------------------------------------------------------------------------
(* Types.                                                                  *)

\* A place of an index holds an entry, whatever number it is reached by.
LEMMA EntryIn ==
    ASSUME Shape, NEW h \in 1 .. Len(headers), NEW pos \in Int
    PROVE  /\ Capacity(h) \in Nat \ {0, 1}
           /\ pos % Capacity(h) \in 0 .. Capacity(h) - 1
           /\ EntryAt(h, pos) \in 1 .. Len(entries)
<1>1. headers[h] \in [tail : Nat, index : Seq(Nat)]
  BY ElementOfSeq DEF Shape, IndexShape
<1>2. Capacity(h) \in Nat /\ Capacity(h) >= 2
  BY <1>1 DEF Shape, IndexShape, Capacity
<1>3. pos % Capacity(h) \in 0 .. Capacity(h) - 1
  <2> DEFINE n == Capacity(h)
  <2>1. n \in Nat \ {0}
    BY <1>2
  <2> HIDE DEF n
  <2>2. pos % n \in 0 .. n - 1
    BY <2>1, DivMod
  <2> QED BY <2>2 DEF n
<1>4. (pos % Capacity(h)) + 1 \in 1 .. Capacity(h)
  BY <1>2, <1>3
<1>5. \A p \in 1 .. Capacity(h) : headers[h].index[p] \in 1 .. Len(entries)
  BY DEF Shape, IndexShape
<1>6. EntryAt(h, pos) \in 1 .. Len(entries)
  BY <1>4, <1>5 DEF EntryAt
<1> QED BY <1>2, <1>3, <1>6

LEMMA EntryTyped ==
    ASSUME Shape, NEW e \in 1 .. Len(entries)
    PROVE  /\ entries[e] \in Entry
           /\ entries[e].key \in {INVALID_BLOCK_BASE} \union 0 .. MaxElements
           /\ entries[e].value \in Blocks \union {Null}
<1>1. entries \in Seq(Entry)
  BY DEF Shape, IndexShape
<1>2. entries[e] \in Entry
  BY <1>1, ElementOfSeq
<1> QED BY <1>2 DEF Entry

LEMMA HeaderTyped ==
    ASSUME Shape, NEW h \in 1 .. Len(headers)
    PROVE  headers[h] \in [tail : Nat, index : Seq(Nat)] /\ headers[h].tail \in Nat
<1>1. headers \in Seq([tail : Nat, index : Seq(Nat)])
  BY DEF Shape, IndexShape
<1>2. headers[h] \in [tail : Nat, index : Seq(Nat)]
  BY <1>1, ElementOfSeq
<1> QED BY <1>2

\* The last index, and its next and its last entry.
LEMMA LastHeader ==
    ASSUME Shape
    PROVE  /\ blockIndex \in 1 .. Len(headers) /\ blockIndex \in Nat
           /\ headers[blockIndex] \in [tail : Nat, index : Seq(Nat)]
           /\ headers[blockIndex].tail \in 0 .. Capacity(blockIndex) - 1
           /\ Capacity(blockIndex) \in Nat \ {0, 1}
           /\ NextEntry \in 1 .. Len(entries)
           /\ EntryAt(blockIndex, headers[blockIndex].tail) \in 1 .. Len(entries)
<1>1. blockIndex \in 1 .. Len(headers) /\ blockIndex \in Nat
  BY DEF Shape, IndexShape, blockIndex
<1>2. headers[blockIndex] \in [tail : Nat, index : Seq(Nat)]
  BY <1>1, ElementOfSeq DEF Shape, IndexShape
<1>3. headers[blockIndex].tail \in Nat /\ headers[blockIndex].tail < Capacity(blockIndex)
  BY <1>1, <1>2 DEF Shape, IndexShape
<1>4. headers[blockIndex].tail \in Int /\ headers[blockIndex].tail + 1 \in Int
  BY <1>3
<1>5. Capacity(blockIndex) \in Nat \ {0, 1} /\ headers[blockIndex].tail \in 0 .. Capacity(blockIndex) - 1
  <2>1. Capacity(blockIndex) \in Nat \ {0, 1}
    BY <1>1, <1>4, EntryIn
  <2> QED BY <1>3, <2>1
<1>6. NextEntry \in 1 .. Len(entries) /\ EntryAt(blockIndex, headers[blockIndex].tail) \in 1 .. Len(entries)
  <2>1. \A pos \in Int : EntryAt(blockIndex, pos) \in 1 .. Len(entries)
    BY <1>1, EntryIn
  <2> HIDE DEF EntryAt
  <2> QED BY <1>4, <2>1 DEF NextEntry
<1> QED BY <1>1, <1>2, <1>5, <1>6
-----------------------------------------------------------------------------
(* What the steps do to the index.                                         *)

\* Entry e becomes r, and no other changes.
EntrySet(e, r) ==
    /\ entries' \in Seq(Entry) /\ Len(entries') = Len(entries)
    /\ entries'[e] = r
    /\ \A f \in 1 .. Len(entries) : f # e => entries'[f] = entries[f]

\* The last index has its tail at t, and nothing else of any index changes.
TailSet(t) ==
    /\ headers' \in Seq([tail : Nat, index : Seq(Nat)]) /\ Len(headers') = Len(headers)
    /\ headers'[blockIndex].tail = t
    /\ \A h \in 1 .. Len(headers) :
        /\ headers'[h].index = headers[h].index
        /\ h # blockIndex => headers'[h].tail = headers[h].tail

LEMMA SeqOf ==
    ASSUME NEW V, NEW n \in Nat, NEW f \in [1 .. n -> V]
    PROVE  f \in Seq(V) /\ Len(f) = n
  OBVIOUS

LEMMA SetKey ==
    ASSUME Shape, NEW e \in 1 .. Len(entries), NEW k \in 0 .. MaxElements,
           entries' = [entries EXCEPT ![e].key = k]
    PROVE  EntrySet(e, [key |-> k, value |-> entries[e].value])
<1> DEFINE r == [key |-> k, value |-> entries[e].value]
<1>0. entries \in Seq(Entry)
  BY DEF Shape, IndexShape
<1>1. entries \in Seq(Entry) /\ entries[e] \in Entry
  BY <1>0, ElementOfSeq
<1>2. r \in Entry /\ [entries[e] EXCEPT !.key = k] = r
  BY <1>1 DEF Entry
<1>3. entries' = [entries EXCEPT ![e] = r]
  BY <1>2
<1> HIDE DEF r
<1>4. EntrySet(e, r)
  BY <1>1, <1>2, <1>3, ExceptSeq DEF EntrySet
<1> QED BY <1>4 DEF r

LEMMA SetValue ==
    ASSUME Shape, NEW e \in 1 .. Len(entries), NEW b \in Blocks \union {Null},
           entries' = [entries EXCEPT ![e].value = b]
    PROVE  EntrySet(e, [key |-> entries[e].key, value |-> b])
<1> DEFINE r == [key |-> entries[e].key, value |-> b]
<1>0. entries \in Seq(Entry)
  BY DEF Shape, IndexShape
<1>1. entries \in Seq(Entry) /\ entries[e] \in Entry
  BY <1>0, ElementOfSeq
<1>2. r \in Entry /\ [entries[e] EXCEPT !.value = b] = r
  BY <1>1 DEF Entry
<1>3. entries' = [entries EXCEPT ![e] = r]
  BY <1>2
<1> HIDE DEF r
<1>4. EntrySet(e, r)
  BY <1>1, <1>2, <1>3, ExceptSeq DEF EntrySet
<1> QED BY <1>4 DEF r

LEMMA SetTail ==
    ASSUME Shape, NEW t \in Nat, headers' = [headers EXCEPT ![blockIndex].tail = t]
    PROVE  TailSet(t)
<1> DEFINE Header == [tail : Nat, index : Seq(Nat)]
           r == [headers[blockIndex] EXCEPT !.tail = t]
<1>1. headers \in Seq(Header) /\ blockIndex \in 1 .. Len(headers) /\ headers[blockIndex] \in Header
  BY LastHeader DEF Shape, IndexShape
<1>2. r \in Header /\ r.tail = t /\ r.index = headers[blockIndex].index
  BY <1>1
<1>3. headers' = [headers EXCEPT ![blockIndex] = r]
  OBVIOUS
<1> HIDE DEF r, Header
<1>4. /\ headers' \in Seq(Header) /\ Len(headers') = Len(headers)
      /\ \A h \in 1 .. Len(headers) : headers'[h] = IF h = blockIndex THEN r ELSE headers[h]
  BY <1>1, <1>2, <1>3, ExceptSeq, SMTT(30)
<1> QED BY <1>1, <1>2, <1>4 DEF TailSet, Header

\* A new index: twice the entries, those of the old one first, the oldest
\* before all others.
Regrown ==
    LET cap == Capacity(blockIndex)
        tail == headers[blockIndex].tail
        next == headers'[blockIndex + 1]
    IN  /\ headers' \in Seq([tail : Nat, index : Seq(Nat)]) /\ Len(headers') = blockIndex + 1
        /\ \A h \in 1 .. Len(headers) : headers'[h] = headers[h]
        /\ next.tail = cap - 1 /\ Len(next.index) = cap + cap
        /\ \A p \in 1 .. cap : next.index[p] = EntryAt(blockIndex, tail + p)
        /\ \A p \in cap + 1 .. cap + cap : next.index[p] = Len(entries) + p - cap
        /\ entries' \in Seq(Entry) /\ Len(entries') = Len(entries) + cap
        /\ \A e \in 1 .. Len(entries) : entries'[e] = entries[e]
        /\ \A e \in Len(entries) + 1 .. Len(entries) + cap :
              entries'[e] = [key |-> INVALID_BLOCK_BASE, value |-> Null]

LEMMA NewIndex == ASSUME Shape, NewBlockIndex PROVE Regrown
<1> DEFINE cap == Capacity(blockIndex)
           tail == headers[blockIndex].tail
           a == [p \in 1 .. cap |-> EntryAt(blockIndex, tail + p)]
           b == NewEntries(Len(entries) + 1, cap)
           none == [key |-> INVALID_BLOCK_BASE, value |-> Null]
           d == [i \in 1 .. cap |-> none]
<1>1. /\ blockIndex \in 1 .. Len(headers) /\ blockIndex = Len(headers)
      /\ cap \in Nat /\ cap >= 2 /\ tail \in Nat
      /\ headers \in Seq([tail : Nat, index : Seq(Nat)])
      /\ entries \in Seq(Entry)
  BY LastHeader DEF Shape, IndexShape, blockIndex
<1>2. Len(entries) \in Nat
  BY <1>1, LenProperties
<1>3. a \in Seq(Nat) /\ Len(a) = cap /\ \A p \in 1 .. cap : a[p] = EntryAt(blockIndex, tail + p)
  <2>1. \A p \in 1 .. cap : EntryAt(blockIndex, tail + p) \in Nat
    <3> SUFFICES ASSUME NEW p \in 1 .. cap PROVE EntryAt(blockIndex, tail + p) \in Nat
      OBVIOUS
    <3>1. tail + p \in Int
      BY <1>1
    <3>2. EntryAt(blockIndex, tail + p) \in 1 .. Len(entries)
      BY <1>1, <3>1, EntryIn
    <3> QED BY <1>2, <3>2
  <2>2. a \in [1 .. cap -> Nat] /\ \A p \in 1 .. cap : a[p] = EntryAt(blockIndex, tail + p)
    BY <2>1
  <2> HIDE DEF a, cap
  <2>3. a \in Seq(Nat) /\ Len(a) = cap
    BY <1>1, <2>2, SeqOf
  <2> QED BY <2>2, <2>3
<1>4. b \in Seq(Nat) /\ Len(b) = cap /\ \A p \in 1 .. cap : b[p] = Len(entries) + p
  <2>1. b \in [1 .. cap -> Nat] /\ \A p \in 1 .. cap : b[p] = Len(entries) + p
    BY <1>1, <1>2 DEF NewEntries
  <2> HIDE DEF b, cap
  <2>2. b \in Seq(Nat) /\ Len(b) = cap
    BY <1>1, <2>1, SeqOf
  <2> QED BY <2>1, <2>2
<1>5. d \in Seq(Entry) /\ Len(d) = cap /\ \A p \in 1 .. cap : d[p] = none
  <2>1. none \in Entry
    BY DEF Entry
  <2>2. d \in [1 .. cap -> Entry] /\ \A p \in 1 .. cap : d[p] = none
    BY <2>1
  <2> HIDE DEF d, cap, none
  <2>3. d \in Seq(Entry) /\ Len(d) = cap
    BY <1>1, <2>2, SeqOf
  <2> QED BY <2>2, <2>3
<1>6. headers' = Append(headers, [tail |-> cap - 1, index |-> a \o b]) /\ entries' = entries \o d
  BY DEF NewBlockIndex, GrownHeader, EntryAt
<1> HIDE DEF a, b, d, cap, tail, none
<1>7. /\ a \o b \in Seq(Nat) /\ Len(a \o b) = cap + cap
      /\ \A p \in 1 .. cap + cap : (a \o b)[p] = IF p <= cap THEN a[p] ELSE b[p - cap]
  <2>1. a \in Seq(Nat) /\ b \in Seq(Nat) /\ Len(a) = cap /\ Len(b) = cap
    BY <1>3, <1>4
  <2>2. /\ a \o b \in Seq(Nat) /\ Len(a \o b) = Len(a) + Len(b)
        /\ \A p \in 1 .. Len(a) + Len(b) : (a \o b)[p] = IF p <= Len(a) THEN a[p] ELSE b[p - Len(a)]
    BY <2>1, ConcatProperties
  <2> QED BY <2>1, <2>2
<1>8. /\ entries' \in Seq(Entry) /\ Len(entries') = Len(entries) + cap
      /\ \A e \in 1 .. Len(entries) + cap :
            entries'[e] = IF e <= Len(entries) THEN entries[e] ELSE d[e - Len(entries)]
  BY <1>1, <1>5, <1>6, ConcatProperties
<1>10. \A e \in Len(entries) + 1 .. Len(entries) + cap : e - Len(entries) \in 1 .. cap
  BY <1>1, <1>2
<1> DEFINE r == [tail |-> cap - 1, index |-> a \o b]
<1>11. r \in [tail : Nat, index : Seq(Nat)] /\ r.tail = cap - 1 /\ r.index = a \o b
  BY <1>1, <1>7, SMTT(30)
<1>12. headers' = Append(headers, r)
  BY <1>6
<1> HIDE DEF r
<1>13. /\ headers' \in Seq([tail : Nat, index : Seq(Nat)]) /\ Len(headers') = blockIndex + 1
       /\ \A h \in 1 .. Len(headers) : headers'[h] = headers[h]
       /\ headers'[blockIndex + 1] = r
  BY <1>1, <1>11, <1>12
<1>14. /\ \A p \in 1 .. cap : (a \o b)[p] = EntryAt(blockIndex, tail + p)
       /\ \A p \in cap + 1 .. cap + cap : (a \o b)[p] = Len(entries) + p - cap
  <2>1. \A p \in 1 .. cap : (a \o b)[p] = a[p]
    BY <1>1, <1>7, SMTT(30)
  <2>2. ASSUME NEW p \in cap + 1 .. cap + cap PROVE (a \o b)[p] = Len(entries) + p - cap
    <3>1. (a \o b)[p] = b[p - cap] /\ p - cap \in 1 .. cap
      BY <1>1, <1>7, SMTT(30)
    <3>2. b[p - cap] = Len(entries) + (p - cap)
      BY <1>4, <3>1
    <3> QED BY <1>1, <1>2, <3>1, <3>2
  <2> QED BY <1>3, <2>1, <2>2
<1>15. /\ \A e \in 1 .. Len(entries) : entries'[e] = entries[e]
       /\ \A e \in Len(entries) + 1 .. Len(entries) + cap : entries'[e] = none
  BY <1>1, <1>2, <1>5, <1>8, <1>10
<1> QED BY <1>7, <1>8, <1>11, <1>13, <1>14, <1>15 DEF Regrown, cap, tail, none
-----------------------------------------------------------------------------
(* Every step keeps the types.                                             *)

\* Indices are added, and never lose or change a place.
IndexKept ==
    /\ Len(headers) <= Len(headers') /\ Len(entries) <= Len(entries')
    /\ \A h \in 1 .. Len(headers) : headers'[h].index = headers[h].index

LEMMA Lengths == ASSUME Shape PROVE Len(headers) \in Nat /\ Len(entries) \in Nat
<1>1. headers \in Seq([tail : Nat, index : Seq(Nat)]) /\ entries \in Seq(Entry)
  BY DEF Shape, IndexShape
<1> QED BY <1>1, LenProperties

LEMMA EntryKeeps ==
    ASSUME Shape, NEW e \in 1 .. Len(entries), NEW r, EntrySet(e, r), UNCHANGED headers
    PROVE  IndexShape' /\ IndexKept
  BY Lengths DEF EntrySet, Shape, IndexShape, IndexKept, Capacity

LEMMA TailKeeps ==
    ASSUME Shape, NEW t \in 0 .. Capacity(blockIndex) - 1, TailSet(t), UNCHANGED entries
    PROVE  IndexShape' /\ IndexKept
<1>1. IndexKept
  BY Lengths DEF TailSet, IndexKept
<1>2. headers' # <<>>
  <2>1. Len(headers') = blockIndex /\ blockIndex \in 1 .. Len(headers)
    BY LastHeader DEF TailSet, blockIndex
  <2> QED BY <2>1, LastHeader, EmptySeq
<1>3. headers' \in Seq([tail : Nat, index : Seq(Nat)]) /\ Len(headers') = Len(headers)
  BY DEF TailSet
<1>4. ASSUME NEW h \in 1 .. Len(headers)
      PROVE  /\ Len(headers'[h].index) >= 2 /\ headers'[h].tail < Len(headers'[h].index)
             /\ \A p \in 1 .. Len(headers'[h].index) : headers'[h].index[p] \in 1 .. Len(entries')
  <2>1. headers'[h].index = headers[h].index
    BY DEF TailSet
  <2>2. /\ Len(headers[h].index) >= 2 /\ headers[h].tail < Len(headers[h].index)
        /\ \A p \in 1 .. Len(headers[h].index) : headers[h].index[p] \in 1 .. Len(entries)
    BY DEF Shape, IndexShape, Capacity
  <2>3. CASE h = blockIndex
    <3>1. headers'[h].tail = t /\ t < Len(headers[h].index)
      BY LastHeader, <2>3 DEF TailSet, Capacity
    <3> QED BY <2>1, <2>2, <3>1
  <2>4. CASE h # blockIndex
    <3>1. headers'[h].tail = headers[h].tail
      BY <2>4 DEF TailSet
    <3> QED BY <2>1, <2>2, <3>1
  <2> QED BY <2>3, <2>4
<1>5. IndexShape'
  BY <1>2, <1>3, <1>4 DEF Shape, IndexShape, Capacity
<1> QED BY <1>1, <1>5

LEMMA GrownKeeps == ASSUME Shape, Regrown PROVE IndexShape' /\ IndexKept
<1> DEFINE cap == Capacity(blockIndex)
           next == headers'[blockIndex + 1]
<1>1. /\ headers' \in Seq([tail : Nat, index : Seq(Nat)]) /\ Len(headers') = blockIndex + 1
      /\ \A h \in 1 .. Len(headers) : headers'[h] = headers[h]
      /\ entries' \in Seq(Entry) /\ Len(entries') = Len(entries) + cap
  BY DEF Regrown
<1>2. cap \in Nat /\ cap >= 2 /\ blockIndex \in Nat /\ blockIndex = Len(headers)
  BY LastHeader DEF blockIndex
<1>3. Len(entries) \in Nat
  BY Lengths
<1>4. IndexKept
  BY <1>1, <1>2, <1>3, SMTT(30) DEF IndexKept
<1>5. ASSUME NEW h \in 1 .. Len(headers)
      PROVE  /\ Len(headers'[h].index) >= 2 /\ headers'[h].tail < Len(headers'[h].index)
             /\ \A p \in 1 .. Len(headers'[h].index) : headers'[h].index[p] \in 1 .. Len(entries')
  <2>1. headers'[h] = headers[h]
    BY <1>1
  <2>2. /\ Len(headers[h].index) >= 2 /\ headers[h].tail < Len(headers[h].index)
        /\ \A p \in 1 .. Len(headers[h].index) : headers[h].index[p] \in 1 .. Len(entries)
    BY DEF Shape, IndexShape, Capacity
  <2>3. \A n \in 1 .. Len(entries) : n \in 1 .. Len(entries')
    BY <1>1, <1>2, <1>3
  <2> QED BY <2>1, <2>2, <2>3
<1>6. /\ Len(next.index) >= 2 /\ next.tail < Len(next.index)
      /\ \A p \in 1 .. Len(next.index) : next.index[p] \in 1 .. Len(entries')
  <2>2. /\ next.tail = cap - 1 /\ Len(next.index) = cap + cap
        /\ \A p \in 1 .. cap : next.index[p] = EntryAt(blockIndex, headers[blockIndex].tail + p)
        /\ \A p \in cap + 1 .. cap + cap : next.index[p] = Len(entries) + p - cap
    BY DEF Regrown
  <2>3. \A p \in 1 .. cap : EntryAt(blockIndex, headers[blockIndex].tail + p) \in 1 .. Len(entries)
    <3> SUFFICES ASSUME NEW p \in 1 .. cap
                 PROVE  EntryAt(blockIndex, headers[blockIndex].tail + p) \in 1 .. Len(entries)
      OBVIOUS
    <3>1. blockIndex \in 1 .. Len(headers) /\ headers[blockIndex].tail + p \in Int
      BY LastHeader
    <3> QED BY <3>1, EntryIn
  <2>4. ASSUME NEW p \in 1 .. cap + cap PROVE next.index[p] \in 1 .. Len(entries')
    <3> HIDE DEF cap, next
    <3>1. CASE p <= cap
      <4>1. next.index[p] \in 1 .. Len(entries)
        BY <1>2, <2>2, <2>3, <3>1
      <4> QED BY <1>1, <1>2, <1>3, <4>1
    <3>2. CASE p > cap
      <4>1. next.index[p] = Len(entries) + p - cap
        BY <1>2, <2>2, <3>2
      <4> QED BY <1>1, <1>2, <1>3, <3>2, <4>1
    <3> QED BY <1>2, <3>1, <3>2
  <2> HIDE DEF cap, next
  <2> QED BY <1>2, <2>2, <2>4
<1>7. ASSUME NEW h \in 1 .. Len(headers')
      PROVE  /\ Len(headers'[h].index) >= 2 /\ headers'[h].tail < Len(headers'[h].index)
             /\ \A p \in 1 .. Len(headers'[h].index) : headers'[h].index[p] \in 1 .. Len(entries')
  <2>1. h \in 1 .. Len(headers) \/ h = blockIndex + 1
    BY <1>1, <1>2
  <2> QED BY <1>5, <1>6, <2>1
<1>8. headers' # <<>>
  BY <1>1, <1>2, EmptySeq
<1>9. IndexShape'
  BY <1>1, <1>7, <1>8 DEF IndexShape, Capacity
<1> QED BY <1>4, <1>9

\* The tail moves round the index.
LEMMA TailTurns ==
    ASSUME Shape
    PROVE  LET tail == headers[blockIndex].tail
               cap == Capacity(blockIndex)
           IN  /\ (tail + 1) % cap \in 0 .. cap - 1 /\ (tail + 1) % cap \in Nat
               /\ (tail - 1) % cap \in 0 .. cap - 1 /\ (tail - 1) % cap \in Nat
<1> DEFINE tail == headers[blockIndex].tail
           cap == Capacity(blockIndex)
<1>1. tail + 1 \in Int /\ tail - 1 \in Int /\ cap \in Nat \ {0}
  BY LastHeader
<1> HIDE DEF tail, cap
<1>2. \A pos \in Int : pos % cap \in 0 .. cap - 1 /\ pos % cap \in Nat
  BY <1>1, DivMod
<1>3. /\ (tail + 1) % cap \in 0 .. cap - 1 /\ (tail + 1) % cap \in Nat
      /\ (tail - 1) % cap \in 0 .. cap - 1 /\ (tail - 1) % cap \in Nat
  BY <1>1, <1>2
<1> QED BY <1>3 DEF tail, cap

\* What each step that changes the index makes of it.
LEMMA IndexSteps ==
    ASSUME Shape
    PROVE  /\ InsertKey => EntrySet(NextEntry, [key |-> tailIndex, value |-> entries[NextEntry].value])
           /\ StoreTail => TailSet((headers[blockIndex].tail + 1) % Capacity(blockIndex))
           /\ NoBlock => TailSet((headers[blockIndex].tail - 1) % Capacity(blockIndex))
           /\ ClearEntry => EntrySet(NextEntry, [key |-> entries[NextEntry].key, value |-> Null])
           /\ StoreBlock => LET e == EntryAt(blockIndex, headers[blockIndex].tail)
                            IN  EntrySet(e, [key |-> entries[e].key, value |-> newBlock])
           /\ NewBlockIndex => Regrown
           /\ \A c \in Consumers : Unlink(c) /\ local[c].entry \in 1 .. Len(entries) =>
                EntrySet(local[c].entry, [key |-> entries[local[c].entry].key, value |-> Null])
<1>1. tailIndex \in 0 .. MaxElements /\ newBlock \in Blocks \union {Null}
  BY DEF Shape, ControlShape, MemoryShape
<1>2. headers[blockIndex].tail \in 0 .. Capacity(blockIndex) - 1 /\ Capacity(blockIndex) \in Nat \ {0, 1}
      /\ blockIndex \in 1 .. Len(headers)
      /\ NextEntry \in 1 .. Len(entries) /\ EntryAt(blockIndex, headers[blockIndex].tail) \in 1 .. Len(entries)
  BY LastHeader
<1>3. /\ (headers[blockIndex].tail + 1) % Capacity(blockIndex) \in Nat
      /\ (headers[blockIndex].tail - 1) % Capacity(blockIndex) \in Nat
  BY TailTurns
<1>4. InsertKey => EntrySet(NextEntry, [key |-> tailIndex, value |-> entries[NextEntry].value])
  BY <1>1, <1>2, SetKey DEF InsertKey
<1>5. StoreTail => TailSet((headers[blockIndex].tail + 1) % Capacity(blockIndex))
  <2> SUFFICES ASSUME StoreTail PROVE TailSet((headers[blockIndex].tail + 1) % Capacity(blockIndex))
    OBVIOUS
  <2>1. headers' = [headers EXCEPT ![blockIndex].tail = (headers[blockIndex].tail + 1) % Capacity(blockIndex)]
    BY DEF StoreTail
  <2> QED BY <1>3, <2>1, SetTail
<1>6. NoBlock => TailSet((headers[blockIndex].tail - 1) % Capacity(blockIndex))
  <2> SUFFICES ASSUME NoBlock PROVE TailSet((headers[blockIndex].tail - 1) % Capacity(blockIndex))
    OBVIOUS
  <2>1. headers' = [headers EXCEPT ![blockIndex].tail = (headers[blockIndex].tail - 1) % Capacity(blockIndex)]
    BY DEF NoBlock
  <2> QED BY <1>3, <2>1, SetTail
<1>7. ClearEntry => EntrySet(NextEntry, [key |-> entries[NextEntry].key, value |-> Null])
  BY <1>2, SetValue DEF ClearEntry
<1>8. StoreBlock => LET e == EntryAt(blockIndex, headers[blockIndex].tail)
                    IN  EntrySet(e, [key |-> entries[e].key, value |-> newBlock])
  BY <1>1, <1>2, SetValue DEF StoreBlock
<1>9. \A c \in Consumers : Unlink(c) /\ local[c].entry \in 1 .. Len(entries) =>
         EntrySet(local[c].entry, [key |-> entries[local[c].entry].key, value |-> Null])
  BY SetValue DEF Unlink
<1> QED BY <1>4, <1>5, <1>6, <1>7, <1>8, <1>9, NewIndex

\* The steps of the consumers that leave the index alone.
Reads(c) ==
    \/ LoadOvercommit(c) \/ Filter(c) \/ Count(c) \/ Recheck(c) \/ Overcommit(c) \/ Claim(c)
    \/ LoadHeader(c) \/ LoadTail(c) \/ FindEntry(c) \/ Move(c) \/ SetEmpty(c) \/ ReturnBlock(c)

\* The steps of the producer that leave it alone.
Builds ==
    \/ Enqueue \/ NoBlockIndex \/ (\E b \in Blocks \ inUse : Requisition(b)) \/ Construct \/ Publish
    \/ Destroy \/ DestroyNext \/ DestroyEnd

LEMMA IndexFrame == (\E c \in Consumers : Reads(c)) \/ Builds => UNCHANGED index
  BY DEF Reads, Builds, LoadOvercommit, Filter, Count, Recheck, Overcommit, Claim, LoadHeader, LoadTail,
         FindEntry, Move, SetEmpty, ReturnBlock, Enqueue, NoBlockIndex, Requisition, Construct, Publish,
         Destroy, DestroyNext, DestroyEnd

LEMMA IndexShapeStep == Types /\ [Next]_vars => IndexShape' /\ IndexKept
<1> SUFFICES ASSUME Types, [Next]_vars PROVE IndexShape' /\ IndexKept
  OBVIOUS
<1>1. Shape
  BY DEF Types
<1>2. headers[blockIndex].tail \in 0 .. Capacity(blockIndex) - 1 /\ Capacity(blockIndex) \in Nat \ {0, 1}
      /\ blockIndex \in 1 .. Len(headers)
      /\ NextEntry \in 1 .. Len(entries) /\ EntryAt(blockIndex, headers[blockIndex].tail) \in 1 .. Len(entries)
  BY <1>1, LastHeader
<1>3. /\ (headers[blockIndex].tail + 1) % Capacity(blockIndex) \in 0 .. Capacity(blockIndex) - 1
      /\ (headers[blockIndex].tail - 1) % Capacity(blockIndex) \in 0 .. Capacity(blockIndex) - 1
  BY <1>1, TailTurns
<1>4. CASE UNCHANGED index
  BY <1>1, <1>4, Lengths DEF index, Shape, IndexShape, IndexKept, Capacity
<1>5. CASE InsertKey
  <2>1. UNCHANGED headers
    BY <1>5 DEF InsertKey
  <2> QED BY <1>1, <1>2, <1>5, <2>1, IndexSteps, EntryKeeps
<1>6. CASE StoreTail
  <2>1. UNCHANGED entries
    BY <1>6 DEF StoreTail
  <2> QED BY <1>1, <1>3, <1>6, <2>1, IndexSteps, TailKeeps
<1>7. CASE NoBlock
  <2>1. UNCHANGED entries
    BY <1>7 DEF NoBlock
  <2> QED BY <1>1, <1>3, <1>7, <2>1, IndexSteps, TailKeeps
<1>8. CASE ClearEntry
  <2>1. UNCHANGED headers
    BY <1>8 DEF ClearEntry
  <2> QED BY <1>1, <1>2, <1>8, <2>1, IndexSteps, EntryKeeps
<1>9. CASE StoreBlock
  <2>1. UNCHANGED headers
    BY <1>9 DEF StoreBlock
  <2> QED BY <1>1, <1>2, <1>9, <2>1, IndexSteps, EntryKeeps
<1>10. CASE NewBlockIndex
  BY <1>1, <1>10, IndexSteps, GrownKeeps
<1>11. ASSUME NEW c \in Consumers, Unlink(c) PROVE IndexShape' /\ IndexKept
  <2>1. UNCHANGED headers /\ local[c].entry \in 1 .. Len(entries)
    BY <1>11 DEF Unlink, Types, Positions
  <2> QED BY <1>1, <1>11, <2>1, IndexSteps, EntryKeeps
<1>12. CASE UNCHANGED vars
  BY <1>4, <1>12 DEF vars
<1> QED
  BY <1>4, <1>5, <1>6, <1>7, <1>8, <1>9, <1>10, <1>11, <1>12, IndexFrame
     DEF Next, Produce, Consume, Terminated, Reads, Builds

\* Emptying a cell leaves the cells of the type they are of.
LEMMA CellEmptied ==
    ASSUME NEW f \in [Blocks -> [0 .. BLOCK_SIZE - 1 -> 0 .. MaxElements \union {Null}]], NEW b, NEW x
    PROVE  [f EXCEPT ![b][x] = Null] \in [Blocks -> [0 .. BLOCK_SIZE - 1 -> 0 .. MaxElements \union {Null}]]
<1>1. ASSUME NEW d \in Blocks
      PROVE  [f EXCEPT ![b][x] = Null][d] \in [0 .. BLOCK_SIZE - 1 -> 0 .. MaxElements \union {Null}]
  <2>1. CASE d = b
    <3>1. [f EXCEPT ![b][x] = Null][d] = [f[d] EXCEPT ![x] = Null]
      BY <2>1
    <3> QED BY <3>1
  <2>2. CASE d # b
    BY <2>2
  <2> QED BY <2>1, <2>2
<1> QED BY <1>1

\* What FindEntry and DestroyNext compute from a key is a number.
LEMMA OffsetIn ==
    ASSUME NEW i \in Nat, NEW k \in {INVALID_BLOCK_BASE} \union 0 .. MaxElements
    PROVE  Base(i) \in Int /\ (Base(i) - k) \div BLOCK_SIZE \in Int
<1>1. Base(i) \in Int /\ k \in Int
  BY ProducerAssumption, DivMod DEF Base, INVALID_BLOCK_BASE
<1> HIDE DEF Base
<1> QED BY <1>1, ProducerAssumption, DivMod

LEMMA MemoryShapeStep == Types /\ [Next]_vars => MemoryShape'
<1> SUFFICES ASSUME Types, [Next]_vars PROVE MemoryShape'
  OBVIOUS
<1> USE DEF Types, Shape, MemoryShape, memory, producer
<1>1. CASE UNCHANGED <<memory, producer>>
  BY <1>1
<1>2. ASSUME NEW b \in Blocks \ inUse, Requisition(b) PROVE MemoryShape'
  BY <1>2 DEF Requisition
<1>3. CASE StoreBlock
  BY <1>3 DEF StoreBlock
<1>4. CASE Construct
  BY <1>4, DivMod DEF Construct, ControlShape
<1>5. ASSUME NEW c \in Consumers, Move(c) PROVE MemoryShape'
  BY <1>5, CellEmptied DEF Move
<1>6. ASSUME NEW c \in Consumers, SetEmpty(c) PROVE MemoryShape'
  <2>1. /\ elementsCompletelyDequeued' = [elementsCompletelyDequeued EXCEPT ![BlockOf(c)] = @ + 1]
        /\ UNCHANGED <<cells, tailBlock, inUse, producer>>
    BY <1>6 DEF SetEmpty
  <2> DEFINE b == BlockOf(c)
  <2> HIDE DEF b
  <2>2. elementsCompletelyDequeued' \in [Blocks -> Nat]
    <3>1. elementsCompletelyDequeued' = [elementsCompletelyDequeued EXCEPT ![b] = elementsCompletelyDequeued[b] + 1]
      BY <2>1 DEF b
    <3>2. \A d \in Blocks : elementsCompletelyDequeued'[d] \in Nat
      BY <3>1
    <3> QED BY <3>1, <3>2
  <2> QED BY <2>1, <2>2
<1>7. ASSUME NEW c \in Consumers, ReturnBlock(c) PROVE MemoryShape'
  BY <1>7 DEF ReturnBlock
<1>8. CASE Destroy
  BY <1>8 DEF Destroy, ControlShape
<1>9. CASE DestroyNext
  <2> DEFINE i == dtor.index
             last == headers[blockIndex].tail
             offset == (Base(i) - entries[EntryAt(blockIndex, last)].key) \div BLOCK_SIZE
             enters == i % BLOCK_SIZE = 0 \/ dtor.block = Null
             block == IF enters THEN entries[EntryAt(blockIndex, last + offset)].value ELSE dtor.block
  <2>1. /\ i \in Nat /\ last \in Nat /\ blockIndex \in 1 .. Len(headers)
        /\ EntryAt(blockIndex, last) \in 1 .. Len(entries)
        /\ entries \in Seq(Entry)
    BY LastHeader DEF IndexShape
  <2>2. entries[EntryAt(blockIndex, last)] \in Entry
    BY <2>1, ElementOfSeq
  <2>3. offset \in Int
    <3> DEFINE k == entries[EntryAt(blockIndex, last)].key
    <3>1. k \in {INVALID_BLOCK_BASE} \union 0 .. MaxElements
      BY <2>2 DEF Entry
    <3> HIDE DEF i, k
    <3>2. (Base(i) - k) \div BLOCK_SIZE \in Int
      BY <2>1, <3>1, OffsetIn
    <3> QED BY <3>2 DEF k
  <2>4. last + offset \in Int
    BY <2>1, <2>3
  <2>5. EntryAt(blockIndex, last + offset) \in 1 .. Len(entries)
    BY <2>1, <2>4, EntryIn
  <2>6. entries[EntryAt(blockIndex, last + offset)] \in Entry
    BY <2>1, <2>5, ElementOfSeq
  <2>7. block \in Blocks \union {Null}
    BY <2>6 DEF Entry
  <2>8. /\ cells' = [cells EXCEPT ![block][i % BLOCK_SIZE] = Null]
        /\ dtor' = [index |-> i + 1, block |-> block]
        /\ inUse' \subseteq inUse
        /\ UNCHANGED <<elementsCompletelyDequeued, tailBlock, newBlock>>
    BY <1>9 DEF DestroyNext
  <2> HIDE DEF i, block
  <2>9. cells' \in [Blocks -> [0 .. BLOCK_SIZE - 1 -> 0 .. MaxElements \union {Null}]]
    BY <2>8, CellEmptied
  <2> QED BY <2>1, <2>7, <2>8, <2>9
<1>10. CASE DestroyEnd
  BY <1>10 DEF DestroyEnd
<1>11. CASE Enqueue \/ InsertKey \/ NewBlockIndex \/ NoBlockIndex \/ StoreTail \/ NoBlock \/ ClearEntry \/ Publish
  BY <1>1, <1>11 DEF Enqueue, InsertKey, NewBlockIndex, NoBlockIndex, StoreTail, NoBlock, ClearEntry, Publish
<1>12. ASSUME NEW c \in Consumers,
              \/ LoadOvercommit(c) \/ Filter(c) \/ Count(c) \/ Recheck(c) \/ Overcommit(c) \/ Claim(c)
              \/ LoadHeader(c) \/ LoadTail(c) \/ FindEntry(c) \/ Unlink(c)
       PROVE  MemoryShape'
  BY <1>1, <1>12 DEF LoadOvercommit, Filter, Count, Recheck, Overcommit, Claim, LoadHeader, LoadTail,
                     FindEntry, Unlink
<1>13. CASE UNCHANGED vars
  BY <1>1, <1>13 DEF vars
<1> QED
  BY <1>2, <1>3, <1>4, <1>5, <1>6, <1>7, <1>8, <1>9, <1>10, <1>11, <1>12, <1>13
     DEF Next, Produce, Consume, Terminated

\* What FindEntry finds is an entry.
LEMMA FindsIn ==
    ASSUME Types, NEW c \in Consumers, FindEntry(c)
    PROVE  \E e \in 1 .. Len(entries) :
              e \in Nat /\ local' = [local EXCEPT ![c] = [local[c] EXCEPT !.entry = e]]
<1> DEFINE l == local[c]
           k == entries[EntryAt(l.header, l.tail)].key
           offset == (Base(l.index) - k) \div BLOCK_SIZE
           e == EntryAt(l.header, l.tail + offset)
<1>0. Shape
  BY DEF Types
<1>1. l.header \in 1 .. Len(headers) /\ l.tail \in Int /\ l.index \in Nat
  BY <1>0 DEF FindEntry, Types, Positions, Shape, ControlShape
<1>2. EntryAt(l.header, l.tail) \in 1 .. Len(entries)
  BY <1>0, <1>1, EntryIn
<1>3. k \in {INVALID_BLOCK_BASE} \union 0 .. MaxElements
  BY <1>0, <1>2, EntryTyped
<1>4. offset \in Int
  <2> HIDE DEF l, k
  <2> QED BY <1>1, <1>3, OffsetIn
<1>5. e \in 1 .. Len(entries)
  <2>1. l.tail + offset \in Int
    BY <1>1, <1>4
  <2> HIDE DEF l, offset
  <2> QED BY <1>0, <1>1, <2>1, EntryIn
<1>6. local' = [local EXCEPT ![c] = [l EXCEPT !.entry = e]]
  BY DEF FindEntry, Set
<1> HIDE DEF e
<1>7. e \in Nat
  BY <1>0, <1>5, Lengths
<1> QED BY <1>5, <1>6, <1>7

LEMMA ControlShapeStep == Types /\ [Next]_vars => ControlShape'
<1> SUFFICES ASSUME Types, [Next]_vars PROVE ControlShape'
  OBVIOUS
<1>0. Shape
  BY DEF Types
<1> USE DEF Shape, ControlShape, Goto, Set, Return, Fresh, counts, consumers, producer
<1>1. CASE Enqueue \/ InsertKey \/ NewBlockIndex \/ NoBlockIndex \/ StoreTail \/ NoBlock \/ ClearEntry
  BY <1>0, <1>1 DEF Enqueue, InsertKey, NewBlockIndex, NoBlockIndex, StoreTail, NoBlock, ClearEntry
<1>2. CASE (\E b \in Blocks \ inUse : Requisition(b)) \/ StoreBlock \/ Construct \/ Destroy \/ DestroyNext \/ DestroyEnd
  BY <1>0, <1>2 DEF Requisition, StoreBlock, Construct, Destroy, DestroyNext, DestroyEnd
<1>3. CASE Publish
  <2>1. tailIndex < MaxElements /\ tailIndex \in 0 .. MaxElements /\ MaxElements \in Nat
    BY <1>0, <1>3, ProducerAssumption DEF Publish, Types, Positions
  <2>2. tailIndex + 1 \in 0 .. MaxElements
    BY <2>1
  <2> QED BY <1>0, <1>3, <2>2 DEF Publish
<1>4. ASSUME NEW c \in Consumers, LoadOvercommit(c) PROVE ControlShape'
  BY <1>0, <1>4 DEF LoadOvercommit
<1>5. ASSUME NEW c \in Consumers, Filter(c) PROVE ControlShape'
  BY <1>0, <1>5 DEF Filter
<1>6. ASSUME NEW c \in Consumers, Count(c) PROVE ControlShape'
  BY <1>0, <1>6 DEF Count
<1>7. ASSUME NEW c \in Consumers, Recheck(c) PROVE ControlShape'
  BY <1>0, <1>7 DEF Recheck
<1>8. ASSUME NEW c \in Consumers, Overcommit(c) PROVE ControlShape'
  BY <1>0, <1>8 DEF Overcommit
<1>9. ASSUME NEW c \in Consumers, Claim(c) PROVE ControlShape'
  BY <1>0, <1>9 DEF Claim
<1>10. ASSUME NEW c \in Consumers, LoadHeader(c) PROVE ControlShape'
  <2>1. PICK h \in Nat : h = blockIndex
    BY <1>0, LastHeader
  <2>2. UNCHANGED <<counts, ppc>>
    BY <1>10 DEF LoadHeader
  <2>3. local' = [local EXCEPT ![c] = [local[c] EXCEPT !.header = h]] /\ pc' = [pc EXCEPT ![c] = "tail"]
    BY <1>10, <2>1 DEF LoadHeader
  <2> QED BY <1>0, <2>2, <2>3
<1>11. ASSUME NEW c \in Consumers, LoadTail(c) PROVE ControlShape'
  <2>1. local[c].header \in 1 .. Len(headers)
    BY <1>11 DEF LoadTail, Types, Positions
  <2>2. headers[local[c].header].tail \in Nat
    BY <1>0, <2>1, HeaderTyped
  <2> QED BY <1>0, <1>11, <2>2 DEF LoadTail
<1>12. ASSUME NEW c \in Consumers, FindEntry(c) PROVE ControlShape'
  <2>1. PICK e \in Nat : local' = [local EXCEPT ![c] = [local[c] EXCEPT !.entry = e]]
    BY <1>12, FindsIn
  <2> QED BY <1>0, <1>12, <2>1 DEF FindEntry
<1>13. ASSUME NEW c \in Consumers, Move(c) \/ SetEmpty(c) \/ ReturnBlock(c) PROVE ControlShape'
  BY <1>0, <1>13 DEF Move, SetEmpty, ReturnBlock
<1>14. ASSUME NEW c \in Consumers, Unlink(c) PROVE ControlShape'
  <2>1. local[c].entry \in 1 .. Len(entries)
    BY <1>14 DEF Unlink, Types, Positions
  <2>2. BlockOf(c) \in Blocks \union {Null}
    BY <1>0, <2>1, EntryTyped DEF BlockOf
  <2> QED BY <1>0, <1>14, <2>2 DEF Unlink
<1>15. CASE UNCHANGED vars
  BY <1>0, <1>15 DEF vars
<1> QED
  BY <1>1, <1>2, <1>3, <1>4, <1>5, <1>6, <1>7, <1>8, <1>9, <1>10, <1>11, <1>12, <1>13, <1>14, <1>15
     DEF Next, Produce, Consume, Terminated

\* What a consumer knows, of what it has loaded.
Knows(c) ==
    /\ pc[c] \in {"tail", "entry"} => local[c].header \in 1 .. Len(headers)
    /\ pc[c] = "entry" => local[c].tail < Capacity(local[c].header)
    /\ pc[c] \in {"move", "empty", "unlink"} => local[c].entry \in 1 .. Len(entries)

\* It goes on knowing it while the index grows.
LEMMA KnowsOn ==
    ASSUME Types, IndexKept, IndexShape', NEW c \in Consumers, pc'[c] = pc[c], local'[c] = local[c]
    PROVE  Knows(c)'
<1>1. Knows(c)
  BY DEF Types, Positions, Knows
<1>2. Len(headers) \in Nat /\ Len(entries) \in Nat
  BY Lengths DEF Types
<1>3. /\ headers' \in Seq([tail : Nat, index : Seq(Nat)]) /\ entries' \in Seq(Entry)
      /\ Len(headers') \in Nat /\ Len(entries') \in Nat
  BY LenProperties DEF IndexShape
<1>4. /\ Len(headers) <= Len(headers') /\ Len(entries) <= Len(entries')
      /\ \A h \in 1 .. Len(headers) : headers'[h].index = headers[h].index
  BY DEF IndexKept
<1> QED BY <1>1, <1>2, <1>3, <1>4, SMTT(30) DEF Knows, Capacity

\* A step of another consumer does not matter to it either.
LEMMA OthersKnow ==
    ASSUME Types, [Next]_vars, NEW c \in Consumers, LoadOvercommit(c) \/ Consume(c),
           NEW d \in Consumers, d # c
    PROVE  Knows(d)'
<1>1. pc'[d] = pc[d] /\ local'[d] = local[d]
  BY DEF LoadOvercommit, Consume, Filter, Count, Recheck, Overcommit, Claim, LoadHeader, LoadTail, FindEntry,
         Move, SetEmpty, Unlink, ReturnBlock, Goto, Set, Return, Types, Shape, ControlShape
<1> QED BY <1>1, IndexShapeStep, KnowsOn

\* What the producer knows.
Producing ==
    /\ ppc \in {"insert", "tail", "requisition", "rewound", "value"} => tailIndex % BLOCK_SIZE = 0
    /\ ppc \notin {"idle", "destroy", "gone"} => tailIndex < MaxElements
    /\ newBlock = Null <=> ppc # "value"

Ending == ppc \in {"destroy", "gone"} => \A c \in Consumers : pc[c] = "idle"

LEMMA PositionsStep == Types /\ [Next]_vars => Positions'
<1> SUFFICES ASSUME Types, [Next]_vars PROVE Positions'
  OBVIOUS
<1>1. IndexShape' /\ IndexKept
  BY IndexShapeStep
<1>2. Shape /\ Producing /\ Ending /\ \A c \in Consumers : Knows(c)
  BY DEF Types, Positions, Producing, Ending, Knows
<1>3. Producing' /\ Ending' /\ (\A c \in Consumers : Knows(c)') => Positions'
  BY DEF Positions, Producing, Ending, Knows, Capacity
<1>4. ASSUME UNCHANGED consumers, Producing', Ending' PROVE Positions'
  <2>1. \A c \in Consumers : Knows(c)'
    BY <1>1, <1>4, KnowsOn DEF consumers
  <2> QED BY <1>3, <1>4, <2>1
<1>5. ASSUME NEW c \in Consumers, LoadOvercommit(c) \/ Consume(c), Knows(c)' PROVE Positions'
  <2>1. UNCHANGED <<tailIndex, ppc, newBlock>> /\ ppc \notin {"destroy", "gone"}
    <3>1. CASE LoadOvercommit(c)
      BY <3>1 DEF LoadOvercommit, counts, producer
    <3>2. CASE Consume(c)
      <4>1. pc[c] # "idle"
        BY <3>2 DEF Consume, Filter, Count, Recheck, Overcommit, Claim, LoadHeader, LoadTail,
                    FindEntry, Move, SetEmpty, Unlink, ReturnBlock
      <4>2. UNCHANGED <<tailIndex, producer>>
        BY <3>2 DEF Consume, Filter, Count, Recheck, Overcommit, Claim, LoadHeader, LoadTail,
                    FindEntry, Move, SetEmpty, Unlink, ReturnBlock, counts
      <4> QED BY <1>2, <4>1, <4>2 DEF Ending, producer
    <3> QED BY <1>5, <3>1, <3>2
  <2>2. Producing' /\ Ending'
    BY <1>2, <2>1 DEF Producing, Ending
  <2>3. \A d \in Consumers : Knows(d)'
    BY <1>5, OthersKnow
  <2> QED BY <1>3, <2>2, <2>3
<1>6. ASSUME NEW c \in Consumers,
             LoadOvercommit(c) \/ Filter(c) \/ Count(c) \/ Recheck(c) \/ Overcommit(c) \/ Claim(c)
      PROVE  Positions'
  <2>1. pc' \in [Consumers -> {"idle", "filter", "count", "recheck", "over", "claim", "header"}] \/
        pc'[c] \in {"idle", "filter", "count", "recheck", "over", "claim", "header"}
    BY <1>2, <1>6 DEF LoadOvercommit, Filter, Count, Recheck, Overcommit, Claim, Goto, Return, Shape, ControlShape
  <2>2. Knows(c)'
    BY <2>1 DEF Knows
  <2> QED BY <1>5, <1>6, <2>2 DEF Consume
<1>7. ASSUME NEW c \in Consumers, LoadHeader(c) PROVE Positions'
  <2>1. pc'[c] = "tail" /\ local'[c].header = blockIndex /\ UNCHANGED index
    BY <1>2, <1>7 DEF LoadHeader, Goto, Set, Shape, ControlShape
  <2>2. blockIndex \in 1 .. Len(headers)
    BY <1>2, LastHeader
  <2>3. Knows(c)'
    BY <2>1, <2>2 DEF Knows, index
  <2> QED BY <1>5, <1>7, <2>3 DEF Consume
<1>8. ASSUME NEW c \in Consumers, LoadTail(c) PROVE Positions'
  <2> DEFINE h == local[c].header
  <2>1. /\ pc'[c] = "entry" /\ UNCHANGED index
        /\ local'[c].header = h /\ local'[c].tail = headers[h].tail
    BY <1>2, <1>8 DEF LoadTail, Goto, Set, Shape, ControlShape
  <2>2. h \in 1 .. Len(headers)
    BY <1>2, <1>8 DEF LoadTail, Knows
  <2>3. headers[h].tail < Capacity(h)
    BY <1>2, <2>2 DEF Shape, IndexShape
  <2>4. Knows(c)'
    BY <2>1, <2>2, <2>3 DEF Knows, index, Capacity
  <2> QED BY <1>5, <1>8, <2>4 DEF Consume
<1>9. ASSUME NEW c \in Consumers, FindEntry(c) PROVE Positions'
  <2>1. PICK e \in 1 .. Len(entries) : local' = [local EXCEPT ![c] = [local[c] EXCEPT !.entry = e]]
    BY <1>9, FindsIn
  <2>2. pc'[c] = "move" /\ local'[c].entry = e /\ UNCHANGED index
    BY <1>2, <1>9, <2>1 DEF FindEntry, Goto, Shape, ControlShape
  <2>3. Knows(c)'
    BY <2>1, <2>2 DEF Knows, index
  <2> QED BY <1>5, <1>9, <2>3 DEF Consume
<1>10. ASSUME NEW c \in Consumers, Move(c) \/ SetEmpty(c) PROVE Positions'
  <2>1. /\ pc[c] \in {"move", "empty"} /\ pc'[c] \in {"empty", "unlink", "idle"} /\ UNCHANGED index
        /\ pc'[c] # "idle" => local'[c] = local[c]
    BY <1>2, <1>10 DEF Move, SetEmpty, Goto, Return, Shape, ControlShape
  <2>2. Knows(c)'
    BY <1>2, <2>1 DEF Knows, index
  <2> QED BY <1>5, <1>10, <2>2 DEF Consume
<1>11. ASSUME NEW c \in Consumers, Unlink(c) \/ ReturnBlock(c) PROVE Positions'
  <2>1. pc'[c] \in {"return", "idle"}
    BY <1>2, <1>11 DEF Unlink, ReturnBlock, Goto, Return, Shape, ControlShape
  <2>2. Knows(c)'
    BY <2>1 DEF Knows
  <2> QED BY <1>5, <1>11, <2>2 DEF Consume
<1>12. CASE Enqueue
  <2>1. Producing' /\ Ending' /\ UNCHANGED consumers
    BY <1>2, <1>12 DEF Enqueue, Producing, Ending, counts
  <2> QED BY <1>4, <2>1
<1>13. CASE InsertKey \/ NewBlockIndex \/ NoBlockIndex \/ StoreTail \/ NoBlock \/ ClearEntry
  <2>1. Producing' /\ Ending' /\ UNCHANGED consumers
    BY <1>2, <1>13 DEF InsertKey, NewBlockIndex, NoBlockIndex, StoreTail, NoBlock, ClearEntry,
                       Producing, Ending, counts, producer
  <2> QED BY <1>4, <2>1
<1>14. CASE (\E b \in Blocks \ inUse : Requisition(b)) \/ StoreBlock \/ Construct \/ Publish
  <2>1. Producing' /\ Ending' /\ UNCHANGED consumers
    BY <1>2, <1>14, ProducerAssumption DEF Requisition, StoreBlock, Construct, Publish,
                       Producing, Ending, counts
  <2> QED BY <1>4, <2>1
<1>15. CASE Destroy \/ DestroyNext \/ DestroyEnd
  <2>1. Producing' /\ Ending' /\ UNCHANGED consumers
    BY <1>2, <1>15 DEF Destroy, DestroyNext, DestroyEnd, Quiet, Producing, Ending, counts, consumers
  <2> QED BY <1>4, <2>1
<1>16. CASE UNCHANGED vars
  <2>1. Producing' /\ Ending' /\ UNCHANGED consumers
    BY <1>2, <1>16 DEF vars, counts, producer, consumers, Producing, Ending
  <2> QED BY <1>4, <2>1
<1> QED
  BY <1>6, <1>7, <1>8, <1>9, <1>10, <1>11, <1>12, <1>13, <1>14, <1>15, <1>16
     DEF Next, Produce, Consume, Terminated

LEMMA TypesStep == Types /\ [Next]_vars => Types'
  BY IndexShapeStep, MemoryShapeStep, ControlShapeStep, PositionsStep DEF Types, Shape

\* The first index, and its entries.
LEMMA InitIndex ==
    ASSUME Init
    PROVE  /\ IndexShape
           /\ Len(headers) = 1 /\ Len(headers[1].index) = IMPLICIT_INITIAL_INDEX_SIZE
           /\ headers[1].tail = IMPLICIT_INITIAL_INDEX_SIZE - 1
           /\ Len(entries) = IMPLICIT_INITIAL_INDEX_SIZE
           /\ \A p \in 1 .. IMPLICIT_INITIAL_INDEX_SIZE :
                headers[1].index[p] = p /\ entries[p] = [key |-> INVALID_BLOCK_BASE, value |-> Null]
<1> DEFINE length == IMPLICIT_INITIAL_INDEX_SIZE
           f == NewEntries(1, length)
           none == [key |-> INVALID_BLOCK_BASE, value |-> Null]
           r == [tail |-> length - 1, index |-> f]
<1>1. headers = <<r>> /\ entries = [e \in 1 .. length |-> none]
  BY DEF Init
<1>2. length \in Nat /\ length >= 2
  BY ProducerAssumption
<1>3. f \in Seq(Nat) /\ Len(f) = length /\ \A p \in 1 .. length : f[p] = p
  <2>1. f \in [1 .. length -> Nat] /\ \A p \in 1 .. length : f[p] = p
    BY <1>2 DEF NewEntries
  <2> HIDE DEF f
  <2> QED BY <1>2, <2>1, SeqOf
<1>4. entries \in Seq(Entry) /\ Len(entries) = length /\ \A p \in 1 .. length : entries[p] = none
  <2>1. none \in Entry
    BY DEF Entry
  <2>2. entries \in [1 .. length -> Entry] /\ \A p \in 1 .. length : entries[p] = none
    BY <1>1, <2>1
  <2> HIDE DEF none
  <2> QED BY <1>2, <2>2, SeqOf
<1>5. r \in [tail : Nat, index : Seq(Nat)] /\ r.tail = length - 1 /\ r.index = f
  BY <1>2, <1>3
<1> HIDE DEF r, f
<1>6. headers \in Seq([tail : Nat, index : Seq(Nat)]) /\ Len(headers) = 1 /\ headers[1] = r /\ headers # <<>>
  BY <1>1, <1>5
<1>7. \A h \in 1 .. Len(headers) : h = 1
  BY <1>6
<1>8. IndexShape
  BY <1>2, <1>3, <1>4, <1>5, <1>6, <1>7, SMTT(30) DEF IndexShape, Capacity
<1> QED BY <1>3, <1>4, <1>5, <1>6, <1>8

LEMMA TypesInit == Init => Types
<1> SUFFICES ASSUME Init PROVE Types
  OBVIOUS
<1>1. IndexShape
  BY InitIndex
<1>2. MemoryShape
  BY DEF Init, MemoryShape
<1>3. ControlShape
  BY ProducerAssumption DEF Init, ControlShape, Fresh
<1>4. Positions
  BY ProducerAssumption DEF Init, Positions
<1> QED BY <1>1, <1>2, <1>3, <1>4 DEF Types, Shape

-----------------------------------------------------------------------------
(* The order of the last index.                                            *)

\* A remainder may be taken before as well as after an addition.
LEMMA ModSum ==
    ASSUME NEW b \in Nat \ {0}, NEW a \in Int, NEW c \in Int
    PROVE  ((a % b) + c) % b = (a + c) % b
<1> DEFINE d == a \div b
           r == a % b
<1>1. d \in Int /\ r \in Int /\ a = d * b + r
  BY DivMod
<1> HIDE DEF d, r
<1>2. r + c \in Int
  BY <1>1
<1>3. ((r + c) + d * b) % b = (r + c) % b
  BY <1>1, <1>2, ModShift
<1>4. (r + c) + d * b = a + c
  BY <1>1
<1> QED BY <1>3, <1>4 DEF r

LEMMA BackIn ==
    ASSUME Shape
    PROVE  /\ Capacity(blockIndex) \in Nat /\ Capacity(blockIndex) >= 2 /\ LastTail \in Int
           /\ \A j \in Int : Back(j) \in 1 .. Len(entries) /\ Back(j + Capacity(blockIndex)) = Back(j)
           /\ Back(0) = NextEntry /\ Back(Capacity(blockIndex)) = NextEntry
           /\ Back(1) = EntryAt(blockIndex, headers[blockIndex].tail)
<1> DEFINE cap == Capacity(blockIndex)
<1>1. cap \in Nat \ {0, 1} /\ LastTail \in Int /\ blockIndex \in 1 .. Len(headers)
  BY LastHeader DEF LastTail
<1>2. ASSUME NEW j \in Int PROVE Back(j) \in 1 .. Len(entries)
  <2>1. LastTail + 1 - j \in Int
    BY <1>1
  <2>2. \A pos \in Int : EntryAt(blockIndex, pos) \in 1 .. Len(entries)
    BY <1>1, EntryIn
  <2> HIDE DEF EntryAt
  <2> QED BY <2>1, <2>2 DEF Back
<1>3. ASSUME NEW j \in Int PROVE Back(j + cap) = Back(j)
  <2> HIDE DEF cap
  <2>1. LastTail + 1 - j \in Int /\ -1 \in Int /\ cap \in Nat \ {0}
    BY <1>1
  <2>2. ((LastTail + 1 - j) + (-1) * cap) % cap = (LastTail + 1 - j) % cap
    BY <2>1, ModShift
  <2>3. LastTail + 1 - (j + cap) = (LastTail + 1 - j) + (-1) * cap
    BY <1>1
  <2>4. (LastTail + 1 - (j + cap)) % cap = (LastTail + 1 - j) % cap
    BY <2>2, <2>3
  <2> QED BY <2>4 DEF Back, EntryAt, cap
<1>4. Back(0) = NextEntry
  <2>1. LastTail + 1 - 0 = LastTail + 1
    BY <1>1
  <2> QED BY <2>1 DEF Back, NextEntry, LastTail
<1>5. Back(cap) = NextEntry
  <2>1. Back(0 + cap) = Back(0) /\ 0 + cap = cap
    BY <1>1, <1>3
  <2> QED BY <1>4, <2>1
<1>6. Back(1) = EntryAt(blockIndex, LastTail)
  <2>1. LastTail + 1 - 1 = LastTail
    BY <1>1
  <2>2. Back(1) = EntryAt(blockIndex, LastTail + 1 - 1)
    BY DEF Back
  <2> QED BY <2>1, <2>2
<1>7. Back(1) = EntryAt(blockIndex, headers[blockIndex].tail)
  BY <1>6 DEF LastTail
<1>8. cap \in Nat /\ cap >= 2 /\ LastTail \in Int
  BY <1>1
<1>9. \A j \in Int : Back(j) \in 1 .. Len(entries) /\ Back(j + cap) = Back(j)
  BY <1>2, <1>3
<1> QED BY <1>4, <1>5, <1>7, <1>8, <1>9

\* The tail moves one place on, or back: so does the order.
LEMMA BackMoves ==
    ASSUME Shape, NEW s \in {1, -1}, TailSet((LastTail + s) % Capacity(blockIndex))
    PROVE  /\ blockIndex' = blockIndex /\ Capacity(blockIndex)' = Capacity(blockIndex)
           /\ \A j \in Int : Back(j)' = Back(j - s)
           /\ NextEntry' = Back(0 - s)
<1> DEFINE cap == Capacity(blockIndex)
<1>1. cap \in Nat \ {0} /\ LastTail \in Int /\ blockIndex \in 1 .. Len(headers)
  BY LastHeader DEF LastTail
<1>2. /\ blockIndex' = blockIndex
      /\ headers'[blockIndex].index = headers[blockIndex].index
      /\ headers'[blockIndex].tail = (LastTail + s) % cap
  BY <1>1 DEF TailSet, blockIndex
<1>3. Capacity(blockIndex)' = cap /\ LastTail' = (LastTail + s) % cap
  BY <1>2 DEF Capacity, LastTail
<1>4. ASSUME NEW j \in Int PROVE Back(j)' = Back(j - s)
  <2>1. (LastTail' + 1 - j) % cap = (LastTail + 1 - (j - s)) % cap
    <3> HIDE DEF cap
    <3>1. LastTail + s \in Int /\ 1 - j \in Int
      BY <1>1
    <3>2. (((LastTail + s) % cap) + (1 - j)) % cap = ((LastTail + s) + (1 - j)) % cap
      BY <1>1, <3>1, ModSum
    <3>3. (LastTail + s) + (1 - j) = LastTail + 1 - (j - s)
      BY <1>1
    <3>4. (LastTail + s) % cap \in Int
      BY <1>1, <3>1, DivMod
    <3>5. ((LastTail + s) % cap) + (1 - j) = ((LastTail + s) % cap) + 1 - j
      BY <3>4
    <3> QED BY <1>3, <3>2, <3>3, <3>5
  <2>2. Back(j)' = headers'[blockIndex].index[((LastTail' + 1 - j) % cap) + 1]
    BY <1>2, <1>3 DEF Back, EntryAt
  <2> QED BY <1>2, <2>1, <2>2 DEF Back, EntryAt
<1>5. NextEntry' = Back(0 - s)
  <2>1. 0 \in Int /\ LastTail' \in Int
    <3> HIDE DEF cap
    <3>1. LastTail + s \in Int
      BY <1>1
    <3> QED BY <1>1, <1>3, <3>1, DivMod
  <2>2. LastTail' + 1 - 0 = LastTail' + 1
    BY <2>1
  <2>3. Back(0)' = NextEntry'
    BY <2>2 DEF Back, NextEntry, LastTail
  <2> QED BY <1>4, <2>1, <2>3
<1> QED BY <1>2, <1>3, <1>4, <1>5

\* A new index has the old order, and new entries behind it.
LEMMA BackGrows ==
    ASSUME Shape, Regrown
    PROVE  LET cap == Capacity(blockIndex)
           IN  /\ blockIndex' = blockIndex + 1 /\ Capacity(blockIndex)' = cap + cap
               /\ \A j \in 1 .. cap : Back(j)' = Back(j)
               /\ \A j \in cap + 1 .. cap + cap : Back(j)' = Len(entries) + cap + cap + 1 - j
<1> DEFINE cap == Capacity(blockIndex)
           next == headers'[blockIndex + 1]
<1>1. cap \in Nat /\ cap >= 2 /\ LastTail \in Int /\ blockIndex \in Nat /\ Len(entries) \in Nat
  BY LastHeader, Lengths DEF LastTail
<1>2. /\ blockIndex' = blockIndex + 1
      /\ next.tail = cap - 1 /\ Len(next.index) = cap + cap
      /\ \A p \in 1 .. cap : next.index[p] = EntryAt(blockIndex, LastTail + p)
      /\ \A p \in cap + 1 .. cap + cap : next.index[p] = Len(entries) + p - cap
  BY DEF Regrown, blockIndex, LastTail
<1>3. Capacity(blockIndex)' = cap + cap /\ LastTail' = cap - 1
  BY <1>2 DEF Capacity, LastTail
<1>4. \A j \in Int : Back(j)' = next.index[((cap - 1 + 1 - j) % (cap + cap)) + 1]
  BY <1>2, <1>3 DEF Back, EntryAt
<1>5. ASSUME NEW j \in 1 .. cap PROVE Back(j)' = Back(j)
  <2>1. cap - j \in 0 .. (cap + cap) - 1 /\ cap + cap \in Nat \ {0} /\ cap - 1 + 1 - j = cap - j
    BY <1>1
  <2>2. (cap - j) % (cap + cap) = cap - j
    <3> HIDE DEF cap
    <3> QED BY <2>1, Wrap
  <2>3. Back(j)' = next.index[cap - j + 1]
    BY <1>4, <2>1, <2>2
  <2>4. cap - j + 1 \in 1 .. cap
    BY <1>1
  <2>5. Back(j)' = EntryAt(blockIndex, LastTail + (cap - j + 1))
    BY <1>2, <2>3, <2>4
  <2>6. LastTail + (cap - j + 1) = LastTail + 1 - (j - cap) /\ j - cap \in Int /\ (j - cap) + cap = j
    BY <1>1
  <2>7. Back(j)' = Back(j - cap)
    BY <2>5, <2>6 DEF Back
  <2> QED BY <2>6, <2>7, BackIn
<1>6. ASSUME NEW j \in cap + 1 .. cap + cap PROVE Back(j)' = Len(entries) + cap + cap + 1 - j
  <2>1. cap + cap + cap - j \in 0 .. (cap + cap) - 1 /\ cap + cap \in Nat \ {0}
    BY <1>1
  <2>2. ((cap + cap + cap - j) - (cap + cap)) % (cap + cap) = cap + cap + cap - j
    <3> HIDE DEF cap
    <3> QED BY <2>1, Wrap
  <2>3. (cap + cap + cap - j) - (cap + cap) = cap - 1 + 1 - j
    BY <1>1
  <2>4. Back(j)' = next.index[cap + cap + cap - j + 1]
    <3>1. j \in Int /\ Back(j)' = next.index[((cap - 1 + 1 - j) % (cap + cap)) + 1]
      BY <1>1, <1>4
    <3>2. (cap - 1 + 1 - j) % (cap + cap) = cap + cap + cap - j
      BY <2>2, <2>3
    <3> QED BY <3>1, <3>2
  <2>5. cap + cap + cap - j + 1 \in cap + 1 .. cap + cap
    BY <1>1
  <2>6. Back(j)' = Len(entries) + (cap + cap + cap - j + 1) - cap
    BY <1>2, <2>4, <2>5
  <2> QED BY <1>1, <2>6, SMTT(30)
<1> QED BY <1>2, <1>3, <1>5, <1>6

-----------------------------------------------------------------------------
(* The index leads from every place to every other.                        *)

LEMMA InsertedIs ==
    ASSUME Shape
    PROVE  /\ Inserted \in Nat /\ tailIndex \in Nat /\ BLOCK_SIZE \in Nat /\ BLOCK_SIZE >= 2
           /\ Between => tailIndex = Inserted * BLOCK_SIZE
           /\ tailIndex % BLOCK_SIZE = 0 /\ ~Between => tailIndex = (Inserted - 1) * BLOCK_SIZE /\ Inserted >= 1
<1>1. BLOCK_SIZE \in Nat \ {0} /\ BLOCK_SIZE >= 2 /\ tailIndex \in Nat
  BY ProducerAssumption DEF Shape, ControlShape
<1>2. tailIndex \div BLOCK_SIZE \in Nat
  BY <1>1
<1>3. tailIndex = (tailIndex \div BLOCK_SIZE) * BLOCK_SIZE + (tailIndex % BLOCK_SIZE)
  BY <1>1, DivMod
<1>4. ppc \in {"idle", "insert", "tail", "requisition", "rewound", "value", "construct",
                "publish", "destroy", "gone"}
  BY DEF Shape, ControlShape
<1>5. Inserted \in Nat
  BY <1>2 DEF Inserted
<1>6. Between => Inserted = tailIndex \div BLOCK_SIZE
  BY <1>2 DEF Inserted, Between
<1>7. tailIndex % BLOCK_SIZE = 0 /\ ~Between => Inserted = (tailIndex \div BLOCK_SIZE) + 1
  BY <1>2, <1>4 DEF Inserted, Between
<1> DEFINE d == tailIndex \div BLOCK_SIZE
           m == tailIndex % BLOCK_SIZE
<1> HIDE DEF d, m
<1>8. tailIndex = d * BLOCK_SIZE + m /\ d \in Nat
  BY <1>2, <1>3 DEF d, m
<1>9. Between => m = 0 /\ Inserted = d
  BY <1>6 DEF d, m, Between
<1>10. m = 0 /\ ~Between => Inserted = d + 1
  BY <1>7 DEF d, m
<1> QED BY <1>1, <1>5, <1>8, <1>9, <1>10 DEF m

\* An entry is a place of the last index.
LEMMA EntryPlace ==
    ASSUME Types, Indexed, NEW e \in 1 .. Len(entries)
    PROVE  \E n \in 0 .. Capacity(blockIndex), j \in 1 .. Capacity(blockIndex) : Filled(n) /\ Back(j) = e
  BY DEF Indexed, Filling, Distinct

\* An entry with room has no block.
LEMMA RoomIsNull ==
    ASSUME Types, Indexed, NEW e \in 1 .. Len(entries)
    PROVE  /\ HasRoom(e) <=> entries[e].value = Null
           /\ entries[e].value # Null => Valid(e)
<1>1. PICK n \in 0 .. Capacity(blockIndex), j \in 1 .. Capacity(blockIndex) : Filled(n) /\ Back(j) = e
  BY EntryPlace
<1>2. Inserted \in Nat /\ BLOCK_SIZE \in Nat /\ Capacity(blockIndex) \in Nat /\ tailIndex \in Nat
  BY InsertedIs, BackIn DEF Types
<1>3. CASE j <= n
  <2>1. entries[e].key = (Inserted - j) * BLOCK_SIZE /\ n <= Inserted
    BY <1>1, <1>3 DEF Filled
  <2>2. (Inserted - j) \in Nat
    BY <1>1, <1>2, <1>3, <2>1
  <2>3. entries[e].key \in Nat
    BY <1>2, <2>1, <2>2
  <2> QED BY <2>3 DEF HasRoom, Valid, INVALID_BLOCK_BASE
<1>4. CASE ~(j <= n)
  <2>1. j \in n + 1 .. Capacity(blockIndex)
    BY <1>1, <1>2, <1>4
  <2>2. entries[e].value = Null
    BY <1>1, <2>1 DEF Filled, Unused, Keyed
  <2> QED BY <2>2 DEF HasRoom
<1> QED BY <1>3, <1>4

\* The keys of valid entries are those of blocks, and are different.
LEMMA KeysUnique ==
    ASSUME Types, Indexed, NEW e \in 1 .. Len(entries), NEW f \in 1 .. Len(entries),
           Valid(e), Valid(f), entries[e].key = entries[f].key
    PROVE  e = f
<1>1. PICK n \in 0 .. Capacity(blockIndex) : Filled(n)
  BY DEF Indexed, Filling
<1>2. PICK i \in 1 .. Capacity(blockIndex) : Back(i) = e
  BY DEF Indexed, Distinct
<1>3. PICK j \in 1 .. Capacity(blockIndex) : Back(j) = f
  BY DEF Indexed, Distinct
<1>4. Inserted \in Int /\ BLOCK_SIZE \in Nat \ {0} /\ Capacity(blockIndex) \in Nat
  BY InsertedIs, BackIn DEF Types
<1>5. \A k \in 1 .. Capacity(blockIndex) : Valid(Back(k)) =>
        \/ k <= n /\ entries[Back(k)].key = (Inserted - k) * BLOCK_SIZE
        \/ k = Capacity(blockIndex) /\ entries[Back(k)].key = Inserted * BLOCK_SIZE
  <2> SUFFICES ASSUME NEW k \in 1 .. Capacity(blockIndex), Valid(Back(k)), ~(k <= n)
               PROVE  k = Capacity(blockIndex) /\ entries[Back(k)].key = Inserted * BLOCK_SIZE
    BY <1>1, <1>4 DEF Filled
  <2>1. k \in n + 1 .. Capacity(blockIndex)
    BY <1>4
  <2>2. k = Capacity(blockIndex) /\ Keyed(Back(k))
    BY <1>1, <2>1 DEF Filled, Unused
  <2> QED BY <2>2, InsertedIs DEF Keyed, Types
<1>6. \A a, b \in Int : a * BLOCK_SIZE = b * BLOCK_SIZE => a = b
  <2> SUFFICES ASSUME NEW a \in Int, NEW b \in Int, a * BLOCK_SIZE = b * BLOCK_SIZE PROVE a = b
    OBVIOUS
  <2>1. (a * BLOCK_SIZE + 0) \div BLOCK_SIZE = a /\ (b * BLOCK_SIZE + 0) \div BLOCK_SIZE = b
    BY <1>4, DivModUnique
  <2> QED BY <1>4, <2>1
<1>7. \A k, l \in 1 .. Capacity(blockIndex) :
        /\ (Inserted - k) * BLOCK_SIZE = (Inserted - l) * BLOCK_SIZE => k = l
        /\ (Inserted - k) * BLOCK_SIZE # Inserted * BLOCK_SIZE
  <2> SUFFICES ASSUME NEW k \in 1 .. Capacity(blockIndex), NEW l \in 1 .. Capacity(blockIndex)
               PROVE  /\ (Inserted - k) * BLOCK_SIZE = (Inserted - l) * BLOCK_SIZE => k = l
                      /\ (Inserted - k) * BLOCK_SIZE # Inserted * BLOCK_SIZE
    OBVIOUS
  <2>1. Inserted - k \in Int /\ Inserted - l \in Int /\ Inserted - k # Inserted
        /\ (Inserted - k = Inserted - l => k = l)
    BY <1>4
  <2> QED BY <1>4, <1>6, <2>1
<1>8. i = j
  BY <1>2, <1>3, <1>5, <1>7
<1> QED BY <1>2, <1>3, <1>8

\* Every place of the last index is so many places back from the next one.
LEMMA PlaceIsBack ==
    ASSUME Shape, NEW p \in 0 .. Capacity(blockIndex) - 1
    PROVE  \E j \in 1 .. Capacity(blockIndex), z \in {0, 1} :
             /\ EntryAt(blockIndex, p) = Back(j)
             /\ j = LastTail + 1 - p + z * Capacity(blockIndex)
<1>1. /\ LastTail \in 0 .. Capacity(blockIndex) - 1 /\ Capacity(blockIndex) \in Nat
      /\ \A j \in Int : Back(j + Capacity(blockIndex)) = Back(j)
  BY LastHeader, BackIn DEF LastTail
<1> DEFINE cap == Capacity(blockIndex)
           j == LastTail + 1 - p
<1>2. LastTail + 1 - j = p /\ j \in Int /\ cap \in Int
  BY <1>1
<1>3. EntryAt(blockIndex, p) = Back(j)
  <2>1. Back(j) = EntryAt(blockIndex, LastTail + 1 - j)
    BY DEF Back
  <2> HIDE DEF j
  <2> QED BY <1>2, <2>1
<1>4. CASE p <= LastTail
  <2>1. j \in 1 .. cap /\ j = LastTail + 1 - p + 0 * cap
    BY <1>1, <1>4
  <2> HIDE DEF j
  <2> QED BY <1>3, <2>1
<1>5. CASE ~(p <= LastTail)
  <2>1. j + cap \in 1 .. cap /\ j + cap = LastTail + 1 - p + 1 * cap
    BY <1>1, <1>5
  <2>2. EntryAt(blockIndex, p) = Back(j + cap)
    BY <1>1, <1>2, <1>3
  <2> HIDE DEF j
  <2> QED BY <2>1, <2>2
<1> QED BY <1>4, <1>5

\* The blocks of the last index are in order, whole turns aside.
LEMMA LastAligned == ASSUME Types, Indexed PROVE Aligned(blockIndex)
<1>1. PICK n \in 0 .. Capacity(blockIndex) : Filled(n)
  BY DEF Indexed, Filling
<1>2. /\ Inserted \in Int /\ BLOCK_SIZE \in Int /\ Capacity(blockIndex) \in Nat /\ LastTail \in Int
  BY InsertedIs, BackIn DEF Types
<1> DEFINE cap == Capacity(blockIndex)
           o == Inserted - LastTail - 1
<1>3. ASSUME NEW p \in 0 .. cap - 1 PROVE AlignedAt(blockIndex, p, o)
  <2>1. PICK j \in 1 .. cap, z \in {0, 1} : EntryAt(blockIndex, p) = Back(j) /\ j = LastTail + 1 - p + z * cap
    BY PlaceIsBack DEF Types
  <2> SUFFICES ASSUME Valid(Back(j))
               PROVE  \E m \in Int : entries[Back(j)].key = (o + p + m * cap) * BLOCK_SIZE
    BY <2>1 DEF AlignedAt
  <2>2. CASE j <= n
    <3>1. entries[Back(j)].key = (Inserted - j) * BLOCK_SIZE
      BY <1>1, <1>2, <2>2 DEF Filled
    <3>2. -z \in Int /\ Inserted - j = o + p + (-z) * cap
      BY <1>2, <2>1
    <3> QED BY <3>1, <3>2
  <2>3. CASE ~(j <= n)
    <3>1. j \in n + 1 .. cap
      BY <1>2, <2>3
    <3>2. j = cap /\ Keyed(Back(j))
      BY <1>1, <3>1 DEF Filled, Unused
    <3>3. entries[Back(j)].key = Inserted * BLOCK_SIZE
      BY <3>2, InsertedIs DEF Keyed, Types
    <3>4. 1 - z \in Int /\ Inserted = o + p + (1 - z) * cap
      <4>1. cap = LastTail + 1 - p + z * cap /\ cap \in Int /\ p \in Int
        BY <1>2, <2>1, <3>2
      <4> HIDE DEF cap
      <4>2. CASE z = 0
        BY <1>2, <4>1, <4>2
      <4>3. CASE z = 1
        BY <1>2, <4>1, <4>3
      <4> QED BY <4>2, <4>3
    <3> QED BY <3>3, <3>4
  <2> QED BY <2>2, <2>3
<1>4. o \in Int
  BY <1>2
<1> HIDE DEF o
<1> QED BY <1>3, <1>4 DEF Aligned

\* So an index leads from any place to the place of any other block.
LEMMA IndexLeads ==
    ASSUME Types, NEW h \in 1 .. Len(headers), Aligned(h),
           NEW p \in 0 .. Capacity(h) - 1, NEW q \in 0 .. Capacity(h) - 1,
           Valid(EntryAt(h, p)), Valid(EntryAt(h, q))
    PROVE  EntryAt(h, q + (entries[EntryAt(h, p)].key - entries[EntryAt(h, q)].key) \div BLOCK_SIZE) = EntryAt(h, p)
<1> DEFINE cap == Capacity(h)
           k == entries[EntryAt(h, p)].key
           l == entries[EntryAt(h, q)].key
<1>1. cap \in Nat \ {0} /\ BLOCK_SIZE \in Nat \ {0} /\ p \in Int /\ q \in Int
  <2>1. p \in Int
    OBVIOUS
  <2> QED BY <2>1, EntryIn, ProducerAssumption DEF Types
<1>2. PICK o \in Int : \A r \in 0 .. cap - 1 : AlignedAt(h, r, o)
  BY DEF Aligned
<1>3. PICK m \in Int : k = (o + p + m * cap) * BLOCK_SIZE
  BY <1>2 DEF AlignedAt
<1>4. PICK x \in Int : l = (o + q + x * cap) * BLOCK_SIZE
  BY <1>2 DEF AlignedAt
<1> HIDE DEF k, l, cap
<1>5. PICK a \in Int : a = m * cap
  BY <1>1
<1>6. PICK b \in Int : b = x * cap
  BY <1>1
<1>7. k - l = (p - q + (a - b)) * BLOCK_SIZE + 0 /\ p - q + (a - b) \in Int
  <2>1. k = (o + p + a) * BLOCK_SIZE /\ l = (o + q + b) * BLOCK_SIZE
    BY <1>3, <1>4, <1>5, <1>6
  <2> QED BY <1>1, <2>1
<1>8. (k - l) \div BLOCK_SIZE = p - q + (a - b)
  BY <1>1, <1>7, DivModUnique
<1>9. q + (k - l) \div BLOCK_SIZE = p + (m - x) * cap
  BY <1>1, <1>5, <1>6, <1>8
<1>10. (p + (m - x) * cap) % cap = p % cap
  <2>1. m - x \in Int
    OBVIOUS
  <2> QED BY <1>1, <2>1, ModShift
<1>11. (q + (k - l) \div BLOCK_SIZE) % cap = p % cap
  BY <1>9, <1>10
<1> QED BY <1>11 DEF EntryAt, cap, k, l

\* The order of an index holds for the consumers that have it, old or new.
LEMMA IndexAligned == ASSUME Types, Indexed, NEW h \in 1 .. Len(headers) PROVE Aligned(h)
<1>1. h = blockIndex \/ h \in 1 .. Len(headers) - 1
  BY Lengths DEF Types, blockIndex
<1> QED BY <1>1, LastAligned DEF Indexed, Replaced

LEMMA BackIsPlace ==
    ASSUME Shape, NEW j \in Int
    PROVE  \E p \in 0 .. Capacity(blockIndex) - 1 : EntryAt(blockIndex, p) = Back(j)
<1> DEFINE cap == Capacity(blockIndex)
           p == (LastTail + 1 - j) % cap
<1>1. cap \in Nat \ {0} /\ LastTail + 1 - j \in Int
  BY LastHeader DEF LastTail
<1> HIDE DEF cap
<1>2. p \in 0 .. cap - 1
  BY <1>1, DivMod
<1>3. p % cap = p
  BY <1>1, <1>2, Wrap
<1>4. EntryAt(blockIndex, p) = Back(j)
  BY <1>3 DEF EntryAt, Back, cap
<1> HIDE DEF p
<1> QED BY <1>2, <1>4 DEF cap

\* Once there are elements, the tail of every index is at a block.
LEMMA TailValid ==
    ASSUME Types, Indexed, NEW h \in 1 .. Len(headers), tailIndex >= 1
    PROVE  Valid(EntryAt(h, headers[h].tail))
<1>1. CASE h \in 1 .. Len(headers) - 1
  <2>1. headers[h].tail \in 0 .. Capacity(h) - 1
    <3>1. headers[h].tail \in Nat /\ Capacity(h) \in Nat
      <4>1. 0 \in Int
        OBVIOUS
      <4> QED BY <4>1, HeaderTyped, EntryIn DEF Types
    <3>2. headers[h].tail < Capacity(h)
      BY DEF Types, Shape, IndexShape
    <3> QED BY <3>1, <3>2
  <2> QED BY <1>1, <2>1 DEF Indexed, Replaced
<1>2. CASE h = blockIndex
  <2>1. PICK n \in 0 .. Capacity(blockIndex) : Filled(n)
    BY DEF Indexed, Filling
  <2>2. Inserted \in Nat /\ BLOCK_SIZE \in Nat \ {0} /\ tailIndex \in Nat
    BY InsertedIs DEF Types
  <2>3. Inserted >= 1
    <3> DEFINE d == tailIndex \div BLOCK_SIZE
               m == tailIndex % BLOCK_SIZE
    <3>1. d \in Nat /\ tailIndex = d * BLOCK_SIZE + m
      <4>1. d \in Nat
        BY <2>2
      <4> QED BY <2>2, <4>1, DivMod
    <3>2. m # 0 => Inserted = d + 1
      BY <3>1 DEF Inserted
    <3>3. Inserted = d \/ Inserted = d + 1
      BY <3>1 DEF Inserted
    <3> HIDE DEF d, m
    <3>4. m = 0 => d # 0
      BY <2>2, <3>1
    <3> QED BY <3>1, <3>2, <3>3, <3>4
  <2>4. 1 \in 1 .. n
    BY <2>1, <2>3 DEF Filled
  <2>5. entries[Back(1)].key = (Inserted - 1) * BLOCK_SIZE
    BY <2>1, <2>4 DEF Filled
  <2>6. entries[Back(1)].key \in Nat
    <3>1. Inserted - 1 \in Nat
      BY <2>2, <2>3
    <3> QED BY <2>2, <2>5, <3>1
  <2>7. Back(1) = EntryAt(blockIndex, headers[blockIndex].tail)
    BY BackIn DEF Types
  <2> QED BY <1>2, <2>6, <2>7 DEF Valid, INVALID_BLOCK_BASE
<1>3. h = blockIndex \/ h \in 1 .. Len(headers) - 1
  BY Lengths DEF Types, blockIndex
<1> QED BY <1>1, <1>2, <1>3

-----------------------------------------------------------------------------
(* Every step keeps it.                                                    *)

\* Entries that are valid stay so, and have blocks whole turns of the last index later.
Turned ==
    \A e \in 1 .. Len(entries) : Valid(e) =>
        /\ entries'[e].key # INVALID_BLOCK_BASE
        /\ \E t \in Int : entries'[e].key = entries[e].key + (t * Capacity(blockIndex)) * BLOCK_SIZE

LEMMA SameKeysTurned ==
    ASSUME Types, \A e \in 1 .. Len(entries) : entries'[e].key = entries[e].key
    PROVE  Turned
<1> SUFFICES ASSUME NEW e \in 1 .. Len(entries), Valid(e)
             PROVE  \E t \in Int : entries'[e].key = entries[e].key + (t * Capacity(blockIndex)) * BLOCK_SIZE
  BY DEF Turned, Valid
<1>1. Capacity(blockIndex) \in Int /\ BLOCK_SIZE \in Int /\ entries[e].key \in Int
  <2>1. Capacity(blockIndex) \in Int /\ BLOCK_SIZE \in Int
    BY BackIn, ProducerAssumption DEF Types
  <2>2. entries[e].key \in {INVALID_BLOCK_BASE} \union 0 .. MaxElements
    BY EntryTyped DEF Types
  <2> QED BY <2>1, <2>2 DEF INVALID_BLOCK_BASE
<1>2. 0 \in Int /\ entries[e].key = entries[e].key + (0 * Capacity(blockIndex)) * BLOCK_SIZE
  BY <1>1
<1> QED BY <1>2

\* An index is still in order then, when the last one has its old size or twice that.
LEMMA ReplacedOn ==
    ASSUME Types, NEW h \in 1 .. Len(headers), Replaced(h),
           headers'[h].index = headers[h].index, Turned,
           NEW s \in {1, 2}, Capacity(blockIndex)' = s * Capacity(blockIndex)
    PROVE  Replaced(h)'
<1> DEFINE cap == Capacity(h)
<1>1. cap \in Nat \ {0} /\ \A pos \in Int : EntryAt(h, pos) \in 1 .. Len(entries)
  <2>1. \A pos \in Int : cap \in Nat \ {0, 1} /\ EntryAt(h, pos) \in 1 .. Len(entries)
    BY EntryIn DEF Types
  <2>2. 0 \in Int
    OBVIOUS
  <2> HIDE DEF EntryAt, cap
  <2> QED BY <2>1, <2>2
<1>2. Capacity(h)' = cap /\ \A pos \in Int : EntryAt(h, pos)' = EntryAt(h, pos)
  BY DEF Capacity, EntryAt
<1>3. \A p \in 0 .. cap - 1 :
        /\ p \in Int /\ EntryAt(h, p)' = EntryAt(h, p) /\ EntryAt(h, p) \in 1 .. Len(entries)
        /\ Valid(EntryAt(h, p))
  BY <1>1, <1>2 DEF Replaced
<1>4. PICK r \in Nat : Capacity(blockIndex) = r * cap
  BY DEF Replaced
<1>5. \A p \in 0 .. cap - 1 : Valid(EntryAt(h, p))'
  BY <1>3 DEF Turned, Valid
<1>6. ASSUME NEW o \in Int, \A p \in 0 .. cap - 1 : AlignedAt(h, p, o)
      PROVE  \A p \in 0 .. cap - 1 : AlignedAt(h, p, o)'
  <2> SUFFICES ASSUME NEW p \in 0 .. cap - 1 PROVE AlignedAt(h, p, o)'
    OBVIOUS
  <2> DEFINE e == EntryAt(h, p)
  <2>0. e \in 1 .. Len(entries) /\ Valid(e) /\ EntryAt(h, p)' = e
    BY <1>3
  <2>1. PICK m \in Int : entries[e].key = (o + p + m * cap) * BLOCK_SIZE
    BY <1>6, <2>0 DEF AlignedAt
  <2>2. PICK t \in Int : entries'[e].key = entries[e].key + (t * Capacity(blockIndex)) * BLOCK_SIZE
    BY <2>0 DEF Turned
  <2>3. m + t * r \in Int /\ entries'[e].key = (o + p + (m + t * r) * cap) * BLOCK_SIZE
    <3> HIDE DEF e, cap
    <3>1. entries'[e].key = (o + p + m * cap) * BLOCK_SIZE + (t * (r * cap)) * BLOCK_SIZE
      BY <1>4, <2>1, <2>2
    <3>2. (o + p + m * cap) * BLOCK_SIZE + (t * (r * cap)) * BLOCK_SIZE = (o + p + (m + t * r) * cap) * BLOCK_SIZE
      <4>1. PICK a \in Int : a = t * r
        OBVIOUS
      <4>2. t * (r * cap) = a * cap
        BY <1>1, <4>1
      <4>3. PICK x \in Int : x = a * cap
        BY <1>1
      <4>4. PICK y \in Int : y = m * cap
        BY <1>1
      <4>5. (m + a) * cap = y + x
        BY <1>1, <4>3, <4>4
      <4>6. (o + p + y) * BLOCK_SIZE + x * BLOCK_SIZE = (o + p + (y + x)) * BLOCK_SIZE
        BY ProducerAssumption
      <4> QED BY <4>1, <4>2, <4>3, <4>4, <4>5, <4>6
    <3> QED BY <3>1, <3>2
  <2>4. entries'[EntryAt(h, p)'].key = (o + p + (m + t * r) * Capacity(h)') * BLOCK_SIZE
    BY <1>2, <2>0, <2>3
  <2> HIDE DEF e
  <2> QED BY <2>3, <2>4 DEF AlignedAt
<1>7. Aligned(h)'
  <2>1. PICK o \in Int : \A p \in 0 .. cap - 1 : AlignedAt(h, p, o)
    BY DEF Replaced, Aligned
  <2>2. \A p \in 0 .. cap - 1 : AlignedAt(h, p, o)'
    BY <1>6, <2>1
  <2>3. \A p \in 0 .. Capacity(h)' - 1 : AlignedAt(h, p, o)'
    BY <1>2, <2>2
  <2> QED BY <2>3 DEF Aligned
<1>8. \E q \in Nat : Capacity(blockIndex)' = q * Capacity(h)'
  <2>1. s * r \in Nat /\ s * (r * cap) = (s * r) * cap
    <3> HIDE DEF cap
    <3>1. CASE s = 1
      BY <1>1, <3>1
    <3>2. CASE s = 2
      BY <1>1, <3>2
    <3> QED BY <3>1, <3>2
  <2> QED BY <1>2, <1>4, <2>1
<1> QED BY <1>2, <1>5, <1>7, <1>8 DEF Replaced

LEMMA SameOrder ==
    ASSUME UNCHANGED headers
    PROVE  /\ blockIndex' = blockIndex /\ Capacity(blockIndex)' = Capacity(blockIndex)
           /\ NextEntry' = NextEntry
           /\ \A j \in Int : Back(j)' = Back(j)
  BY DEF blockIndex, Capacity, NextEntry, Back, LastTail, EntryAt

LEMMA ReplacedAll ==
    ASSUME Types, Indexed, Turned, Len(headers') = Len(headers), Capacity(blockIndex)' = Capacity(blockIndex),
           \A h \in 1 .. Len(headers) : headers'[h].index = headers[h].index
    PROVE  \A h \in 1 .. Len(headers') - 1 : Replaced(h)'
<1> SUFFICES ASSUME NEW h \in 1 .. Len(headers) - 1 PROVE Replaced(h)'
  OBVIOUS
<1>1. h \in 1 .. Len(headers)
  BY Lengths DEF Types
<1>2. Replaced(h)
  BY DEF Indexed
<1>3. Capacity(blockIndex)' = 1 * Capacity(blockIndex)
  <2>1. Capacity(blockIndex)' = Capacity(blockIndex) /\ Capacity(blockIndex) \in Nat
    BY BackIn DEF Types
  <2> QED BY <2>1
<1>4. 1 \in {1, 2} /\ headers'[h].index = headers[h].index
  BY <1>1
<1> QED BY <1>1, <1>2, <1>3, <1>4, ReplacedOn

\* The entries keep their keys, and may lose their blocks.
Relinked ==
    /\ Len(entries') = Len(entries)
    /\ \A e \in 1 .. Len(entries) :
         entries'[e].key = entries[e].key /\ entries'[e].value \in {entries[e].value, Null}

\* Nothing goes into the index, and nothing comes out at its end.
Onward ==
    /\ Inserted' = Inserted
    /\ Between => Between' /\ tailIndex' = tailIndex
    /\ ppc' = "requisition" => ppc = "requisition"
    /\ ppc' = "value" => ppc \in {"requisition", "value"}
    /\ ppc' \in {"tail", "rewound"} => ppc' = ppc

LEMMA IndexedFrame == ASSUME Types, Indexed, UNCHANGED headers, Relinked, Onward PROVE Indexed'
<1>1. /\ Capacity(blockIndex)' = Capacity(blockIndex) /\ NextEntry' = NextEntry
      /\ \A j \in Int : Back(j)' = Back(j)
      /\ Capacity(blockIndex) \in Nat
      /\ \A j \in Int : Back(j) \in 1 .. Len(entries)
      /\ NextEntry \in 1 .. Len(entries)
  BY SameOrder, BackIn, LastHeader DEF Types
<1>2. Filling'
  <2>1. PICK n \in 0 .. Capacity(blockIndex) : Filled(n)
    BY DEF Indexed, Filling
  <2>2. \A j \in 1 .. n : entries'[Back(j)'].key = (Inserted' - j) * BLOCK_SIZE
    <3> SUFFICES ASSUME NEW j \in 1 .. n PROVE entries'[Back(j)'].key = (Inserted' - j) * BLOCK_SIZE
      OBVIOUS
    <3>1. j \in Int
      OBVIOUS
    <3>2. Back(j)' = Back(j) /\ Back(j) \in 1 .. Len(entries)
      BY <1>1, <3>1
    <3> QED BY <2>1, <3>2 DEF Filled, Relinked, Onward
  <2>3. ASSUME NEW j \in n + 1 .. Capacity(blockIndex)'
        PROVE  Unused(Back(j))' \/ (j = Capacity(blockIndex)' /\ Keyed(Back(j))')
    <3>1. j \in Int /\ j \in n + 1 .. Capacity(blockIndex)
      BY <1>1
    <3>2. Back(j)' = Back(j) /\ Back(j) \in 1 .. Len(entries)
      BY <1>1, <3>1
    <3>3. Unused(Back(j)) \/ (j = Capacity(blockIndex) /\ Keyed(Back(j)))
      BY <2>1, <3>1 DEF Filled
    <3>4. (Unused(Back(j)) => entries'[Back(j)'].key = INVALID_BLOCK_BASE /\ entries'[Back(j)'].value = Null)
      BY <3>2 DEF Relinked, Unused, Valid
    <3>5. (Keyed(Back(j)) => entries'[Back(j)'].key = tailIndex' /\ entries'[Back(j)'].value = Null /\ Between')
      BY <3>2 DEF Relinked, Keyed, Onward
    <3> QED BY <1>1, <3>3, <3>4, <3>5 DEF Unused, Keyed, Valid
  <2>4. /\ n <= Inserted'
        /\ Inserted' >= 1 => n >= 1
        /\ ppc' = "requisition" /\ Inserted' >= 2 => n >= 2
    BY <2>1 DEF Filled, Onward
  <2>5. Filled(n)'
    BY <2>2, <2>3, <2>4 DEF Filled
  <2>6. n \in 0 .. Capacity(blockIndex)'
    BY <1>1
  <2> QED BY <2>5, <2>6 DEF Filling
<1>3. Pending'
  <2>1. ppc' \in {"tail", "rewound"} => Keyed(NextEntry)'
    <3>1. ppc' \in {"tail", "rewound"} => Keyed(NextEntry)
      BY DEF Indexed, Pending, Onward
    <3>2. Keyed(NextEntry) => entries'[NextEntry'].key = tailIndex' /\ entries'[NextEntry'].value = Null /\ Between'
      BY <1>1 DEF Keyed, Relinked, Onward
    <3> QED BY <3>1, <3>2 DEF Keyed
  <2>2. ppc' \in {"requisition", "value"} => entries'[Back(1)'].value = Null
    <3>1. 1 \in Int
      OBVIOUS
    <3>2. Back(1)' = Back(1) /\ Back(1) \in 1 .. Len(entries)
      BY <1>1, <3>1
    <3>3. ppc' \in {"requisition", "value"} => entries[Back(1)].value = Null
      BY DEF Indexed, Pending, Onward
    <3> QED BY <3>2, <3>3 DEF Relinked
  <2> QED BY <2>1, <2>2 DEF Pending
<1>4. Distinct'
  <2>1. \A j \in 1 .. Capacity(blockIndex) : Back(j)' = Back(j)
    BY <1>1
  <2>2. \A i, j \in 1 .. Capacity(blockIndex)' : Back(i)' = Back(j)' => i = j
    BY <1>1, <2>1 DEF Indexed, Distinct
  <2>3. \A e \in 1 .. Len(entries') : \E j \in 1 .. Capacity(blockIndex)' : Back(j)' = e
    <3> SUFFICES ASSUME NEW e \in 1 .. Len(entries) PROVE \E j \in 1 .. Capacity(blockIndex)' : Back(j)' = e
      BY DEF Relinked
    <3>1. PICK j \in 1 .. Capacity(blockIndex) : Back(j) = e
      BY DEF Indexed, Distinct
    <3> QED BY <1>1, <2>1, <3>1
  <2> QED BY <2>2, <2>3 DEF Distinct
<1>5. \A h \in 1 .. Len(headers') - 1 : Replaced(h)'
  <2>1. Turned
    BY SameKeysTurned DEF Relinked
  <2> QED BY <1>1, <2>1, ReplacedAll
<1> QED BY <1>2, <1>3, <1>4, <1>5 DEF Indexed

\* insert_block_index_entry: the next entry gets the key of the block to come.
LEMMA InsertKeyKeeps == ASSUME Types, Indexed, InsertKey PROVE Indexed'
<1> DEFINE cap == Capacity(blockIndex)
           x == NextEntry
<1>1. /\ ppc = "insert" /\ HasRoom(x) /\ ppc' = "tail" /\ tailIndex' = tailIndex /\ headers' = headers
      /\ tailIndex % BLOCK_SIZE = 0 /\ Between /\ Between' /\ Inserted' = Inserted
  BY DEF InsertKey, counts, Types, Positions, Between, Inserted
<1>2. /\ Capacity(blockIndex)' = cap /\ x' = x /\ cap \in Nat /\ cap >= 2
      /\ \A j \in Int : Back(j)' = Back(j) /\ Back(j) \in 1 .. Len(entries)
      /\ x \in 1 .. Len(entries) /\ x = Back(cap)
  BY <1>1, SameOrder, BackIn, LastHeader DEF Types
<1>3. /\ Inserted \in Nat /\ BLOCK_SIZE \in Nat /\ tailIndex = Inserted * BLOCK_SIZE /\ tailIndex \in Nat
  BY <1>1, InsertedIs DEF Types
<1>4. entries[x].value = Null
  BY <1>1, <1>2, RoomIsNull
<1>5. /\ Len(entries') = Len(entries)
      /\ entries'[x].key = tailIndex /\ entries'[x].value = Null
      /\ \A e \in 1 .. Len(entries) : e # x => entries'[e] = entries[e]
  BY <1>4, IndexSteps DEF Types, EntrySet
<1>6. Keyed(x)'
  BY <1>1, <1>2, <1>5 DEF Keyed
<1>7. PICK n \in 0 .. cap : Filled(n)
  BY DEF Indexed, Filling
<1>8. /\ n <= Inserted /\ (Inserted >= 1 => n >= 1)
      /\ \A j \in 1 .. n : entries[Back(j)].key = (Inserted - j) * BLOCK_SIZE
      /\ \A j \in n + 1 .. cap : Unused(Back(j)) \/ (j = cap /\ Keyed(Back(j)))
  BY <1>7 DEF Filled
<1>9. /\ \A i, j \in 1 .. cap : Back(i) = Back(j) => i = j
      /\ \A e \in 1 .. Len(entries) : \E j \in 1 .. cap : Back(j) = e
  BY DEF Indexed, Distinct
<1>10. cap \in Nat /\ cap >= 2 /\ n \in 0 .. cap
  BY <1>2
<1> HIDE DEF cap, x
<1>11. \A j \in 1 .. cap - 1 : Back(j) # x /\ entries'[Back(j)'] = entries[Back(j)]
  <2> SUFFICES ASSUME NEW j \in 1 .. cap - 1 PROVE Back(j) # x /\ entries'[Back(j)'] = entries[Back(j)]
    OBVIOUS
  <2>1. j \in 1 .. cap /\ cap \in 1 .. cap /\ j # cap /\ j \in Int
    BY <1>10
  <2>2. Back(j) # x
    BY <1>2, <1>9, <2>1
  <2> QED BY <1>2, <1>5, <2>1, <2>2
<1>12. Filling'
  <2>1. PICK k \in 0 .. cap - 1 : k <= n /\ (n >= 1 => k >= 1) /\ k \in 0 .. cap /\ (k # n => k = cap - 1)
    <3>1. CASE n = cap
      <4>1. cap - 1 \in 0 .. cap - 1 /\ cap - 1 <= n /\ cap - 1 >= 1 /\ cap - 1 \in 0 .. cap
        BY <1>10, <3>1
      <4> QED BY <4>1
    <3>2. CASE n # cap
      <4>1. n \in 0 .. cap - 1 /\ n <= n /\ n \in 0 .. cap
        BY <1>10, <3>2
      <4> QED BY <4>1
    <3> QED BY <3>1, <3>2
  <2>2. ASSUME NEW j \in 1 .. k PROVE entries'[Back(j)'].key = (Inserted' - j) * BLOCK_SIZE
    <3>1. j \in 1 .. cap - 1 /\ j \in 1 .. n
      BY <1>10, <2>1
    <3> QED BY <1>1, <1>8, <1>11, <3>1
  <2>3. ASSUME NEW j \in k + 1 .. cap
        PROVE  Unused(Back(j))' \/ (j = cap /\ Keyed(Back(j))')
    <3>1. CASE j = cap
      <4>1. cap \in Int
        BY <1>10
      <4>2. Back(j)' = x
        BY <1>2, <3>1, <4>1
      <4>3. entries'[Back(j)'].key = tailIndex' /\ entries'[Back(j)'].value = Null
        BY <1>1, <1>5, <4>2
      <4> QED BY <1>1, <3>1, <4>3 DEF Keyed
    <3>2. CASE j # cap
      <4>1. j \in 1 .. cap - 1 /\ j \in n + 1 .. cap
        BY <1>10, <2>1, <3>2
      <4>2. Unused(Back(j))
        BY <1>8, <3>2, <4>1
      <4>3. entries'[Back(j)'] = entries[Back(j)]
        BY <1>11, <4>1
      <4> QED BY <4>2, <4>3 DEF Unused, Valid
    <3> QED BY <3>1, <3>2
  <2>4. k <= Inserted' /\ (Inserted' >= 1 => k >= 1)
    BY <1>1, <1>3, <1>8, <1>10, <2>1
  <2>5. Capacity(blockIndex)' = cap /\ ppc' # "requisition"
    BY <1>1, <1>2
  <2>6. Filled(k)'
    BY <2>2, <2>3, <2>4, <2>5 DEF Filled
  <2> QED BY <2>1, <2>5, <2>6 DEF Filling
<1>13. Pending'
  BY <1>1, <1>6 DEF Pending, x
<1>14. Distinct'
  <2>1. \A j \in 1 .. cap : Back(j)' = Back(j)
    BY <1>2
  <2>2. \A i, j \in 1 .. cap : Back(i)' = Back(j)' => i = j
    BY <1>9, <2>1
  <2>3. \A e \in 1 .. Len(entries') : \E j \in 1 .. cap : Back(j)' = e
    BY <1>5, <1>9, <2>1
  <2>4. Capacity(blockIndex)' = cap
    BY <1>2
  <2> QED BY <2>2, <2>3, <2>4 DEF Distinct
<1>15. ASSUME NEW e \in 1 .. Len(entries), Valid(e)
       PROVE  /\ entries'[e].key # INVALID_BLOCK_BASE
              /\ \E t \in Int : entries'[e].key = entries[e].key + (t * cap) * BLOCK_SIZE
  <2>1. entries[e].key \in Int
    <3>1. entries[e].key \in {INVALID_BLOCK_BASE} \union 0 .. MaxElements
      BY EntryTyped DEF Types
    <3> QED BY <3>1 DEF INVALID_BLOCK_BASE
  <2>2. CASE e # x \/ Keyed(e)
    <3>1. entries'[e].key = entries[e].key
      BY <1>5, <2>2 DEF Keyed
    <3>2. 0 \in Int /\ entries[e].key = entries[e].key + (0 * cap) * BLOCK_SIZE
      BY <1>3, <1>10, <2>1
    <3> QED BY <1>15, <3>1, <3>2 DEF Valid
  <2>3. CASE e = x /\ ~Keyed(e)
    <3>1. n = cap
      <4>1. n # cap => cap \in n + 1 .. cap
        BY <1>10
      <4>2. Valid(Back(cap)) /\ ~Keyed(Back(cap))
        BY <1>2, <1>15, <2>3
      <4> QED BY <1>8, <4>1, <4>2 DEF Unused
    <3>2. cap \in 1 .. n
      BY <1>10, <3>1
    <3>3. entries[x].key = (Inserted - cap) * BLOCK_SIZE
      BY <1>2, <1>8, <3>2
    <3>4. entries'[x].key = entries[x].key + (1 * cap) * BLOCK_SIZE
      BY <1>3, <1>5, <1>10, <3>3
    <3>5. entries'[x].key # INVALID_BLOCK_BASE
      BY <1>3, <1>5 DEF INVALID_BLOCK_BASE
    <3> QED BY <2>3, <3>4, <3>5
  <2> QED BY <2>2, <2>3
<1>16. Turned
  BY <1>15 DEF Turned, cap
<1>17. \A h \in 1 .. Len(headers') - 1 : Replaced(h)'
  <2>1. Capacity(blockIndex)' = Capacity(blockIndex)
    BY <1>2 DEF cap
  <2> QED BY <1>1, <1>16, <2>1, ReplacedAll
<1> QED BY <1>12, <1>13, <1>14, <1>17 DEF Indexed

\* The tail of the index moves onto the entry: the block counts as inserted.
LEMMA StoreTailKeeps == ASSUME Types, Indexed, StoreTail PROVE Indexed'
<1> DEFINE cap == Capacity(blockIndex)
<1>1. /\ ppc = "tail" /\ ppc' = "requisition" /\ tailIndex' = tailIndex /\ entries' = entries
      /\ Between /\ Inserted' = Inserted + 1
  <2>1. /\ ppc = "tail" /\ ppc' = "requisition" /\ tailIndex' = tailIndex /\ entries' = entries
        /\ tailIndex % BLOCK_SIZE = 0 /\ tailIndex \div BLOCK_SIZE \in Int
    <3>1. tailIndex \in Int /\ BLOCK_SIZE \in Nat \ {0}
      BY InsertedIs DEF Types
    <3>2. tailIndex \div BLOCK_SIZE \in Int
      BY <3>1, DivMod
    <3> QED BY <3>2 DEF StoreTail, counts, Types, Positions
  <2> QED BY <2>1 DEF Between, Inserted
<1>2. TailSet((LastTail + 1) % cap)
  BY IndexSteps DEF Types, LastTail
<1>3. /\ Capacity(blockIndex)' = cap /\ \A j \in Int : Back(j)' = Back(j - 1)
  BY <1>2, BackMoves DEF Types
<1>4. /\ cap \in Nat /\ cap >= 2 /\ \A j \in Int : Back(j) \in 1 .. Len(entries)
      /\ Back(0) = NextEntry /\ Back(cap) = NextEntry
  BY BackIn DEF Types
<1>5. /\ Inserted \in Nat /\ BLOCK_SIZE \in Nat /\ BLOCK_SIZE >= 2 /\ tailIndex = Inserted * BLOCK_SIZE
  BY <1>1, InsertedIs DEF Types
<1>6. Keyed(NextEntry)
  BY <1>1 DEF Indexed, Pending
<1>7. PICK n \in 0 .. cap : Filled(n)
  BY DEF Indexed, Filling
<1>8. /\ n <= Inserted /\ (Inserted >= 1 => n >= 1)
      /\ \A j \in 1 .. n : entries[Back(j)].key = (Inserted - j) * BLOCK_SIZE
      /\ \A j \in n + 1 .. cap : Unused(Back(j)) \/ (j = cap /\ Keyed(Back(j)))
  BY <1>7 DEF Filled
<1>9. /\ \A i, j \in 1 .. cap : Back(i) = Back(j) => i = j
      /\ \A e \in 1 .. Len(entries) : \E j \in 1 .. cap : Back(j) = e
  BY DEF Indexed, Distinct
<1>10. cap \in Nat /\ cap >= 2 /\ n \in 0 .. cap
  BY <1>4
<1> HIDE DEF cap
<1>11. n # cap
  <2> SUFFICES ASSUME n = cap PROVE FALSE
    OBVIOUS
  <2>1. cap \in 1 .. n
    BY <1>10
  <2>2. (Inserted - cap) * BLOCK_SIZE = Inserted * BLOCK_SIZE
    BY <1>4, <1>5, <1>6, <1>8, <2>1 DEF Keyed
  <2>3. BLOCK_SIZE * cap >= BLOCK_SIZE
    BY <1>5, <1>10, Product
  <2>4. (Inserted - cap) * BLOCK_SIZE = Inserted * BLOCK_SIZE - BLOCK_SIZE * cap
    BY <1>5, <1>10
  <2>5. PICK x \in Int : x = BLOCK_SIZE * cap
    BY <1>5, <1>10
  <2>6. PICK y \in Int : y = Inserted * BLOCK_SIZE
    BY <1>5
  <2> QED BY <1>5, <2>2, <2>3, <2>4, <2>5, <2>6
<1>12. Back(1)' = NextEntry /\ \A j \in 2 .. cap : Back(j)' = Back(j - 1) /\ j - 1 \in 1 .. cap
  <2>1. 1 \in Int /\ 1 - 1 = 0 /\ \A j \in 2 .. cap : j \in Int /\ j - 1 \in 1 .. cap
    BY <1>10
  <2>2. Back(1)' = Back(1 - 1)
    BY <1>3, <2>1
  <2> QED BY <1>3, <1>4, <2>1, <2>2
<1>13. Filling'
  <2>1. PICK k \in 0 .. cap : k = n + 1
    <3>1. n + 1 \in 0 .. cap
      BY <1>10, <1>11
    <3> QED BY <3>1
  <2>2. ASSUME NEW j \in 1 .. k PROVE entries'[Back(j)'].key = (Inserted' - j) * BLOCK_SIZE
    <3>1. CASE j = 1
      <4>1. entries'[Back(j)'].key = Inserted * BLOCK_SIZE
        BY <1>1, <1>5, <1>6, <1>12, <3>1 DEF Keyed
      <4>2. Inserted' - 1 = Inserted
        BY <1>1, <1>5
      <4> QED BY <3>1, <4>1, <4>2
    <3>2. CASE j # 1
      <4>1. j \in 2 .. cap /\ j - 1 \in 1 .. n /\ Inserted - (j - 1) = Inserted' - j
        BY <1>1, <1>5, <1>10, <2>1, <3>2
      <4>2. entries[Back(j - 1)].key = (Inserted - (j - 1)) * BLOCK_SIZE
        BY <1>8, <4>1
      <4> QED BY <1>1, <1>12, <4>1, <4>2
    <3> QED BY <3>1, <3>2
  <2>3. ASSUME NEW j \in k + 1 .. cap PROVE Unused(Back(j))'
    <3>1. j \in 2 .. cap /\ j - 1 \in n + 1 .. cap /\ j - 1 # cap
      BY <1>10, <2>1
    <3>2. Unused(Back(j - 1)) /\ Back(j)' = Back(j - 1)
      BY <1>8, <1>12, <3>1
    <3> QED BY <1>1, <3>2 DEF Unused, Valid
  <2>4. k <= Inserted' /\ (Inserted' >= 1 => k >= 1) /\ (Inserted' >= 2 => k >= 2)
    BY <1>1, <1>5, <1>8, <1>10, <2>1
  <2>5. Filled(k)'
    BY <1>3, <2>2, <2>3, <2>4 DEF Filled
  <2> QED BY <1>3, <2>1, <2>5 DEF Filling
<1>14. Pending'
  <2>1. entries'[Back(1)'].value = Null
    BY <1>1, <1>6, <1>12 DEF Keyed
  <2> QED BY <1>1, <2>1 DEF Pending
<1>15. Distinct'
  <2>1. ASSUME NEW j \in 1 .. cap PROVE Back(j)' = Back(IF j = 1 THEN cap ELSE j - 1)
    <3>1. CASE j = 1
      BY <1>4, <1>12, <3>1
    <3>2. CASE j # 1
      <4>1. j \in 2 .. cap
        BY <1>10, <3>2
      <4> QED BY <1>12, <3>2, <4>1
    <3> QED BY <3>1, <3>2
  <2>2. ASSUME NEW i \in 1 .. cap, NEW j \in 1 .. cap, Back(i)' = Back(j)' PROVE i = j
    <3>1. PICK a \in 1 .. cap : a = IF i = 1 THEN cap ELSE i - 1
      BY <1>10
    <3>2. PICK b \in 1 .. cap : b = IF j = 1 THEN cap ELSE j - 1
      BY <1>10
    <3>3. a = b
      BY <1>9, <2>1, <2>2, <3>1, <3>2
    <3> QED BY <1>10, <3>1, <3>2, <3>3
  <2>3. ASSUME NEW e \in 1 .. Len(entries) PROVE \E j \in 1 .. cap : Back(j)' = e
    <3>1. PICK i \in 1 .. cap : Back(i) = e
      BY <1>9
    <3>2. PICK j \in 1 .. cap : i = IF j = 1 THEN cap ELSE j - 1
      <4>1. CASE i = cap
        <5>1. 1 \in 1 .. cap
          BY <1>10
        <5> QED BY <4>1, <5>1
      <4>2. CASE i # cap
        <5>1. i + 1 \in 1 .. cap /\ i + 1 # 1 /\ (i + 1) - 1 = i
          BY <1>10, <4>2
        <5> QED BY <5>1
      <4> QED BY <4>1, <4>2
    <3> QED BY <2>1, <3>1, <3>2
  <2> QED BY <1>1, <1>3, <2>2, <2>3 DEF Distinct
<1>16. \A h \in 1 .. Len(headers') - 1 : Replaced(h)'
  <2>1. Turned
    BY <1>1, SameKeysTurned
  <2>2. Capacity(blockIndex)' = Capacity(blockIndex)
    BY <1>3 DEF cap
  <2> QED BY <1>2, <2>1, <2>2, ReplacedAll DEF TailSet
<1> QED BY <1>13, <1>14, <1>15, <1>16 DEF Indexed

\* There is no block: the tail moves back, and the entry is the next one again.
LEMMA NoBlockKeeps == ASSUME Types, Indexed, NoBlock PROVE Indexed'
<1> DEFINE cap == Capacity(blockIndex)
<1>1. /\ ppc = "requisition" /\ ppc' = "rewound" /\ tailIndex' = tailIndex /\ entries' = entries
      /\ tailIndex % BLOCK_SIZE = 0 /\ ~Between /\ Between' /\ Inserted' = Inserted - 1
  <2>1. /\ ppc = "requisition" /\ ppc' = "rewound" /\ tailIndex' = tailIndex /\ entries' = entries
        /\ tailIndex % BLOCK_SIZE = 0 /\ tailIndex \div BLOCK_SIZE \in Int
    <3>1. tailIndex \in Int /\ BLOCK_SIZE \in Nat \ {0}
      BY InsertedIs DEF Types
    <3>2. tailIndex \div BLOCK_SIZE \in Int
      BY <3>1, DivMod
    <3> QED BY <3>2 DEF NoBlock, counts, Types, Positions
  <2> QED BY <2>1 DEF Between, Inserted
<1>2. TailSet((LastTail + (-1)) % cap)
  <2>1. LastTail + (-1) = LastTail - 1
    BY BackIn DEF Types
  <2> QED BY <2>1, IndexSteps DEF Types, LastTail
<1>3. Capacity(blockIndex)' = cap /\ NextEntry' = Back(1) /\ \A j \in Int : Back(j)' = Back(j + 1)
  <2>1. -1 \in {1, -1} /\ 0 - (-1) = 1 /\ \A j \in Int : j - (-1) = j + 1
    OBVIOUS
  <2>2. Shape
    BY DEF Types
  <2>3. Capacity(blockIndex)' = cap /\ NextEntry' = Back(0 - (-1)) /\ \A j \in Int : Back(j)' = Back(j - (-1))
    BY <1>2, <2>1, <2>2, BackMoves
  <2>4. \A j \in Int : Back(j)' = Back(j + 1)
    BY <2>1, <2>3
  <2>5. NextEntry' = Back(1)
    BY <2>1, <2>3
  <2> QED BY <2>3, <2>4, <2>5
<1>4. /\ cap \in Nat /\ cap >= 2 /\ \A j \in Int : Back(j) \in 1 .. Len(entries)
      /\ \A j \in Int : Back(j + cap) = Back(j)
  BY BackIn DEF Types
<1>5. /\ Inserted \in Nat /\ BLOCK_SIZE \in Nat /\ BLOCK_SIZE >= 2 /\ tailIndex = (Inserted - 1) * BLOCK_SIZE
      /\ Inserted >= 1
  BY <1>1, InsertedIs DEF Types
<1>6. entries[Back(1)].value = Null
  BY <1>1 DEF Indexed, Pending
<1>7. PICK n \in 0 .. cap : Filled(n)
  BY DEF Indexed, Filling
<1>8. /\ n <= Inserted /\ n >= 1 /\ (Inserted >= 2 => n >= 2)
      /\ \A j \in 1 .. n : entries[Back(j)].key = (Inserted - j) * BLOCK_SIZE
      /\ \A j \in n + 1 .. cap : Unused(Back(j))
  BY <1>1, <1>5, <1>7 DEF Filled, Keyed
<1>9. /\ \A i, j \in 1 .. cap : Back(i) = Back(j) => i = j
      /\ \A e \in 1 .. Len(entries) : \E j \in 1 .. cap : Back(j) = e
  BY DEF Indexed, Distinct
<1>10. cap \in Nat /\ cap >= 2 /\ n \in 0 .. cap
  BY <1>4
<1> HIDE DEF cap
<1>11. /\ \A j \in 1 .. cap : j = cap => Back(j)' = Back(1)
       /\ \A j \in 1 .. cap - 1 : Back(j)' = Back(j + 1) /\ j + 1 \in 1 .. cap
  <2>1. 1 \in Int /\ \A j \in 1 .. cap : j \in Int /\ (j # cap => j + 1 \in 1 .. cap)
    BY <1>10
  <2>2. Back(1 + cap) = Back(1)
    BY <1>4, <2>1
  <2>3. ASSUME NEW j \in 1 .. cap, j = cap PROVE Back(j)' = Back(1)
    <3>1. j \in Int /\ j + 1 = 1 + cap
      BY <1>10, <2>3
    <3>2. Back(j)' = Back(j + 1)
      BY <1>3, <3>1
    <3> QED BY <2>2, <3>1, <3>2
  <2>4. \A j \in 1 .. cap - 1 : j \in Int /\ j \in 1 .. cap /\ j # cap
    BY <1>10
  <2> QED BY <1>3, <2>1, <2>3, <2>4
<1>12. entries[Back(1)].key = tailIndex
  <2>1. 1 \in 1 .. n
    BY <1>8, <1>10
  <2> QED BY <1>5, <1>8, <2>1
<1>13. Filling'
  <2>1. PICK k \in 0 .. cap : k = n - 1
    <3>1. n - 1 \in 0 .. cap
      BY <1>8, <1>10
    <3> QED BY <3>1
  <2>2. ASSUME NEW j \in 1 .. k PROVE entries'[Back(j)'].key = (Inserted' - j) * BLOCK_SIZE
    <3>1. j \in 1 .. cap - 1 /\ j + 1 \in 1 .. n /\ Inserted - (j + 1) = Inserted' - j
      BY <1>1, <1>5, <1>10, <2>1
    <3>2. entries[Back(j + 1)].key = (Inserted - (j + 1)) * BLOCK_SIZE
      BY <1>8, <3>1
    <3> QED BY <1>1, <1>11, <3>1, <3>2
  <2>3. ASSUME NEW j \in k + 1 .. cap PROVE Unused(Back(j))' \/ (j = cap /\ Keyed(Back(j))')
    <3>1. CASE j = cap
      <4>1. Back(j)' = Back(1)
        BY <1>11, <3>1
      <4>2. entries'[Back(j)'].key = tailIndex' /\ entries'[Back(j)'].value = Null
        BY <1>1, <1>6, <1>12, <4>1
      <4> QED BY <1>1, <3>1, <4>2 DEF Keyed
    <3>2. CASE j # cap
      <4>1. j \in 1 .. cap - 1 /\ j + 1 \in n + 1 .. cap
        BY <1>10, <2>1, <3>2
      <4>2. Unused(Back(j + 1)) /\ Back(j)' = Back(j + 1)
        BY <1>8, <1>11, <4>1
      <4> QED BY <1>1, <4>2 DEF Unused, Valid
    <3> QED BY <3>1, <3>2
  <2>4. k <= Inserted' /\ (Inserted' >= 1 => k >= 1)
    BY <1>1, <1>5, <1>8, <1>10, <2>1
  <2>5. Filled(k)'
    BY <1>1, <1>3, <2>2, <2>3, <2>4 DEF Filled
  <2> QED BY <1>3, <2>1, <2>5 DEF Filling
<1>14. Pending'
  <2>1. entries'[NextEntry'].key = tailIndex' /\ entries'[NextEntry'].value = Null
    BY <1>1, <1>3, <1>6, <1>12
  <2>2. Keyed(NextEntry)'
    BY <1>1, <2>1 DEF Keyed
  <2> QED BY <1>1, <2>2 DEF Pending
<1>15. Distinct'
  <2>1. ASSUME NEW j \in 1 .. cap PROVE Back(j)' = Back(IF j = cap THEN 1 ELSE j + 1)
    <3>1. CASE j = cap
      BY <1>11, <3>1
    <3>2. CASE j # cap
      <4>1. j \in 1 .. cap - 1
        BY <1>10, <3>2
      <4> QED BY <1>11, <3>2, <4>1
    <3> QED BY <3>1, <3>2
  <2>2. ASSUME NEW i \in 1 .. cap, NEW j \in 1 .. cap, Back(i)' = Back(j)' PROVE i = j
    <3>1. PICK a \in 1 .. cap : a = IF i = cap THEN 1 ELSE i + 1
      BY <1>10
    <3>2. PICK b \in 1 .. cap : b = IF j = cap THEN 1 ELSE j + 1
      BY <1>10
    <3>3. a = b
      BY <1>9, <2>1, <2>2, <3>1, <3>2
    <3> QED BY <1>10, <3>1, <3>2, <3>3
  <2>3. ASSUME NEW e \in 1 .. Len(entries) PROVE \E j \in 1 .. cap : Back(j)' = e
    <3>1. PICK i \in 1 .. cap : Back(i) = e
      BY <1>9
    <3>2. PICK j \in 1 .. cap : i = IF j = cap THEN 1 ELSE j + 1
      <4>1. CASE i = 1
        <5>1. cap \in 1 .. cap
          BY <1>10
        <5> QED BY <4>1, <5>1
      <4>2. CASE i # 1
        <5>1. i - 1 \in 1 .. cap /\ i - 1 # cap /\ (i - 1) + 1 = i
          BY <1>10, <4>2
        <5> QED BY <5>1
      <4> QED BY <4>1, <4>2
    <3> QED BY <2>1, <3>1, <3>2
  <2> QED BY <1>1, <1>3, <2>2, <2>3 DEF Distinct
<1>16. \A h \in 1 .. Len(headers') - 1 : Replaced(h)'
  <2>1. Turned
    BY <1>1, SameKeysTurned
  <2>2. Capacity(blockIndex)' = Capacity(blockIndex)
    BY <1>3 DEF cap
  <2> QED BY <1>2, <2>1, <2>2, ReplacedAll DEF TailSet
<1> QED BY <1>13, <1>14, <1>15, <1>16 DEF Indexed

\* The order stays when no index and no number of entries changes.
LEMMA DistinctFrame ==
    ASSUME Types, Indexed, UNCHANGED headers, Len(entries') = Len(entries)
    PROVE  Distinct'
<1>1. /\ Capacity(blockIndex)' = Capacity(blockIndex) /\ Capacity(blockIndex) \in Nat
      /\ \A j \in 1 .. Capacity(blockIndex) : Back(j)' = Back(j)
  BY SameOrder, BackIn DEF Types
<1>2. /\ \A i, j \in 1 .. Capacity(blockIndex) : Back(i) = Back(j) => i = j
      /\ \A e \in 1 .. Len(entries) : \E j \in 1 .. Capacity(blockIndex) : Back(j) = e
  BY DEF Indexed, Distinct
<1>3. \A i, j \in 1 .. Capacity(blockIndex) : Back(i)' = Back(j)' => i = j
  BY <1>1, <1>2
<1>4. \A e \in 1 .. Len(entries') : \E j \in 1 .. Capacity(blockIndex) : Back(j)' = e
  BY <1>1, <1>2
<1> QED BY <1>1, <1>3, <1>4 DEF Distinct

\* The entry gets its block.
LEMMA StoreBlockKeeps == ASSUME Types, Indexed, StoreBlock PROVE Indexed'
<1> DEFINE cap == Capacity(blockIndex)
           x == Back(1)
<1>1. /\ ppc = "value" /\ ppc' = "construct" /\ tailIndex' = tailIndex /\ headers' = headers
      /\ tailIndex % BLOCK_SIZE = 0 /\ ~Between /\ Inserted' = Inserted
  BY DEF StoreBlock, counts, Types, Positions, Between, Inserted
<1>2. /\ Capacity(blockIndex)' = cap /\ cap \in Nat /\ cap >= 2
      /\ \A j \in Int : Back(j)' = Back(j) /\ Back(j) \in 1 .. Len(entries)
      /\ x = EntryAt(blockIndex, headers[blockIndex].tail)
  BY <1>1, SameOrder, BackIn DEF Types
<1>3. /\ Inserted \in Nat /\ Inserted >= 1
  BY <1>1, InsertedIs DEF Types
<1>4. x \in 1 .. Len(entries)
  <2>1. 1 \in Int
    OBVIOUS
  <2> QED BY <1>2, <2>1
<1>5. EntrySet(x, [key |-> entries[x].key, value |-> newBlock])
  BY <1>2, IndexSteps DEF Types
<1>6. /\ Len(entries') = Len(entries) /\ entries'[x].key = entries[x].key
      /\ \A e \in 1 .. Len(entries) : e # x => entries'[e] = entries[e]
  BY <1>5 DEF EntrySet
<1>7. PICK n \in 0 .. cap : Filled(n)
  BY DEF Indexed, Filling
<1>8. /\ n <= Inserted /\ n >= 1
      /\ \A j \in 1 .. n : entries[Back(j)].key = (Inserted - j) * BLOCK_SIZE
      /\ \A j \in n + 1 .. cap : Unused(Back(j))
  BY <1>1, <1>3, <1>7 DEF Filled, Keyed
<1>9. \A i, j \in 1 .. cap : Back(i) = Back(j) => i = j
  BY DEF Indexed, Distinct
<1>10. cap \in Nat /\ cap >= 2 /\ n \in 0 .. cap
  BY <1>2
<1>11. \A e \in 1 .. Len(entries) : entries'[e].key = entries[e].key
  BY <1>6
<1> HIDE DEF cap, x
<1>12. Filling'
  <2>1. ASSUME NEW j \in 1 .. n PROVE entries'[Back(j)'].key = (Inserted' - j) * BLOCK_SIZE
    <3>1. j \in Int
      OBVIOUS
    <3>2. Back(j)' = Back(j) /\ Back(j) \in 1 .. Len(entries)
      BY <1>2, <3>1
    <3> QED BY <1>1, <1>8, <1>11, <3>2
  <2>2. ASSUME NEW j \in n + 1 .. cap PROVE Unused(Back(j))'
    <3>1. j \in Int /\ j \in 1 .. cap /\ 1 \in 1 .. cap /\ j # 1
      BY <1>8, <1>10
    <3>2. Back(j)' = Back(j) /\ Back(j) \in 1 .. Len(entries)
      BY <1>2, <3>1
    <3>3. Back(j) # x
      BY <1>9, <3>1 DEF x
    <3>4. entries'[Back(j)'] = entries[Back(j)]
      BY <1>6, <3>2, <3>3
    <3> QED BY <1>8, <3>4 DEF Unused, Valid
  <2>3. n <= Inserted' /\ (Inserted' >= 1 => n >= 1) /\ ppc' # "requisition"
    BY <1>1, <1>8
  <2>4. Filled(n)'
    BY <1>2, <2>1, <2>2, <2>3 DEF Filled
  <2> QED BY <1>2, <2>4 DEF Filling
<1>13. Pending'
  BY <1>1 DEF Pending
<1>14. Distinct'
  BY <1>1, <1>6, DistinctFrame
<1>15. \A h \in 1 .. Len(headers') - 1 : Replaced(h)'
  <2>1. Turned
    BY <1>11, SameKeysTurned
  <2>2. Capacity(blockIndex)' = Capacity(blockIndex)
    BY <1>2 DEF cap
  <2> QED BY <1>1, <2>1, <2>2, ReplacedAll
<1> QED BY <1>12, <1>13, <1>14, <1>15 DEF Indexed

\* new_block_index: the index is full, and the old one goes on leading to its entries.
LEMMA NewBlockIndexKeeps == ASSUME Types, Indexed, NewBlockIndex PROVE Indexed'
<1> DEFINE cap == Capacity(blockIndex)
           len == Len(entries)
<1>1. /\ ppc = "insert" /\ ~HasRoom(NextEntry) /\ ppc' = ppc /\ tailIndex' = tailIndex /\ Inserted' = Inserted
  BY DEF NewBlockIndex, counts, producer, Inserted
<1>2. Regrown
  BY IndexSteps DEF Types
<1>3. /\ blockIndex' = blockIndex + 1 /\ Capacity(blockIndex)' = cap + cap
      /\ \A j \in 1 .. cap : Back(j)' = Back(j)
      /\ \A j \in cap + 1 .. cap + cap : Back(j)' = len + cap + cap + 1 - j
  BY <1>2, BackGrows DEF Types
<1>4. /\ \A h \in 1 .. Len(headers) : headers'[h] = headers[h]
      /\ Len(headers') = blockIndex + 1 /\ blockIndex = Len(headers) /\ blockIndex \in Nat
      /\ Len(entries') = len + cap
      /\ \A e \in 1 .. len : entries'[e] = entries[e]
      /\ \A e \in len + 1 .. len + cap : entries'[e] = [key |-> INVALID_BLOCK_BASE, value |-> Null]
  BY <1>2, LastHeader DEF Regrown, blockIndex, Types
<1>5. /\ cap \in Nat /\ cap >= 2 /\ Back(cap) = NextEntry /\ len \in Nat
      /\ \A j \in Int : Back(j) \in 1 .. len
  BY BackIn, Lengths DEF Types
<1>6. PICK n \in 0 .. cap : Filled(n)
  BY DEF Indexed, Filling
<1>7. /\ n <= Inserted
      /\ \A j \in 1 .. n : entries[Back(j)].key = (Inserted - j) * BLOCK_SIZE
      /\ \A j \in n + 1 .. cap : entries[Back(j)].value = Null
  BY <1>6 DEF Filled, Unused, Keyed
<1>8. Inserted \in Nat /\ BLOCK_SIZE \in Nat
  BY InsertedIs DEF Types
<1>9. /\ \A i, j \in 1 .. cap : Back(i) = Back(j) => i = j
      /\ \A e \in 1 .. len : \E j \in 1 .. cap : Back(j) = e
  BY DEF Indexed, Distinct
<1>10. n = cap
  <2> SUFFICES ASSUME n # cap PROVE FALSE
    OBVIOUS
  <2> HIDE DEF cap
  <2>1. cap \in n + 1 .. cap
    BY <1>5
  <2>2. entries[NextEntry].value = Null
    BY <1>5, <1>7, <2>1
  <2> QED BY <1>1, <2>2 DEF HasRoom
<1>11. \A j \in 1 .. cap : Valid(Back(j))
  <2> SUFFICES ASSUME NEW j \in 1 .. cap PROVE Valid(Back(j))
    OBVIOUS
  <2> HIDE DEF cap
  <2>1. j \in 1 .. n /\ Inserted - j \in Nat
    BY <1>5, <1>7, <1>8, <1>10
  <2>2. entries[Back(j)].key = (Inserted - j) * BLOCK_SIZE
    BY <1>7, <2>1
  <2>3. entries[Back(j)].key \in Nat
    BY <1>8, <2>1, <2>2
  <2> QED BY <2>3 DEF Valid, INVALID_BLOCK_BASE
<1>12. Replaced(blockIndex)
  <2>1. \A p \in 0 .. cap - 1 : Valid(EntryAt(blockIndex, p))
    <3> SUFFICES ASSUME NEW p \in 0 .. cap - 1 PROVE Valid(EntryAt(blockIndex, p))
      OBVIOUS
    <3>1. PICK j \in 1 .. cap : EntryAt(blockIndex, p) = Back(j)
      BY PlaceIsBack DEF Types
    <3> QED BY <1>11, <3>1
  <2>2. Aligned(blockIndex)
    BY LastAligned
  <2>3. 1 \in Nat /\ cap = 1 * cap
    BY <1>5
  <2> QED BY <2>1, <2>2, <2>3 DEF Replaced
<1> HIDE DEF cap, len
<1>13. Filling'
  <2>1. ASSUME NEW j \in 1 .. n PROVE entries'[Back(j)'].key = (Inserted' - j) * BLOCK_SIZE
    <3>1. j \in Int
      OBVIOUS
    <3>2. Back(j)' = Back(j) /\ Back(j) \in 1 .. len
      BY <1>3, <1>5, <1>10, <3>1
    <3> QED BY <1>1, <1>4, <1>7, <3>2
  <2>2. ASSUME NEW j \in n + 1 .. cap + cap PROVE Unused(Back(j))'
    <3>1. Back(j)' = len + cap + cap + 1 - j
      BY <1>3, <1>10
    <3>2. len + cap + cap + 1 - j \in len + 1 .. len + cap
      BY <1>5, <1>10
    <3>3. entries'[Back(j)'] = [key |-> INVALID_BLOCK_BASE, value |-> Null]
      BY <1>4, <3>1, <3>2
    <3> QED BY <3>3 DEF Unused, Valid
  <2>3. n <= Inserted' /\ (Inserted' >= 1 => n >= 1) /\ ppc' # "requisition"
    BY <1>1, <1>5, <1>7, <1>10
  <2>4. Filled(n)'
    BY <1>3, <2>1, <2>2, <2>3 DEF Filled
  <2>5. n \in 0 .. cap + cap
    BY <1>5
  <2> QED BY <1>3, <2>4, <2>5 DEF Filling
<1>14. Pending'
  BY <1>1 DEF Pending
<1>15. Distinct'
  <2>1. ASSUME NEW j \in 1 .. cap + cap
        PROVE  \/ j \in 1 .. cap /\ Back(j)' = Back(j) /\ Back(j) \in 1 .. len
               \/ j \in cap + 1 .. cap + cap /\ Back(j)' = len + cap + cap + 1 - j
    <3>1. CASE j <= cap
      <4>1. j \in 1 .. cap /\ j \in Int
        BY <1>5, <3>1
      <4> QED BY <1>3, <1>5, <4>1
    <3>2. CASE ~(j <= cap)
      <4>1. j \in cap + 1 .. cap + cap
        BY <1>5, <3>2
      <4> QED BY <1>3, <4>1
    <3> QED BY <3>1, <3>2
  <2>2. ASSUME NEW i \in 1 .. cap + cap, NEW j \in 1 .. cap + cap, Back(i)' = Back(j)' PROVE i = j
    <3>1. CASE i \in 1 .. cap /\ j \in 1 .. cap
      <4>1. Back(i)' = Back(i) /\ Back(j)' = Back(j)
        BY <1>3, <3>1
      <4>2. Back(i) = Back(j)
        BY <2>2, <4>1
      <4> QED BY <1>9, <3>1, <4>2
    <3>2. CASE i \notin 1 .. cap /\ j \notin 1 .. cap
      <4>1. Back(i)' = len + cap + cap + 1 - i /\ Back(j)' = len + cap + cap + 1 - j
        BY <2>1, <3>2
      <4>2. len + cap + cap + 1 - i = len + cap + cap + 1 - j
        BY <2>2, <4>1
      <4> QED BY <1>5, <4>2
    <3>3. CASE i \in 1 .. cap /\ j \notin 1 .. cap
      <4>1. Back(i)' \in 1 .. len /\ Back(j)' = len + cap + cap + 1 - j
        <5>1. i \in Int
          OBVIOUS
        <5> QED BY <1>3, <1>5, <2>1, <3>3, <5>1
      <4>2. len + cap + cap + 1 - j \in 1 .. len
        BY <2>2, <4>1
      <4> QED BY <1>5, <4>2
    <3>4. CASE i \notin 1 .. cap /\ j \in 1 .. cap
      <4>1. Back(j)' \in 1 .. len /\ Back(i)' = len + cap + cap + 1 - i
        <5>1. j \in Int
          OBVIOUS
        <5> QED BY <1>3, <1>5, <2>1, <3>4, <5>1
      <4>2. len + cap + cap + 1 - i \in 1 .. len
        BY <2>2, <4>1
      <4> QED BY <1>5, <4>2
    <3> QED BY <3>1, <3>2, <3>3, <3>4
  <2>3. ASSUME NEW e \in 1 .. len + cap PROVE \E j \in 1 .. cap + cap : Back(j)' = e
    <3>1. CASE e <= len
      <4>1. PICK j \in 1 .. cap : Back(j) = e
        BY <1>5, <1>9, <3>1
      <4>2. Back(j)' = e /\ j \in 1 .. cap + cap
        BY <1>3, <1>5, <4>1
      <4> QED BY <4>2
    <3>2. CASE ~(e <= len)
      <4>1. PICK j \in cap + 1 .. cap + cap : j = len + cap + cap + 1 - e
        <5>1. len + cap + cap + 1 - e \in cap + 1 .. cap + cap
          BY <1>5, <3>2
        <5> QED BY <5>1
      <4>2. j \in 1 .. cap + cap /\ len + cap + cap + 1 - j = e
        BY <1>5, <4>1
      <4>3. Back(j)' = e
        BY <1>3, <4>2
      <4> QED BY <4>2, <4>3
    <3> QED BY <3>1, <3>2
  <2> QED BY <1>3, <1>4, <2>2, <2>3 DEF Distinct
<1>16. \A h \in 1 .. Len(headers') - 1 : Replaced(h)'
  <2> SUFFICES ASSUME NEW h \in 1 .. blockIndex PROVE Replaced(h)'
    BY <1>4
  <2>1. h \in 1 .. Len(headers) /\ (h = blockIndex \/ h \in 1 .. Len(headers) - 1)
    BY <1>4
  <2>2. Replaced(h)
    BY <1>12, <2>1 DEF Indexed
  <2>3. headers'[h].index = headers[h].index
    BY <1>4, <2>1
  <2>4. Turned
    BY <1>4, SameKeysTurned DEF len
  <2>5. 2 \in {1, 2} /\ Capacity(blockIndex)' = 2 * Capacity(blockIndex)
    BY <1>3, <1>5 DEF cap
  <2> QED BY <2>1, <2>2, <2>3, <2>4, <2>5, ReplacedOn
<1> QED BY <1>13, <1>14, <1>15, <1>16 DEF Indexed

\* The blocks begun up to an index are those begun up to the next, one more at the end of a block.
LEMMA NextIndex ==
    ASSUME NEW b \in Nat \ {0, 1}, NEW t \in Nat
    PROVE  /\ (t + 1) % b # 0 => (t + 1) \div b = t \div b /\ (t + 1) % b = (t % b) + 1
           /\ (t + 1) % b = 0 => (t + 1) \div b = (t \div b) + 1 /\ t % b = b - 1
           /\ t % b = 0 => (t + 1) % b # 0
<1> DEFINE d == t \div b
           m == t % b
<1>1. d \in Int /\ m \in 0 .. b - 1 /\ t = d * b + m
  BY DivMod
<1> HIDE DEF d, m
<1>2. CASE m + 1 < b
  <2>1. t + 1 = d * b + (m + 1) /\ m + 1 \in 0 .. b - 1
    BY <1>1, <1>2
  <2>2. (d * b + (m + 1)) % b = m + 1 /\ (d * b + (m + 1)) \div b = d
    BY <1>1, <2>1, DivModUnique
  <2>3. (t + 1) % b = m + 1 /\ (t + 1) \div b = d /\ m + 1 # 0
    BY <1>1, <2>1, <2>2
  <2> QED BY <2>3 DEF d, m
<1>3. CASE ~(m + 1 < b)
  <2>1. m = b - 1 /\ t + 1 = (d + 1) * b + 0 /\ 0 \in 0 .. b - 1 /\ d + 1 \in Int /\ m # 0
    BY <1>1, <1>3
  <2>2. ((d + 1) * b + 0) % b = 0 /\ ((d + 1) * b + 0) \div b = d + 1
    BY <2>1, DivModUnique
  <2>3. (t + 1) % b = 0 /\ (t + 1) \div b = d + 1
    BY <2>1, <2>2
  <2> QED BY <2>1, <2>3 DEF d, m
<1> QED BY <1>2, <1>3

LEMMA PublishOnward == ASSUME Types, Publish PROVE Onward
<1>1. /\ ppc = "publish" /\ ppc' = "idle" /\ tailIndex' = tailIndex + 1 /\ tailIndex \in Nat
      /\ BLOCK_SIZE \in Nat \ {0, 1} /\ tailIndex \div BLOCK_SIZE \in Int
  <2>1. tailIndex \in Nat /\ BLOCK_SIZE \in Nat \ {0}
    BY InsertedIs DEF Types
  <2>2. tailIndex \div BLOCK_SIZE \in Int
    BY <2>1, DivMod
  <2> QED BY <2>1, <2>2, ProducerAssumption DEF Publish
<1>2. Inserted = (tailIndex \div BLOCK_SIZE) + 1 /\ ~Between
  BY <1>1 DEF Inserted, Between
<1>3. Inserted' = ((tailIndex + 1) \div BLOCK_SIZE) + (IF (tailIndex + 1) % BLOCK_SIZE # 0 THEN 1 ELSE 0)
  BY <1>1 DEF Inserted
<1>4. /\ (tailIndex + 1) % BLOCK_SIZE # 0 => (tailIndex + 1) \div BLOCK_SIZE = tailIndex \div BLOCK_SIZE
      /\ (tailIndex + 1) % BLOCK_SIZE = 0 => (tailIndex + 1) \div BLOCK_SIZE = (tailIndex \div BLOCK_SIZE) + 1
  BY <1>1, NextIndex
<1>5. Inserted' = Inserted
  <2>1. CASE (tailIndex + 1) % BLOCK_SIZE # 0
    BY <1>2, <1>3, <1>4, <2>1
  <2>2. CASE (tailIndex + 1) % BLOCK_SIZE = 0
    BY <1>1, <1>2, <1>3, <1>4, <2>2
  <2> QED BY <2>1, <2>2
<1> QED BY <1>1, <1>2, <1>5 DEF Onward

LEMMA BuildsOnward == ASSUME Types, Builds PROVE Onward
<1>1. CASE Enqueue
  BY <1>1 DEF Enqueue, counts, Onward, Inserted, Between
<1>2. CASE NoBlockIndex
  BY <1>2 DEF NoBlockIndex, counts, Onward, Inserted, Between
<1>3. CASE \E b \in Blocks \ inUse : Requisition(b)
  BY <1>3 DEF Requisition, counts, Onward, Inserted, Between
<1>4. CASE Construct
  BY <1>4 DEF Construct, counts, Onward, Inserted, Between
<1>5. CASE Destroy
  BY <1>5 DEF Destroy, Quiet, counts, Onward, Inserted, Between
<1>6. CASE DestroyNext
  BY <1>6 DEF DestroyNext, counts, Onward, Inserted, Between
<1>7. CASE DestroyEnd
  BY <1>7 DEF DestroyEnd, counts, Onward, Inserted, Between
<1> QED BY <1>1, <1>2, <1>3, <1>4, <1>5, <1>6, <1>7, PublishOnward DEF Builds

LEMMA SameOnward == UNCHANGED <<tailIndex, ppc>> => Onward
  BY DEF Onward, Inserted, Between

LEMMA SameRelinked == UNCHANGED entries => Relinked
  BY DEF Relinked

LEMMA IndexedStep == Types /\ Indexed /\ [Next]_vars => Indexed'
<1> SUFFICES ASSUME Types, Indexed, [Next]_vars PROVE Indexed'
  OBVIOUS
<1>1. ASSUME UNCHANGED index, Onward PROVE Indexed'
  BY <1>1, SameRelinked, IndexedFrame DEF index
<1>2. CASE Builds
  BY <1>1, <1>2, IndexFrame, BuildsOnward
<1>3. ASSUME NEW c \in Consumers, Reads(c) PROVE Indexed'
  <2>1. UNCHANGED <<tailIndex, ppc>>
    BY <1>3 DEF Reads, LoadOvercommit, Filter, Count, Recheck, Overcommit, Claim, LoadHeader, LoadTail,
                FindEntry, Move, SetEmpty, ReturnBlock, counts, producer
  <2> QED BY <1>1, <1>3, <2>1, IndexFrame, SameOnward
<1>4. ASSUME NEW c \in Consumers, Unlink(c) PROVE Indexed'
  <2>1. UNCHANGED <<tailIndex, ppc, headers>> /\ local[c].entry \in 1 .. Len(entries)
    BY <1>4 DEF Unlink, counts, producer, Types, Positions
  <2>2. EntrySet(local[c].entry, [key |-> entries[local[c].entry].key, value |-> Null])
    BY <1>4, <2>1, IndexSteps DEF Types
  <2>3. Relinked
    BY <2>2 DEF EntrySet, Relinked
  <2> QED BY <2>1, <2>3, SameOnward, IndexedFrame
<1>5. CASE ClearEntry
  <2>1. EntrySet(NextEntry, [key |-> entries[NextEntry].key, value |-> Null]) /\ UNCHANGED headers
    BY <1>5, IndexSteps DEF Types, ClearEntry
  <2>2. Relinked
    BY <2>1 DEF EntrySet, Relinked
  <2>3. Onward
    BY <1>5 DEF ClearEntry, counts, Onward, Inserted, Between
  <2> QED BY <2>1, <2>2, <2>3, IndexedFrame
<1>6. CASE UNCHANGED vars
  <2>1. UNCHANGED <<index, tailIndex, ppc>>
    BY <1>6 DEF vars, counts, producer
  <2> QED BY <1>1, <2>1, SameOnward
<1>7. CASE Enqueue \/ Produce \/ Destroy \/ DestroyNext \/ DestroyEnd
  BY <1>2, <1>5, <1>7, InsertKeyKeeps, StoreTailKeeps, NoBlockKeeps, StoreBlockKeeps, NewBlockIndexKeeps
     DEF Produce, Builds
<1>8. ASSUME NEW c \in Consumers, LoadOvercommit(c) \/ Consume(c) PROVE Indexed'
  BY <1>3, <1>4, <1>8 DEF Consume, Reads
<1> QED BY <1>6, <1>7, <1>8 DEF Next, Terminated

LEMMA IndexedInit == Init => Indexed
<1> SUFFICES ASSUME Init PROVE Indexed
  OBVIOUS
<1> DEFINE length == IMPLICIT_INITIAL_INDEX_SIZE
<1>1. /\ Len(headers) = 1 /\ Len(headers[1].index) = length /\ headers[1].tail = length - 1
      /\ Len(entries) = length
      /\ \A p \in 1 .. length :
           headers[1].index[p] = p /\ entries[p] = [key |-> INVALID_BLOCK_BASE, value |-> Null]
  BY InitIndex
<1>2. length \in Nat \ {0} /\ BLOCK_SIZE \in Nat \ {0}
  BY ProducerAssumption
<1>3. blockIndex = 1 /\ Capacity(blockIndex) = length /\ LastTail = length - 1
  BY <1>1 DEF blockIndex, Capacity, LastTail
<1> HIDE DEF length
<1>4. ASSUME NEW j \in 1 .. length PROVE Back(j) = length - j + 1 /\ length - j + 1 \in 1 .. length
  <2>1. LastTail + 1 - j = length - j /\ length - j \in 0 .. length - 1 /\ length - j + 1 \in 1 .. length
    BY <1>2, <1>3
  <2>2. (length - j) % length = length - j
    BY <1>2, <2>1, Wrap
  <2>3. Back(j) = headers[1].index[((length - j) % length) + 1]
    BY <1>3, <2>1 DEF Back, EntryAt
  <2>4. Back(j) = headers[1].index[length - j + 1]
    BY <2>2, <2>3
  <2> QED BY <1>1, <2>1, <2>4
<1>5. tailIndex = 0 /\ ppc = "idle" /\ tailIndex % BLOCK_SIZE = 0 /\ Inserted = 0
  <2>1. tailIndex = 0 /\ ppc = "idle"
    BY DEF Init
  <2>2. (0 * BLOCK_SIZE + 0) % BLOCK_SIZE = 0 /\ (0 * BLOCK_SIZE + 0) \div BLOCK_SIZE = 0
    BY <1>2, DivModUnique
  <2>3. 0 * BLOCK_SIZE + 0 = 0
    BY <1>2
  <2> QED BY <2>1, <2>2, <2>3 DEF Inserted
<1>6. Filling
  <2>1. \A j \in 1 .. length : Unused(Back(j))
    BY <1>1, <1>4 DEF Unused, Valid
  <2>2. Filled(0)
    BY <1>2, <1>3, <1>5, <2>1 DEF Filled
  <2>3. 0 \in 0 .. length
    BY <1>2
  <2> QED BY <1>3, <2>2, <2>3 DEF Filling
<1>7. Pending
  BY <1>5 DEF Pending
<1>8. Distinct
  <2>1. ASSUME NEW i \in 1 .. length, NEW j \in 1 .. length, Back(i) = Back(j) PROVE i = j
    <3>1. length - i + 1 = length - j + 1
      BY <1>4, <2>1
    <3> QED BY <1>2, <3>1
  <2>2. ASSUME NEW e \in 1 .. length PROVE \E j \in 1 .. length : Back(j) = e
    <3>1. PICK j \in 1 .. length : j = length - e + 1
      <4>1. length - e + 1 \in 1 .. length
        BY <1>2
      <4> QED BY <4>1
    <3>2. length - j + 1 = e
      BY <1>2, <3>1
    <3> QED BY <1>4, <3>2
  <2> QED BY <1>1, <1>3, <2>1, <2>2 DEF Distinct
<1>9. \A h \in 1 .. Len(headers) - 1 : Replaced(h)
  BY <1>1
<1> QED BY <1>6, <1>7, <1>8, <1>9 DEF Indexed

-----------------------------------------------------------------------------
(* The counters.                                                           *)

\* The calls that have counted.
Counted == {c \in Consumers : Deciding(c)}

\* Only calls that have counted are committed.
LEMMA CommittedFinite ==
    ASSUME NEW t
    PROVE  /\ IsFiniteSet(Counted) /\ IsFiniteSet(Committed(t))
           /\ Cardinality(Counted) \in Nat /\ Cardinality(Committed(t)) \in Nat
           /\ Cardinality(Committed(t)) <= Cardinality(Counted)
<1>1. IsFiniteSet(Consumers) /\ Counted \subseteq Consumers
  BY ProducerAssumption DEF Counted
<1>2. IsFiniteSet(Counted)
  BY <1>1, FS_Subset
<1>3. Committed(t) \subseteq Counted
  BY DEF Committed, Counted, Deciding
<1>4. IsFiniteSet(Committed(t)) /\ Cardinality(Committed(t)) <= Cardinality(Counted)
  BY <1>2, <1>3, FS_Subset
<1> QED BY <1>2, <1>4, FS_CardinalityType

\* A consumer that does not decide, before or after a step, and what it loaded.
Aside(c) ==
    /\ ~Deciding(c) /\ ~Deciding(c)'
    /\ pc'[c] \in {"filter", "count"} => local'[c].overcommit <= dequeueOvercommit

\* A step that leaves the counters and those that decide.
LEMMA CountingFrame ==
    ASSUME Types, Counting, tailIndex' \in Nat, tailIndex' >= tailIndex,
           UNCHANGED <<headIndex, dequeueOptimisticCount, dequeueOvercommit>>,
           \A c \in Consumers : Aside(c) \/ (pc'[c] = pc[c] /\ local'[c] = local[c])
    PROVE  Counting'
<1>1. tailIndex \in Nat
  BY DEF Types, Shape, ControlShape
<1>2. Counted' = Counted
  BY DEF Counted, Aside, Deciding
<1>3. \A t \in Nat : Committed(t)' = Committed(t)
  BY DEF Committed, Aside, Deciding
<1>4. Balance'
  BY <1>2 DEF Counting, Balance, Counted
<1>5. OvercommitBelowCount'
  BY DEF Counting, OvercommitBelowCount, Aside, Deciding
<1>6. ClaimsBelow'
  BY <1>1, <1>3 DEF Counting, ClaimsBelow
<1>7. \A c \in Consumers :
        pc'[c] \in {"filter", "count"} => local'[c].overcommit <= dequeueOvercommit'
  BY DEF Counting, Aside
<1> QED BY <1>4, <1>5, <1>6, <1>7 DEF Counting

\* A step of one consumer, as the others see it.
Only(c) == \A d \in Consumers : d # c => pc'[d] = pc[d] /\ local'[d] = local[d]

LEMMA OnlyOne ==
    ASSUME Types, NEW c \in Consumers, LoadOvercommit(c) \/ Consume(c)
    PROVE  Only(c)
  BY DEF LoadOvercommit, Consume, Filter, Count, Recheck, Overcommit, Claim, LoadHeader, LoadTail, FindEntry,
         Move, SetEmpty, Unlink, ReturnBlock, Goto, Set, Return, Types, Shape, ControlShape, Only

\* The optimistic count: the call is one more that decides.
LEMMA CountKeeps ==
    ASSUME Types, Counting, NEW c \in Consumers, Count(c)
    PROVE  Counting'
<1> DEFINE my == dequeueOptimisticCount
           oc == local[c].overcommit
<1>1. /\ my \in Nat /\ oc \in Nat /\ headIndex \in Nat /\ dequeueOvercommit \in Nat /\ tailIndex \in Nat
      /\ pc \in [Consumers -> {"idle", "filter", "count", "recheck", "over", "claim", "header",
                             "tail", "entry", "move", "empty", "unlink", "return"}]
      /\ local \in [Consumers -> [overcommit : Nat, my : Nat, index : Nat, header : Nat, tail : Nat,
                                entry : Nat \union Blocks \union {Null}]]
  BY DEF Types, Shape, ControlShape
<1>2. /\ pc[c] = "count" /\ pc' = [pc EXCEPT ![c] = "recheck"]
      /\ local' = [local EXCEPT ![c] = [local[c] EXCEPT !.my = my]]
      /\ dequeueOptimisticCount' = my + 1
      /\ UNCHANGED <<tailIndex, headIndex, dequeueOvercommit>>
  BY DEF Count, Goto, Set
<1>3. /\ pc'[c] = "recheck" /\ local'[c].my = my /\ local'[c].overcommit = oc
      /\ \A d \in Consumers : d # c => pc'[d] = pc[d] /\ local'[d] = local[d]
  BY <1>1, <1>2
<1>4. oc <= dequeueOvercommit
  BY <1>2 DEF Counting
<1>5. my = headIndex + dequeueOvercommit + Cardinality(Counted) /\ Cardinality(Counted) \in Nat
  BY CommittedFinite DEF Counting, Balance, Counted
<1>6. Cardinality(Counted') = Cardinality(Counted) + 1
  <2>1. Counted' = Counted \union {c} /\ c \notin Counted
    BY <1>2, <1>3 DEF Counted, Deciding
  <2> QED BY <2>1, CommittedFinite, FS_AddElement
<1>7. Balance'
  BY <1>1, <1>2, <1>5, <1>6 DEF Balance, Counted
<1>8. OvercommitBelowCount'
  BY <1>1, <1>3, <1>4, <1>5 DEF Counting, OvercommitBelowCount
<1>9. ASSUME NEW t \in Nat, t >= tailIndex
      PROVE  headIndex + Cardinality(Committed(t)') <= t
  <2>1. headIndex + Cardinality(Committed(t)) <= t
    BY <1>9 DEF Counting, ClaimsBelow
  <2>2. /\ Cardinality(Committed(t)) \in Nat /\ IsFiniteSet(Committed(t))
        /\ Cardinality(Committed(t)) <= Cardinality(Counted)
    BY CommittedFinite
  <2>3. CASE my - oc < t
    <3>1. Committed(t)' = Committed(t) \union {c} /\ c \notin Committed(t)
      BY <1>2, <1>3, <2>3 DEF Committed
    <3>2. Cardinality(Committed(t)') = Cardinality(Committed(t)) + 1
      BY <2>2, <3>1, FS_AddElement
    <3> QED BY <1>1, <1>4, <1>5, <2>2, <2>3, <3>2
  <2>4. CASE ~(my - oc < t)
    <3>1. Committed(t)' = Committed(t)
      BY <1>2, <1>3, <2>4 DEF Committed
    <3> QED BY <2>1, <3>1
  <2> QED BY <2>3, <2>4
<1>10. ClaimsBelow'
  BY <1>2, <1>9 DEF ClaimsBelow
<1>11. \A d \in Consumers :
        pc'[d] \in {"filter", "count"} => local'[d].overcommit <= dequeueOvercommit'
  BY <1>2, <1>3 DEF Counting
<1> QED BY <1>7, <1>8, <1>10, <1>11 DEF Counting

\* The second test: a call that fails it is committed no more.
LEMMA RecheckKeeps ==
    ASSUME Types, Counting, NEW c \in Consumers, Recheck(c)
    PROVE  Counting'
<1>1. /\ tailIndex \in Nat /\ headIndex \in Nat
      /\ \A d \in Consumers : local[d].my \in Nat /\ local[d].overcommit \in Nat
      /\ pc \in [Consumers -> {"idle", "filter", "count", "recheck", "over", "claim", "header",
                             "tail", "entry", "move", "empty", "unlink", "return"}]
  BY DEF Types, Shape, ControlShape
<1>2. /\ pc[c] = "recheck"
      /\ pc' = [pc EXCEPT ![c] = IF local[c].my - local[c].overcommit < tailIndex THEN "claim" ELSE "over"]
      /\ UNCHANGED <<tailIndex, headIndex, dequeueOptimisticCount, dequeueOvercommit, local>>
  BY DEF Recheck, Goto, counts
<1>3. /\ pc'[c] = IF local[c].my - local[c].overcommit < tailIndex THEN "claim" ELSE "over"
      /\ \A d \in Consumers : d # c => pc'[d] = pc[d]
  BY <1>1, <1>2
<1>4. Counted' = Counted
  BY <1>2, <1>3 DEF Counted, Deciding
<1>5. Balance'
  BY <1>2, <1>4 DEF Counting, Balance, Counted
<1>6. OvercommitBelowCount'
  BY <1>2, <1>3 DEF Counting, OvercommitBelowCount
<1>7. ASSUME NEW t \in Nat, t >= tailIndex
      PROVE  headIndex + Cardinality(Committed(t)') <= t
  <2>1. headIndex + Cardinality(Committed(t)) <= t
    BY <1>7 DEF Counting, ClaimsBelow
  <2>2. Committed(t)' \subseteq Committed(t)
    <3> SUFFICES ASSUME NEW d \in Committed(t)' PROVE d \in Committed(t)
      OBVIOUS
    <3>1. d \in Consumers /\ (pc'[d] = "claim" \/ (pc'[d] = "recheck" /\ local[d].my - local[d].overcommit < t))
      BY <1>2 DEF Committed
    <3>2. CASE d = c
      <4>1. local[c].my - local[c].overcommit < tailIndex
        BY <1>3, <3>1, <3>2
      <4>2. local[c].my - local[c].overcommit < t
        BY <1>1, <1>7, <4>1
      <4> QED BY <1>2, <3>2, <4>2 DEF Committed
    <3>3. CASE d # c
      BY <1>3, <3>1, <3>3 DEF Committed
    <3> QED BY <3>2, <3>3
  <2>3. /\ IsFiniteSet(Committed(t)) /\ Cardinality(Committed(t)) \in Nat
    BY CommittedFinite
  <2>4. Cardinality(Committed(t)') <= Cardinality(Committed(t)) /\ Cardinality(Committed(t)') \in Nat
    BY <2>2, <2>3, FS_Subset, FS_CardinalityType
  <2> QED BY <1>1, <2>1, <2>3, <2>4
<1>8. ClaimsBelow'
  BY <1>2, <1>7 DEF ClaimsBelow
<1>9. \A d \in Consumers :
        pc'[d] \in {"filter", "count"} => local'[d].overcommit <= dequeueOvercommit'
  BY <1>2, <1>3 DEF Counting
<1> QED BY <1>5, <1>6, <1>8, <1>9 DEF Counting

\* A call that has decided moves from the decided to the head or the overcommit.
LEMMA DecidedKeeps ==
    ASSUME Types, Counting, NEW c \in Consumers, Overcommit(c) \/ Claim(c)
    PROVE  Counting'
<1>1. /\ tailIndex \in Nat /\ headIndex \in Nat /\ dequeueOvercommit \in Nat /\ dequeueOptimisticCount \in Nat
      /\ \A d \in Consumers : local[d].my \in Nat /\ local[d].overcommit \in Nat
      /\ pc \in [Consumers -> {"idle", "filter", "count", "recheck", "over", "claim", "header",
                             "tail", "entry", "move", "empty", "unlink", "return"}]
  BY DEF Types, Shape, ControlShape
<1>2. /\ pc[c] \in {"over", "claim"} /\ pc'[c] \in {"idle", "header"}
      /\ \A d \in Consumers : d # c => pc'[d] = pc[d] /\ local'[d] = local[d]
      /\ UNCHANGED <<tailIndex, dequeueOptimisticCount>>
  <2>1. \A d \in Consumers : d # c => pc'[d] = pc[d] /\ local'[d] = local[d]
    BY OnlyOne DEF Consume, Only
  <2> QED BY <1>1, <2>1 DEF Overcommit, Claim, Goto, Return
<1>3. \/ pc[c] = "over" /\ dequeueOvercommit' = dequeueOvercommit + 1 /\ headIndex' = headIndex
      \/ pc[c] = "claim" /\ headIndex' = headIndex + 1 /\ dequeueOvercommit' = dequeueOvercommit
  BY DEF Overcommit, Claim
<1>4. Cardinality(Counted') = Cardinality(Counted) - 1 /\ Cardinality(Counted) \in Nat
  <2>1. Counted' = Counted \ {c} /\ c \in Counted
    BY <1>2 DEF Counted, Deciding
  <2> QED BY <2>1, CommittedFinite, FS_RemoveElement
<1>5. Balance'
  BY <1>1, <1>2, <1>3, <1>4 DEF Counting, Balance, Counted
<1>6. OvercommitBelowCount'
  BY <1>2 DEF Counting, OvercommitBelowCount
<1>7. ASSUME NEW t \in Nat, t >= tailIndex
      PROVE  headIndex' + Cardinality(Committed(t)') <= t
  <2>1. headIndex + Cardinality(Committed(t)) <= t
    BY <1>7 DEF Counting, ClaimsBelow
  <2>2. /\ IsFiniteSet(Committed(t)) /\ Cardinality(Committed(t)) \in Nat
    BY CommittedFinite
  <2>3. CASE pc[c] = "over"
    <3>1. Committed(t)' = Committed(t)
      BY <1>2, <2>3 DEF Committed
    <3> QED BY <1>3, <2>1, <2>3, <3>1
  <2>4. CASE pc[c] = "claim"
    <3>1. Committed(t)' = Committed(t) \ {c} /\ c \in Committed(t)
      BY <1>2, <2>4 DEF Committed
    <3>2. Cardinality(Committed(t)') = Cardinality(Committed(t)) - 1
      BY <2>2, <3>1, FS_RemoveElement
    <3> QED BY <1>1, <1>3, <2>1, <2>2, <2>4, <3>2
  <2> QED BY <1>2, <2>3, <2>4
<1>8. ClaimsBelow'
  BY <1>2, <1>7 DEF ClaimsBelow
<1>9. ASSUME NEW d \in Consumers, pc'[d] \in {"filter", "count"}
      PROVE  local'[d].overcommit <= dequeueOvercommit'
  <2>1. d # c /\ pc[d] \in {"filter", "count"} /\ local'[d] = local[d]
    BY <1>2, <1>9
  <2>2. local[d].overcommit <= dequeueOvercommit
    BY <2>1 DEF Counting
  <2> QED BY <1>1, <1>3, <2>1, <2>2
<1> QED BY <1>5, <1>6, <1>8, <1>9 DEF Counting

LEMMA CountingStep == Types /\ Counting /\ [Next]_vars => Counting'
<1> SUFFICES ASSUME Types, Counting, [Next]_vars PROVE Counting'
  OBVIOUS
<1>1. /\ tailIndex \in Nat /\ dequeueOvercommit \in Nat
      /\ pc \in [Consumers -> {"idle", "filter", "count", "recheck", "over", "claim", "header",
                             "tail", "entry", "move", "empty", "unlink", "return"}]
      /\ local \in [Consumers -> [overcommit : Nat, my : Nat, index : Nat, header : Nat, tail : Nat,
                                entry : Nat \union Blocks \union {Null}]]
  BY DEF Types, Shape, ControlShape
<1>2. CASE UNCHANGED <<headIndex, dequeueOptimisticCount, dequeueOvercommit, pc, local>>
           /\ tailIndex' \in {tailIndex, tailIndex + 1}
  <2>1. tailIndex' \in Nat /\ tailIndex' >= tailIndex
    BY <1>1, <1>2
  <2> QED BY <1>2, <2>1, CountingFrame
<1>3. ASSUME NEW c \in Consumers, LoadOvercommit(c) \/ Consume(c), Aside(c), UNCHANGED counts PROVE Counting'
  <2>1. tailIndex' \in Nat /\ tailIndex' >= tailIndex
    BY <1>1, <1>3 DEF counts
  <2>2. Only(c)
    BY <1>3, OnlyOne
  <2> QED BY <1>3, <2>1, <2>2, CountingFrame DEF Only, counts
<1>4. ASSUME NEW c \in Consumers, LoadOvercommit(c) PROVE Counting'
  <2>1. pc[c] = "idle" /\ pc'[c] = "filter" /\ local'[c].overcommit = dequeueOvercommit /\ UNCHANGED counts
    BY <1>1, <1>4 DEF LoadOvercommit, Goto, Set
  <2>2. Aside(c)
    BY <1>1, <2>1 DEF Aside, Deciding
  <2> QED BY <1>3, <1>4, <2>1, <2>2
<1>5. ASSUME NEW c \in Consumers, Filter(c) PROVE Counting'
  <2>1. pc[c] = "filter" /\ UNCHANGED counts
        /\ ((pc'[c] = "count" /\ local'[c] = local[c]) \/ pc'[c] = "idle")
    BY <1>1, <1>5 DEF Filter, Goto, Return
  <2>2. Aside(c)
    BY <2>1 DEF Counting, Aside, Deciding
  <2> QED BY <1>3, <1>5, <2>1, <2>2 DEF Consume
<1>6. ASSUME NEW c \in Consumers,
             \/ LoadHeader(c) \/ LoadTail(c) \/ FindEntry(c) \/ Move(c)
             \/ SetEmpty(c) \/ Unlink(c) \/ ReturnBlock(c)
      PROVE  Counting'
  <2>1. /\ pc[c] \in {"header", "tail", "entry", "move", "empty", "unlink", "return"} /\ UNCHANGED counts
        /\ pc'[c] \in {"idle", "header", "tail", "entry", "move", "empty", "unlink", "return"}
    BY <1>1, <1>6 DEF LoadHeader, LoadTail, FindEntry, Move, SetEmpty, Unlink, ReturnBlock, Goto, Set, Return
  <2>2. Aside(c)
    BY <2>1 DEF Aside, Deciding
  <2> QED BY <1>3, <1>6, <2>1, <2>2 DEF Consume
<1>7. CASE Enqueue \/ Produce \/ Destroy \/ DestroyNext \/ DestroyEnd \/ UNCHANGED vars
  BY <1>2, <1>7 DEF Produce, Enqueue, InsertKey, NewBlockIndex, NoBlockIndex, StoreTail, Requisition, NoBlock,
                    ClearEntry, StoreBlock, Construct, Publish, Destroy, DestroyNext, DestroyEnd,
                    counts, consumers, vars
<1> QED
  BY <1>4, <1>5, <1>6, <1>7, CountKeeps, RecheckKeeps, DecidedKeeps DEF Next, Consume, Terminated

LEMMA CountingInit == Init => Counting
<1> SUFFICES ASSUME Init PROVE Counting
  OBVIOUS
<1>1. Counted = {} /\ \A t \in Nat : Committed(t) = {}
  BY DEF Init, Counted, Committed, Deciding
<1>2. Cardinality({}) = 0
  BY FS_EmptySet
<1>3. /\ tailIndex = 0 /\ headIndex = 0 /\ dequeueOptimisticCount = 0 /\ dequeueOvercommit = 0
      /\ Cardinality(Counted) = 0 /\ \A t \in Nat : Cardinality(Committed(t)) = 0
  BY <1>1, <1>2 DEF Init
<1>4. Balance
  <2>1. Balance <=> dequeueOptimisticCount = headIndex + dequeueOvercommit + Cardinality(Counted)
    BY DEF Balance, Counted
  <2> QED BY <1>3, <2>1
<1>5. ClaimsBelow
  BY <1>3 DEF ClaimsBelow
<1> QED BY <1>4, <1>5 DEF Init, Counting, OvercommitBelowCount

\* The claims are below the tail of now, above all those that are done.
LEMMA HeadBehind == Types /\ Counting => HeadBehindTail
<1> SUFFICES ASSUME Types, Counting PROVE HeadBehindTail
  OBVIOUS
<1>1. tailIndex \in Nat /\ headIndex \in Nat
  BY DEF Types, Shape, ControlShape
<1>2. headIndex + Cardinality(Committed(tailIndex)) <= tailIndex
  BY <1>1 DEF Counting, ClaimsBelow
<1>3. Cardinality(Committed(tailIndex)) \in Nat
  BY CommittedFinite
<1> QED BY <1>1, <1>2, <1>3 DEF HeadBehindTail

\* A call that claims has an element to claim.
LEMMA ClaimIsBelow == ASSUME Types, Counting, NEW c \in Consumers, Claim(c) PROVE headIndex < tailIndex
<1>1. tailIndex \in Nat /\ headIndex \in Nat
  BY DEF Types, Shape, ControlShape
<1>2. headIndex + Cardinality(Committed(tailIndex)) <= tailIndex
  BY <1>1 DEF Counting, ClaimsBelow
<1>3. c \in Committed(tailIndex)
  BY DEF Claim, Committed
<1>4. Cardinality(Committed(tailIndex)) \in Nat /\ IsFiniteSet(Committed(tailIndex))
  BY CommittedFinite
<1>5. Cardinality(Committed(tailIndex)) # 0
  BY <1>3, <1>4, FS_EmptySet
<1> QED BY <1>1, <1>2, <1>4, <1>5

-----------------------------------------------------------------------------
(* Indices and their blocks.                                               *)

LEMMA BaseIs ==
    ASSUME NEW i \in Nat
    PROVE  Base(i) \in 0 .. i /\ Base(i) % BLOCK_SIZE = 0 /\ i \in IndicesOf(Base(i))
<1> DEFINE d == i \div BLOCK_SIZE
           m == i % BLOCK_SIZE
<1>1. BLOCK_SIZE \in Nat \ {0} /\ d \in Nat /\ m \in 0 .. BLOCK_SIZE - 1 /\ i = d * BLOCK_SIZE + m
  <2>1. BLOCK_SIZE \in Nat \ {0}
    BY ProducerAssumption
  <2>2. d \in Nat
    BY <2>1
  <2> QED BY <2>1, <2>2, DivMod
<1>2. Base(i) = i - m
  BY DEF Base
<1> HIDE DEF d, m
<1>3. (d * BLOCK_SIZE + 0) % BLOCK_SIZE = 0
  <2>1. d \in Int /\ 0 \in 0 .. BLOCK_SIZE - 1
    BY <1>1
  <2> QED BY <1>1, <2>1, DivModUnique
<1>4. Base(i) = d * BLOCK_SIZE + 0 /\ d * BLOCK_SIZE \in Nat
  BY <1>1, <1>2
<1>5. Base(i) \in 0 .. i /\ i \in Base(i) .. Base(i) + BLOCK_SIZE - 1
  BY <1>1, <1>2, <1>4
<1> QED BY <1>3, <1>4, <1>5 DEF IndicesOf

LEMMA BaseOnly ==
    ASSUME NEW k \in Nat, k % BLOCK_SIZE = 0, NEW i \in IndicesOf(k)
    PROVE  i \in Nat /\ Base(i) = k
<1> DEFINE d == k \div BLOCK_SIZE
<1>1. BLOCK_SIZE \in Nat \ {0} /\ d \in Int /\ k = d * BLOCK_SIZE + 0
  <2>1. BLOCK_SIZE \in Nat \ {0}
    BY ProducerAssumption
  <2>2. d \in Int /\ k = d * BLOCK_SIZE + (k % BLOCK_SIZE)
    BY <2>1, DivMod
  <2> QED BY <2>1, <2>2
<1> HIDE DEF d
<1>2. i - k \in 0 .. BLOCK_SIZE - 1 /\ i = d * BLOCK_SIZE + (i - k) /\ i \in Nat
  BY <1>1 DEF IndicesOf
<1>3. i % BLOCK_SIZE = i - k
  BY <1>1, <1>2, DivModUnique
<1> QED BY <1>2, <1>3 DEF Base

\* Blocks begin a whole block apart.
LEMMA NextBase ==
    ASSUME NEW k \in Nat, NEW t \in Nat, k % BLOCK_SIZE = 0, t % BLOCK_SIZE = 0, k < t
    PROVE  k + BLOCK_SIZE <= t
<1>1. BLOCK_SIZE \in Nat \ {0}
  BY ProducerAssumption
<1>2. PICK x \in Int : k = x * BLOCK_SIZE
  <2> DEFINE q == k \div BLOCK_SIZE
  <2>1. q \in Int /\ k = q * BLOCK_SIZE + (k % BLOCK_SIZE)
    BY <1>1, DivMod
  <2> HIDE DEF q
  <2>2. k = q * BLOCK_SIZE
    BY <1>1, <2>1
  <2> QED BY <2>1, <2>2
<1>3. PICK y \in Int : t = y * BLOCK_SIZE
  <2> DEFINE q == t \div BLOCK_SIZE
  <2>1. q \in Int /\ t = q * BLOCK_SIZE + (t % BLOCK_SIZE)
    BY <1>1, DivMod
  <2> HIDE DEF q
  <2>2. t = q * BLOCK_SIZE
    BY <1>1, <2>1
  <2> QED BY <2>1, <2>2
<1>4. CASE y - x >= 1
  <2>1. BLOCK_SIZE * (y - x) >= BLOCK_SIZE
    BY <1>1, <1>4, Product
  <2> QED BY <1>1, <1>2, <1>3, <2>1
<1>5. CASE y = x
  BY <1>2, <1>3, <1>5
<1>6. CASE x - y >= 1
  <2>1. BLOCK_SIZE * (x - y) >= BLOCK_SIZE
    BY <1>1, <1>6, Product
  <2> QED BY <1>1, <1>2, <1>3, <2>1
<1> QED BY <1>4, <1>5, <1>6

\* The indices of a block that are in a set: how many there can be, and one more.
LEMMA IndicesIn ==
    ASSUME NEW k \in Nat, NEW P
    PROVE  /\ IsFiniteSet(IndicesOf(k) \intersect P)
           /\ Cardinality(IndicesOf(k) \intersect P) \in 0 .. BLOCK_SIZE
           /\ IndicesOf(k) \subseteq P <=> Cardinality(IndicesOf(k) \intersect P) = BLOCK_SIZE
<1>1. IsFiniteSet(IndicesOf(k)) /\ Cardinality(IndicesOf(k)) = BLOCK_SIZE /\ BLOCK_SIZE \in Nat
  <2>1. BLOCK_SIZE \in Nat /\ BLOCK_SIZE >= 1 /\ k \in Int /\ k + BLOCK_SIZE - 1 \in Int
    BY ProducerAssumption
  <2>2. /\ IsFiniteSet(k .. k + BLOCK_SIZE - 1)
        /\ Cardinality(k .. k + BLOCK_SIZE - 1) =
             IF k > k + BLOCK_SIZE - 1 THEN 0 ELSE (k + BLOCK_SIZE - 1) - k + 1
    BY <2>1, FS_Interval
  <2> QED BY <2>1, <2>2 DEF IndicesOf
<1> DEFINE All == IndicesOf(k)
             T == All \intersect P
<1>2. T \in SUBSET All
  OBVIOUS
<1> HIDE DEF All
<1>3. IsFiniteSet(All) /\ Cardinality(All) = BLOCK_SIZE
  BY <1>1 DEF All
<1>4. IsFiniteSet(T) /\ Cardinality(T) <= Cardinality(All) /\ (Cardinality(All) = Cardinality(T) => All = T)
  BY <1>2, <1>3, FS_Subset
<1>5. Cardinality(T) \in Nat
  BY <1>4, FS_CardinalityType
<1>6. All \subseteq P => All = T
  OBVIOUS
<1>7. All = T => All \subseteq P
  OBVIOUS
<1> HIDE DEF T
<1>8. All \subseteq P <=> Cardinality(T) = BLOCK_SIZE
  BY <1>3, <1>4, <1>6, <1>7
<1> QED BY <1>1, <1>3, <1>4, <1>5, <1>8 DEF All, T

LEMMA OneMoreIndex ==
    ASSUME NEW k \in Nat, NEW P, NEW i \in IndicesOf(k), i \notin P
    PROVE  Cardinality(IndicesOf(k) \intersect (P \union {i})) = Cardinality(IndicesOf(k) \intersect P) + 1
<1> DEFINE T == IndicesOf(k) \intersect P
<1>1. IsFiniteSet(T) /\ i \notin T
  BY IndicesIn
<1>2. IndicesOf(k) \intersect (P \union {i}) = T \union {i}
  OBVIOUS
<1> HIDE DEF T
<1>3. Cardinality(T \union {i}) = Cardinality(T) + 1
  BY <1>1, FS_AddElement
<1> QED BY <1>2, <1>3 DEF T

-----------------------------------------------------------------------------
(* What the steps do to the blocks in the index.                           *)

\* The same blocks are in the index, in the same entries.
SameLinks ==
    /\ Len(entries) <= Len(entries')
    /\ \A e \in 1 .. Len(entries) : Linked(e) => entries'[e] = entries[e]
    /\ \A e \in 1 .. Len(entries') : entries'[e].value # Null => e \in 1 .. Len(entries) /\ Linked(e)

ValidStay == \A e \in 1 .. Len(entries) : Valid(e) => entries'[e].key # INVALID_BLOCK_BASE

LEMMA SameEntries == ASSUME Types, entries' = entries PROVE SameLinks /\ ValidStay
<1>1. Len(entries) \in Nat
  BY Lengths DEF Types
<1> QED BY <1>1 DEF SameLinks, ValidStay, Linked, Valid

\* The producer changes only entries that have no block.
LEMMA OneEntry ==
    ASSUME Types, NEW e \in 1 .. Len(entries), NEW r, EntrySet(e, r),
           ~Linked(e), r.value = Null, r.key # INVALID_BLOCK_BASE \/ r.key = entries[e].key
    PROVE  SameLinks /\ ValidStay
<1>1. Len(entries) \in Nat
  BY Lengths DEF Types
<1> QED BY <1>1 DEF EntrySet, SameLinks, ValidStay, Linked, Valid

LEMMA LinksStep ==
    ASSUME Types, Indexed, [Next]_vars
    PROVE  ValidStay /\ (SameLinks \/ StoreBlock \/ \E c \in Consumers : Unlink(c))
<1>1. Shape /\ tailIndex \in Nat
  BY DEF Types, Shape, ControlShape
<1>2. NextEntry \in 1 .. Len(entries)
  BY <1>1, LastHeader
<1>3. CASE UNCHANGED entries
  BY <1>3, SameEntries
<1>4. CASE InsertKey
  <2>1. EntrySet(NextEntry, [key |-> tailIndex, value |-> entries[NextEntry].value]) /\ HasRoom(NextEntry)
    BY <1>1, <1>4, IndexSteps DEF InsertKey
  <2>2. entries[NextEntry].value = Null
    BY <1>2, <2>1, RoomIsNull
  <2>3. tailIndex # INVALID_BLOCK_BASE
    BY <1>1 DEF INVALID_BLOCK_BASE
  <2> QED BY <1>2, <2>1, <2>2, <2>3, OneEntry DEF Linked
<1>5. CASE ClearEntry
  <2>1. EntrySet(NextEntry, [key |-> entries[NextEntry].key, value |-> Null]) /\ ppc = "rewound"
    BY <1>1, <1>5, IndexSteps DEF ClearEntry
  <2>2. entries[NextEntry].value = Null
    BY <2>1 DEF Indexed, Pending, Keyed
  <2> QED BY <1>2, <2>1, <2>2, OneEntry DEF Linked
<1>6. CASE NewBlockIndex
  <2>1. Regrown /\ Len(entries) \in Nat /\ Capacity(blockIndex) \in Nat
    BY <1>1, <1>6, IndexSteps, Lengths, LastHeader
  <2>2. /\ Len(entries') = Len(entries) + Capacity(blockIndex)
        /\ \A e \in 1 .. Len(entries) : entries'[e] = entries[e]
        /\ \A e \in Len(entries) + 1 .. Len(entries) + Capacity(blockIndex) : entries'[e].value = Null
    BY <2>1 DEF Regrown
  <2>3. \A e \in 1 .. Len(entries') :
          e \in 1 .. Len(entries) \/ e \in Len(entries) + 1 .. Len(entries) + Capacity(blockIndex)
    BY <2>1, <2>2
  <2> QED BY <2>1, <2>2, <2>3 DEF SameLinks, ValidStay, Linked, Valid
<1>7. CASE StoreBlock
  <2>1. PICK e \in 1 .. Len(entries) : EntrySet(e, [key |-> entries[e].key, value |-> newBlock])
    <3>1. EntryAt(blockIndex, headers[blockIndex].tail) \in 1 .. Len(entries)
      BY <1>1, LastHeader
    <3> QED BY <1>1, <1>7, <3>1, IndexSteps
  <2>2. ValidStay
    BY <2>1 DEF EntrySet, ValidStay, Valid
  <2> QED BY <1>7, <2>2
<1>8. ASSUME NEW c \in Consumers, Unlink(c) PROVE ValidStay
  <2>1. local[c].entry \in 1 .. Len(entries)
    BY <1>8 DEF Unlink, Types, Positions
  <2>2. EntrySet(local[c].entry, [key |-> entries[local[c].entry].key, value |-> Null])
    BY <1>1, <1>8, <2>1, IndexSteps
  <2> QED BY <2>2 DEF EntrySet, ValidStay, Valid
<1>9. CASE UNCHANGED vars
  BY <1>3, <1>9 DEF vars, index
<1>10. CASE StoreTail \/ NoBlock
  BY <1>3, <1>10 DEF StoreTail, NoBlock
<1>11. CASE Builds \/ \E c \in Consumers : Reads(c)
  BY <1>3, <1>11, IndexFrame DEF index
<1>12. \/ Builds \/ StoreTail \/ NoBlock \/ InsertKey \/ ClearEntry \/ NewBlockIndex \/ StoreBlock
       \/ \E c \in Consumers : Reads(c) \/ Unlink(c)
       \/ UNCHANGED vars
  BY DEF Next, Produce, Builds, Consume, Reads, Terminated
<1> QED BY <1>4, <1>5, <1>6, <1>7, <1>8, <1>9, <1>10, <1>11, <1>12

\* A consumer is done with no index and has no new one.
HoldsOn(c) == (Holding(c)' <=> Holding(c)) /\ (Holding(c) => local'[c].index = local[c].index)

LEMMA PastSame ==
    ASSUME UNCHANGED headIndex, \A c \in Consumers : HoldsOn(c)
    PROVE  Past' = Past
  BY DEF Past, HoldsOn

\* The blocks begun are the same, though an index goes by.
StoredOn ==
    /\ Stored' \in Nat /\ Stored' >= Stored
    /\ \A k \in 0 .. Stored' - 1 : k % BLOCK_SIZE = 0 => k \in 0 .. Stored - 1

LEMMA StoredIs ==
    ASSUME Types
    PROVE  /\ tailIndex \in Nat /\ BLOCK_SIZE \in Nat \ {0, 1}
           /\ Stored \in {tailIndex, tailIndex + 1}
  BY ProducerAssumption DEF Types, Shape, ControlShape, Stored

LEMMA StoredStep == ASSUME Types, [Next]_vars PROVE StoredOn \/ StoreBlock
<1>1. tailIndex \in Nat /\ BLOCK_SIZE \in Nat \ {0, 1} /\ Stored \in {tailIndex, tailIndex + 1}
  BY StoredIs
<1>2. CASE Stored' = Stored
  BY <1>1, <1>2 DEF StoredOn
<1>3. CASE Publish
  <2>1. Stored = tailIndex + 1 /\ tailIndex' = tailIndex + 1 /\ ppc' = "idle"
    BY <1>3 DEF Publish, Stored
  <2>2. CASE (tailIndex + 1) % BLOCK_SIZE = 0
    <3>1. Stored' = tailIndex + 1
      BY <2>1, <2>2 DEF Stored
    <3> QED BY <1>2, <2>1, <3>1
  <2>3. CASE (tailIndex + 1) % BLOCK_SIZE # 0
    <3>1. Stored' = tailIndex + 2
      BY <1>1, <2>1, <2>3 DEF Stored
    <3>2. ASSUME NEW k \in 0 .. tailIndex + 1, k % BLOCK_SIZE = 0 PROVE k \in 0 .. tailIndex
      BY <1>1, <2>3, <3>2
    <3>3. Stored' - 1 = tailIndex + 1 /\ Stored - 1 = tailIndex /\ Stored' >= Stored /\ Stored' \in Nat
      BY <1>1, <2>1, <3>1
    <3> QED BY <3>2, <3>3 DEF StoredOn
  <2> QED BY <2>2, <2>3
<1>4. CASE UNCHANGED tailIndex /\ ((ppc' \in {"construct", "publish"}) <=> (ppc \in {"construct", "publish"}))
  BY <1>2, <1>4 DEF Stored
<1>5. CASE Enqueue
  BY <1>2, <1>5 DEF Enqueue, counts, Stored
<1>6. CASE Produce /\ ~Publish /\ ~StoreBlock
  <2>1. UNCHANGED tailIndex /\ ((ppc' \in {"construct", "publish"}) <=> (ppc \in {"construct", "publish"}))
    BY <1>6 DEF Produce, InsertKey, NewBlockIndex, NoBlockIndex, StoreTail, Requisition, NoBlock,
                ClearEntry, Construct, counts, producer
  <2> QED BY <1>4, <2>1
<1>7. CASE Destroy \/ DestroyNext \/ DestroyEnd \/ UNCHANGED vars
  <2>1. UNCHANGED tailIndex /\ ((ppc' \in {"construct", "publish"}) <=> (ppc \in {"construct", "publish"}))
    BY <1>7 DEF Destroy, DestroyNext, DestroyEnd, Quiet, counts, producer, vars
  <2> QED BY <1>4, <2>1
<1>8. ASSUME NEW c \in Consumers, LoadOvercommit(c) \/ Consume(c) PROVE UNCHANGED <<tailIndex, ppc>>
  BY <1>8 DEF LoadOvercommit, Consume, Filter, Count, Recheck, Overcommit, Claim, LoadHeader, LoadTail,
              FindEntry, Move, SetEmpty, Unlink, ReturnBlock, counts, producer
<1>9. CASE \E c \in Consumers : LoadOvercommit(c) \/ Consume(c)
  BY <1>4, <1>8, <1>9
<1> QED BY <1>3, <1>5, <1>6, <1>7, <1>9 DEF Next, Terminated

LEMMA CoveredFrame ==
    ASSUME Types, Covered, IndexShape', SameLinks, StoredOn, Past \subseteq Past'
    PROVE  Covered'
<1>1. Len(entries) \in Nat /\ Len(entries') \in Nat
  <2>1. entries' \in Seq(Entry)
    BY DEF IndexShape
  <2> QED BY <2>1, Lengths, LenProperties DEF Types
<1> SUFFICES ASSUME NEW k \in 0 .. Stored' - 1, k % BLOCK_SIZE = 0
             PROVE  IndicesOf(k) \subseteq Past' \/ Reachable(k)'
  BY DEF Covered, IndicesOf
<1>2. IndicesOf(k) \subseteq Past \/ Reachable(k)
  BY DEF StoredOn, Covered
<1>3. ASSUME Reachable(k) PROVE Reachable(k)'
  <2>1. PICK e \in 1 .. Len(entries) : entries[e].key = k /\ Linked(e)
    BY <1>3 DEF Reachable
  <2>2. e \in 1 .. Len(entries') /\ entries'[e] = entries[e]
    BY <1>1, <2>1 DEF SameLinks
  <2> QED BY <2>1, <2>2 DEF Reachable, Linked
<1> QED BY <1>2, <1>3

LEMMA LinksFrame ==
    ASSUME Types, Links, SameLinks, StoredOn, Past' = Past, tailBlock' = tailBlock,
           \A e \in 1 .. Len(entries) : Linked(e) =>
              elementsCompletelyDequeued'[entries[e].value] = elementsCompletelyDequeued[entries[e].value],
           \A c \in Consumers : pc[c] = "unlink" => pc'[c] = pc[c] /\ local'[c] = local[c]
    PROVE  Links'
<1> SUFFICES ASSUME NEW e \in 1 .. Len(entries'), entries'[e].value # Null PROVE LinkKept(e)'
  BY DEF Links, Linked
<1>1. e \in 1 .. Len(entries) /\ Linked(e) /\ entries'[e] = entries[e]
  BY DEF SameLinks
<1>2. LinkKept(e)
  BY <1>1 DEF Links
<1>3. Stored \in Int /\ Stored' \in Int /\ Stored' >= Stored /\ BLOCK_SIZE \in Nat
  BY StoredIs DEF StoredOn
<1>4. entries[e].key \in 0 .. Stored - 1 /\ entries[e].key \in Int
  BY <1>2, <1>3 DEF LinkKept
<1>5. entries'[e].key \in 0 .. Stored' - 1 /\ entries'[e].key % BLOCK_SIZE = 0
  BY <1>1, <1>2, <1>3, <1>4 DEF LinkKept
<1>6. elementsCompletelyDequeued'[entries'[e].value] = Cardinality(IndicesOf(entries'[e].key) \intersect Past')
  BY <1>1, <1>2 DEF LinkKept
<1>7. IndicesOf(entries'[e].key) \subseteq Past' => \E c \in Consumers : pc'[c] = "unlink" /\ local'[c].entry = e
  BY <1>1, <1>2 DEF LinkKept
<1>8. entries'[e].key + BLOCK_SIZE >= Stored' => entries'[e].value = tailBlock'
  BY <1>1, <1>2, <1>3, <1>4 DEF LinkKept
<1> QED BY <1>5, <1>6, <1>7, <1>8 DEF LinkKept, IndicesOf

\* A consumer that a step leaves alone stays on track, if its blocks stay in the index.
LEMMA StaysOnTrack ==
    ASSUME Types, IndexKept, ValidStay, NEW d \in Consumers, OnTrack(d),
           pc'[d] = pc[d], local'[d] = local[d],
           headIndex' \in Nat, headIndex <= headIndex', Past \subseteq Past',
           \A e \in 1 .. Len(entries) :
              /\ Linked(e)
              /\ \/ Holding(d) /\ entries[e].key = Base(local[d].index)
                 \/ pc[d] = "unlink" /\ local[d].entry = e
              => entries'[e] = entries[e]
    PROVE  OnTrack(d)'
<1>1. headIndex \in Nat /\ local[d].index \in Nat
  BY DEF Types, Shape, ControlShape
<1>2. /\ pc[d] \in {"tail", "entry"} => local[d].header \in 1 .. Len(headers)
      /\ pc[d] \in {"move", "empty", "unlink"} => local[d].entry \in 1 .. Len(entries)
      /\ local[d].tail \in Int
  BY DEF Types, Shape, ControlShape, Positions
<1>3. Holding(d)' => local'[d].index < headIndex'
  BY <1>1 DEF OnTrack, Holding
<1>4. ASSUME NEW h \in 1 .. Len(headers)
      PROVE  Capacity(h)' = Capacity(h) /\ \A pos \in Int : EntryAt(h, pos)' = EntryAt(h, pos) /\ EntryAt(h, pos) \in 1 .. Len(entries)
  <2>1. headers'[h].index = headers[h].index
    BY DEF IndexKept
  <2>2. \A pos \in Int : EntryAt(h, pos) \in 1 .. Len(entries)
    BY EntryIn DEF Types
  <2> QED BY <2>1, <2>2 DEF Capacity, EntryAt
<1>5. ASSUME pc[d] \in {"tail", "entry"} PROVE Leads(local[d].header, Base(local[d].index))'
  <2>1. PICK h \in 1 .. Len(headers) : h = local[d].header
    BY <1>2, <1>5
  <2>2. PICK k : k = Base(local[d].index)
    OBVIOUS
  <2>3. Leads(h, k) /\ Holding(d)
    BY <1>5, <2>1, <2>2 DEF OnTrack, Holding
  <2>4. PICK p \in 0 .. Capacity(h) - 1 : Linked(EntryAt(h, p)) /\ entries[EntryAt(h, p)].key = k
    BY <2>3 DEF Leads
  <2>5. EntryAt(h, p)' = EntryAt(h, p) /\ EntryAt(h, p) \in 1 .. Len(entries) /\ p \in 0 .. Capacity(h)' - 1
    <3>1. p \in Int
      OBVIOUS
    <3> HIDE DEF EntryAt
    <3> QED BY <1>4, <3>1
  <2>6. entries'[EntryAt(h, p)] = entries[EntryAt(h, p)]
    BY <2>2, <2>3, <2>4, <2>5
  <2>7. Leads(h, k)'
    BY <2>4, <2>5, <2>6 DEF Leads, Linked
  <2>8. local'[d].header = h /\ Base(local'[d].index) = k
    BY <2>1, <2>2
  <2> QED BY <2>7, <2>8 DEF Leads
<1>6. ASSUME pc[d] = "entry" PROVE Valid(EntryAt(local[d].header, local[d].tail))'
  <2>1. PICK h \in 1 .. Len(headers) : h = local[d].header
    BY <1>2, <1>6
  <2>2. PICK p \in Int : p = local[d].tail
    BY <1>2
  <2>3. Valid(EntryAt(h, p))
    BY <1>6, <2>1, <2>2 DEF OnTrack
  <2>4. EntryAt(h, p)' = EntryAt(h, p) /\ EntryAt(h, p) \in 1 .. Len(entries)
    BY <1>4
  <2>5. Valid(EntryAt(h, p))'
    BY <2>3, <2>4 DEF ValidStay, Valid
  <2>6. local'[d].header = h /\ local'[d].tail = p
    BY <2>1, <2>2
  <2> QED BY <2>5, <2>6 DEF Valid, EntryAt, Capacity
<1>7. ASSUME pc[d] \in {"move", "empty"} PROVE Linked(local[d].entry)' /\ entries'[local'[d].entry].key = Base(local'[d].index)
  <2>1. Linked(local[d].entry) /\ entries[local[d].entry].key = Base(local[d].index) /\ Holding(d)
    BY <1>7 DEF OnTrack, Holding
  <2>2. entries'[local[d].entry] = entries[local[d].entry]
    BY <1>2, <1>7, <2>1
  <2> QED BY <2>1, <2>2 DEF Linked
<1>8. ASSUME pc[d] = "unlink" PROVE Linked(local[d].entry)' /\ IndicesOf(entries'[local'[d].entry].key) \subseteq Past'
  <2>1. Linked(local[d].entry) /\ IndicesOf(entries[local[d].entry].key) \subseteq Past
    BY <1>8 DEF OnTrack
  <2>2. entries'[local[d].entry] = entries[local[d].entry]
    BY <1>2, <1>8, <2>1
  <2> QED BY <2>1, <2>2 DEF Linked
<1> QED BY <1>3, <1>5, <1>6, <1>7, <1>8 DEF OnTrack, IndicesOf

LEMMA TrackingFrame ==
    ASSUME Types, Tracking, IndexKept, IndexShape', ValidStay, SameLinks, StoredOn, Past' = Past,
           headIndex' \in Nat, headIndex <= headIndex', tailBlock' = tailBlock,
           \A e \in 1 .. Len(entries) : Linked(e) =>
              elementsCompletelyDequeued'[entries[e].value] = elementsCompletelyDequeued[entries[e].value],
           \A c \in Consumers : pc[c] = "unlink" => pc'[c] = pc[c] /\ local'[c] = local[c],
           \A c \in Consumers : (pc'[c] = pc[c] /\ local'[c] = local[c]) \/ OnTrack(c)',
           Apart'
    PROVE  Tracking'
<1>1. Covered'
  BY CoveredFrame DEF Tracking
<1>2. Links'
  BY LinksFrame DEF Tracking
<1>3. ASSUME NEW d \in Consumers, pc'[d] = pc[d], local'[d] = local[d] PROVE OnTrack(d)'
  BY <1>3, StaysOnTrack DEF Tracking, SameLinks
<1>4. \A c \in Consumers : OnTrack(c)'
  BY <1>3
<1> QED BY <1>1, <1>2, <1>4 DEF Tracking

\* A step that leaves the blocks in the index and the consumers.
LEMMA TrackingAside ==
    ASSUME Types, Indexed, [Next]_vars, Tracking, SameLinks, StoredOn,
           UNCHANGED <<pc, local, headIndex, tailBlock>>,
           \A e \in 1 .. Len(entries) : Linked(e) =>
              elementsCompletelyDequeued'[entries[e].value] = elementsCompletelyDequeued[entries[e].value]
    PROVE  Tracking'
<1>1. IndexKept /\ IndexShape' /\ ValidStay
  BY IndexShapeStep, LinksStep
<1>2. headIndex \in Nat /\ headIndex' = headIndex
  BY DEF Types, Shape, ControlShape
<1>3. Past' = Past
  BY PastSame DEF HoldsOn, Holding
<1>4. Apart'
  BY DEF Tracking, Apart, Holding
<1> QED BY <1>1, <1>2, <1>3, <1>4, TrackingFrame

\* A block in the index belongs to this producer.
LEMMA LinkedInUse ==
    ASSUME Types, Placed, ppc \notin {"destroy", "gone"}, NEW e \in 1 .. Len(entries), Linked(e)
    PROVE  entries[e].value \in inUse /\ entries[e].value \in Blocks
<1>1. entries[e].value \in Blocks
  BY EntryTyped DEF Types, Linked
<1> QED BY <1>1 DEF Placed, HasPlace

LEMMA TrackingProduce ==
    ASSUME Types, Indexed, Tracking, Owning, [Next]_vars,
           Enqueue \/ Produce \/ Destroy \/ DestroyNext \/ DestroyEnd \/ UNCHANGED vars, ~StoreBlock
    PROVE  Tracking'
<1>1. SameLinks \/ \E c \in Consumers : Unlink(c)
  BY LinksStep
<1>2. UNCHANGED <<pc, local, headIndex, tailBlock>>
  BY DEF Produce, Enqueue, InsertKey, NewBlockIndex, NoBlockIndex, StoreTail, Requisition, NoBlock,
         ClearEntry, Construct, Publish, Destroy, DestroyNext, DestroyEnd, counts, memory, consumers, vars
<1>3. SameLinks
  <2> SUFFICES ASSUME NEW c \in Consumers, Unlink(c) PROVE FALSE
    BY <1>1
  <2>1. pc'[c] = "return" /\ pc[c] = "unlink"
    BY DEF Unlink, Goto, Types, Shape, ControlShape
  <2> QED BY <1>2, <2>1
<1>4. StoredOn
  BY StoredStep
<1>5. CASE \E b \in Blocks \ inUse : Requisition(b)
  <2>1. PICK b \in Blocks \ inUse : Requisition(b)
    BY <1>5
  <2>2. ppc = "requisition" /\ elementsCompletelyDequeued' = [elementsCompletelyDequeued EXCEPT ![b] = 0]
    BY <2>1 DEF Requisition
  <2>3. ASSUME NEW e \in 1 .. Len(entries), Linked(e)
        PROVE  elementsCompletelyDequeued'[entries[e].value] = elementsCompletelyDequeued[entries[e].value]
    <3>1. entries[e].value \in inUse /\ entries[e].value \in Blocks
      BY <2>2, <2>3, LinkedInUse DEF Owning
    <3> QED BY <2>1, <2>2, <3>1 DEF Types, Shape, MemoryShape
  <2> QED BY <1>2, <1>3, <1>4, <2>3, TrackingAside
<1>6. CASE ~ \E b \in Blocks \ inUse : Requisition(b)
  <2>1. UNCHANGED elementsCompletelyDequeued
    BY <1>6 DEF Produce, Enqueue, InsertKey, NewBlockIndex, NoBlockIndex, StoreTail, NoBlock,
         ClearEntry, Construct, Publish, Destroy, DestroyNext, DestroyEnd, memory, vars
  <2> QED BY <1>2, <1>3, <1>4, <2>1, TrackingAside
<1> QED BY <1>5, <1>6

\* The producer puts the new block into the index, for the elements from the tail on.
LEMMA StoreBlockIs ==
    ASSUME Types, Indexed, StoreBlock
    PROVE  /\ \E e \in 1 .. Len(entries) :
                /\ ~Linked(e) /\ entries'[e].key = tailIndex /\ entries'[e].value = newBlock
                /\ \A f \in 1 .. Len(entries) : f # e => entries'[f] = entries[f]
           /\ Len(entries') = Len(entries)
           /\ newBlock \in Blocks /\ newBlock # Null /\ ppc = "value"
           /\ tailIndex % BLOCK_SIZE = 0 /\ Stored = tailIndex /\ Stored' = tailIndex + 1
           /\ tailBlock' = newBlock
           /\ UNCHANGED <<elementsCompletelyDequeued, counts, consumers, headers>>
<1>1. /\ ppc = "value" /\ ppc' = "construct" /\ tailIndex' = tailIndex /\ tailBlock' = newBlock
      /\ UNCHANGED <<elementsCompletelyDequeued, counts, consumers, headers>>
  BY DEF StoreBlock, counts
<1>2. tailIndex % BLOCK_SIZE = 0 /\ newBlock # Null /\ newBlock \in Blocks
  BY <1>1 DEF Types, Shape, MemoryShape, Positions
<1>3. Stored = tailIndex /\ Stored' = tailIndex + 1
  BY <1>1, <1>2 DEF Stored
<1>4. ~Between /\ tailIndex = (Inserted - 1) * BLOCK_SIZE /\ Inserted \in Nat /\ Inserted >= 1
  <2>1. ~Between
    BY <1>1 DEF Between
  <2> QED BY <1>2, <2>1, InsertedIs DEF Types
<1> DEFINE e == Back(1)
<1>5. e \in 1 .. Len(entries) /\ e = EntryAt(blockIndex, headers[blockIndex].tail)
  <2>1. 1 \in Int
    OBVIOUS
  <2> QED BY <2>1, BackIn DEF Types
<1>6. EntrySet(e, [key |-> entries[e].key, value |-> newBlock])
  BY <1>5, IndexSteps DEF Types
<1>7. entries[e].key = tailIndex
  <2>1. PICK n \in 0 .. Capacity(blockIndex) : Filled(n)
    BY DEF Indexed, Filling
  <2>2. 1 \in 1 .. n
    BY <1>4, <2>1 DEF Filled
  <2> QED BY <1>4, <2>1, <2>2 DEF Filled
<1>8. ~Linked(e)
  BY <1>1 DEF Indexed, Pending, Linked
<1> HIDE DEF e
<1> QED BY <1>1, <1>2, <1>3, <1>5, <1>6, <1>7, <1>8 DEF EntrySet

LEMMA TrackingStoreBlock ==
    ASSUME Types, Indexed, Counting, Tracking, Owning, StoreBlock, [Next]_vars
    PROVE  Tracking'
<1> DEFINE T == tailIndex
<1>1. PICK e \in 1 .. Len(entries) :
        /\ ~Linked(e) /\ entries'[e].key = T /\ entries'[e].value = newBlock
        /\ \A f \in 1 .. Len(entries) : f # e => entries'[f] = entries[f]
  BY StoreBlockIs
<1>2. /\ Len(entries') = Len(entries)
      /\ newBlock \in Blocks /\ newBlock # Null /\ ppc = "value"
      /\ T % BLOCK_SIZE = 0 /\ Stored = T /\ Stored' = T + 1
      /\ tailBlock' = newBlock
      /\ UNCHANGED <<elementsCompletelyDequeued, headIndex, pc, local>>
  BY StoreBlockIs DEF counts, consumers
<1>3. T \in Nat /\ BLOCK_SIZE \in Nat \ {0, 1} /\ headIndex \in Nat /\ headIndex <= T
  BY StoredIs, HeadBehind DEF Types, Shape, ControlShape, HeadBehindTail
<1> HIDE DEF T
<1>4. Past' = Past
  BY <1>2, PastSame DEF HoldsOn, Holding
<1>5. \A f \in 1 .. Len(entries) : Linked(f) => entries'[f] = entries[f]
  BY <1>1
<1>6. Covered'
  <2> SUFFICES ASSUME NEW k \in 0 .. T, k % BLOCK_SIZE = 0 PROVE IndicesOf(k) \subseteq Past \/ Reachable(k)'
    BY <1>2, <1>3, <1>4 DEF Covered, IndicesOf
  <2>1. CASE k = T
    BY <1>1, <1>2, <2>1 DEF Reachable, Linked
  <2>2. CASE k # T
    <3>1. k \in 0 .. Stored - 1
      BY <1>2, <1>3, <2>2
    <3>2. IndicesOf(k) \subseteq Past \/ Reachable(k)
      BY <3>1 DEF Tracking, Covered
    <3> QED BY <1>2, <1>5, <3>2 DEF Reachable, Linked
  <2> QED BY <2>1, <2>2
<1>7. ASSUME NEW f \in 1 .. Len(entries), entries'[f].value # Null PROVE LinkKept(f)'
  <2>1. CASE f = e
    <3>1. T \in IndicesOf(T) /\ \A i \in IndicesOf(T) : i \notin Past
      BY <1>3 DEF IndicesOf, Past
    <3>2. IndicesOf(T) \intersect Past = {}
      BY <3>1
    <3>3. Cardinality(IndicesOf(T) \intersect Past) = 0
      BY <3>2, FS_EmptySet
    <3>4. elementsCompletelyDequeued'[newBlock] = 0
      BY <1>2 DEF Owning, CountedEmpty
    <3>5. T \in 0 .. Stored' - 1
      BY <1>2, <1>3
    <3>6. ~(IndicesOf(T) \subseteq Past)
      BY <3>1
    <3> QED BY <1>1, <1>2, <1>4, <2>1, <3>3, <3>4, <3>5, <3>6 DEF LinkKept, IndicesOf
  <2>2. CASE f # e
    <3>1. entries'[f] = entries[f] /\ Linked(f)
      BY <1>1, <1>7, <2>2 DEF Linked
    <3>2. LinkKept(f)
      BY <3>1 DEF Tracking, Links
    <3>3. entries[f].key \in 0 .. T - 1 /\ entries[f].key % BLOCK_SIZE = 0
      BY <1>2, <3>2 DEF LinkKept
    <3>4. entries[f].key + BLOCK_SIZE <= T
      <4>1. entries[f].key \in Nat /\ entries[f].key < T
        BY <1>3, <3>3
      <4> QED BY <1>2, <1>3, <3>3, <4>1, NextBase
    <3>5. entries[f].key \in 0 .. Stored' - 1 /\ ~(entries[f].key + BLOCK_SIZE >= Stored')
      BY <1>2, <1>3, <3>3, <3>4
    <3> QED BY <1>2, <1>4, <3>1, <3>2, <3>5 DEF LinkKept, IndicesOf
  <2> QED BY <2>1, <2>2
<1>8. Links'
  BY <1>2, <1>7 DEF Links, Linked
<1>9. ASSUME NEW d \in Consumers PROVE OnTrack(d)'
  <2>1. IndexKept /\ ValidStay
    BY IndexShapeStep, LinksStep
  <2>2. OnTrack(d) /\ headIndex' \in Nat /\ headIndex <= headIndex' /\ pc'[d] = pc[d] /\ local'[d] = local[d]
    BY <1>2, <1>3 DEF Tracking
  <2> QED BY <1>4, <1>5, <2>1, <2>2, StaysOnTrack
<1>10. Apart'
  BY <1>2 DEF Tracking, Apart, Holding
<1> QED BY <1>6, <1>8, <1>9, <1>10 DEF Tracking

-----------------------------------------------------------------------------
(* The consumers.                                                          *)

LEMMA PcTyped ==
    ASSUME Types
    PROVE  /\ pc \in [Consumers -> {"idle", "filter", "count", "recheck", "over", "claim", "header",
                                    "tail", "entry", "move", "empty", "unlink", "return"}]
           /\ local \in [Consumers -> [overcommit : Nat, my : Nat, index : Nat, header : Nat, tail : Nat,
                                       entry : Nat \union Blocks \union {Null}]]
           /\ headIndex \in Nat /\ tailIndex \in Nat
  BY DEF Types, Shape, ControlShape

LEMMA ConsumerLeaves ==
    ASSUME Types, NEW c \in Consumers, LoadOvercommit(c) \/ Consume(c)
    PROVE  /\ UNCHANGED <<tailIndex, ppc, newBlock, dtor, tailBlock, headers>> /\ ~StoreBlock /\ Only(c)
           /\ ~Unlink(c) => \A d \in Consumers : ~Unlink(d)
<1>1. UNCHANGED <<tailIndex, ppc, newBlock, dtor, tailBlock, headers>>
  BY DEF LoadOvercommit, Consume, Filter, Count, Recheck, Overcommit, Claim, LoadHeader, LoadTail,
         FindEntry, Move, SetEmpty, Unlink, ReturnBlock, counts, producer, memory, index
<1>2. ~StoreBlock
  BY <1>1 DEF StoreBlock
<1>3. Only(c)
  BY OnlyOne
<1>4. ASSUME NEW d \in Consumers, Unlink(d) PROVE d = c
  <2>1. pc[d] = "unlink" /\ pc'[d] = "return"
    BY <1>4, PcTyped DEF Unlink, Goto
  <2> QED BY <1>3, <2>1 DEF Only
<1> QED BY <1>1, <1>2, <1>3, <1>4

LEMMA ApartFrame ==
    ASSUME Apart, NEW c \in Consumers, Only(c), pc'[c] # "unlink",
           Holding(c)' => Holding(c) /\ local'[c].index = local[c].index
    PROVE  Apart'
  BY DEF Apart, Only, Holding

\* A consumer's step that takes no block out and is done with no index.
LEMMA TrackingConsumer ==
    ASSUME Types, Indexed, Tracking, [Next]_vars,
           NEW c \in Consumers, LoadOvercommit(c) \/ Consume(c), pc[c] # "unlink",
           UNCHANGED elementsCompletelyDequeued, headIndex' \in Nat, headIndex <= headIndex',
           Past' = Past, OnTrack(c)', Apart'
    PROVE  Tracking'
<1>1. IndexKept /\ IndexShape' /\ ValidStay
  BY IndexShapeStep, LinksStep
<1>2. tailBlock' = tailBlock /\ ~StoreBlock /\ Only(c) /\ \A d \in Consumers : ~Unlink(d)
  BY ConsumerLeaves DEF Unlink
<1>3. SameLinks /\ StoredOn
  BY <1>2, LinksStep, StoredStep
<1>4. \A d \in Consumers : pc[d] = "unlink" => pc'[d] = pc[d] /\ local'[d] = local[d]
  BY <1>2 DEF Only
<1>5. \A d \in Consumers : (pc'[d] = pc[d] /\ local'[d] = local[d]) \/ OnTrack(d)'
  BY <1>2 DEF Only
<1> QED BY <1>1, <1>2, <1>3, <1>4, <1>5, TrackingFrame

LEMMA TrackingAway ==
    ASSUME Types, Indexed, Tracking, [Next]_vars, NEW c \in Consumers,
           LoadOvercommit(c) \/ Filter(c) \/ Count(c) \/ Recheck(c) \/ Overcommit(c) \/ ReturnBlock(c)
    PROVE  Tracking'
<1>1. /\ ~Holding(c) /\ pc[c] # "unlink" /\ ~Holding(c)' /\ pc'[c] # "unlink"
      /\ UNCHANGED <<elementsCompletelyDequeued, headIndex>>
  BY PcTyped DEF LoadOvercommit, Filter, Count, Recheck, Overcommit, ReturnBlock, Goto, Set, Return,
                 Holding, memory, counts
<1>2. LoadOvercommit(c) \/ Consume(c)
  BY DEF Consume
<1>3. Only(c) /\ headIndex \in Nat
  BY <1>2, OnlyOne, PcTyped
<1>4. Past' = Past
  BY <1>1, <1>3, PastSame DEF HoldsOn, Only, Holding
<1>5. OnTrack(c)'
  BY <1>1 DEF OnTrack, Holding
<1>6. Apart'
  BY <1>1, <1>3, ApartFrame DEF Tracking
<1> QED BY <1>1, <1>2, <1>3, <1>4, <1>5, <1>6, TrackingConsumer

LEMMA TrackingClaim ==
    ASSUME Types, Indexed, Tracking, [Next]_vars, NEW c \in Consumers, Claim(c)
    PROVE  Tracking'
<1>1. /\ pc[c] = "claim" /\ pc'[c] = "header" /\ local'[c].index = headIndex
      /\ headIndex' = headIndex + 1 /\ UNCHANGED elementsCompletelyDequeued
  BY PcTyped DEF Claim, Goto, Set, memory
<1>2. Consume(c) /\ Only(c) /\ headIndex \in Nat
  BY OnlyOne, PcTyped DEF Consume
<1>3. \A d \in Consumers : Holding(d) => local[d].index < headIndex /\ local[d].index \in Nat
  BY PcTyped DEF Tracking, OnTrack
<1>4. /\ \A d \in Consumers : Holding(d)' <=> Holding(d) \/ d = c
      /\ ~Holding(c) /\ \A d \in Consumers : d # c => local'[d] = local[d] /\ pc'[d] = pc[d]
  BY <1>1, <1>2 DEF Holding, Only
<1>5. Past' = Past
  <2>1. \A i : i \in 0 .. headIndex - 1 <=> i \in 0 .. headIndex' - 1 /\ i # headIndex
    BY <1>1, <1>2
  <2>2. \A i : (\E d \in Consumers : Holding(d)' /\ local'[d].index = i)
                 <=> i = headIndex \/ \E d \in Consumers : Holding(d) /\ local[d].index = i
    BY <1>1, <1>4
  <2>3. Past' = {i \in 0 .. headIndex' - 1 : ~ \E d \in Consumers : Holding(d)' /\ local'[d].index = i}
    BY DEF Past
  <2> QED BY <2>1, <2>2, <2>3 DEF Past
<1>6. OnTrack(c)'
  BY <1>1, <1>2 DEF OnTrack
<1>7. Apart'
  <2> SUFFICES ASSUME NEW d \in Consumers, NEW x \in Consumers, d # x
               PROVE  /\ Holding(d)' /\ Holding(x)' => local'[d].index # local'[x].index
                      /\ pc'[d] = "unlink" /\ pc'[x] = "unlink" => local'[d].entry # local'[x].entry
    BY DEF Apart
  <2>1. /\ Holding(d) /\ Holding(x) => local[d].index # local[x].index
        /\ pc[d] = "unlink" /\ pc[x] = "unlink" => local[d].entry # local[x].entry
    BY DEF Tracking, Apart
  <2> QED BY <1>1, <1>2, <1>3, <1>4, <2>1
<1>8. headIndex' \in Nat /\ headIndex <= headIndex' /\ pc[c] # "unlink"
  BY <1>1, <1>2
<1> QED BY <1>1, <1>2, <1>5, <1>6, <1>7, <1>8, TrackingConsumer

\* The index a consumer holds is of a block that is in the index.
LEMMA Held ==
    ASSUME Types, Counting, Tracking, NEW c \in Consumers, Holding(c)
    PROVE  /\ local[c].index \in Nat /\ local[c].index < headIndex /\ local[c].index < tailIndex
           /\ Base(local[c].index) \in Nat /\ Base(local[c].index) % BLOCK_SIZE = 0
           /\ local[c].index \in IndicesOf(Base(local[c].index)) /\ local[c].index \notin Past
           /\ Base(local[c].index) \in 0 .. Stored - 1
           /\ Reachable(Base(local[c].index))
<1>1. PICK i \in Nat : i = local[c].index
  BY PcTyped
<1>2. headIndex \in Nat /\ tailIndex \in Nat /\ headIndex <= tailIndex /\ Stored \in {tailIndex, tailIndex + 1}
  BY PcTyped, HeadBehind, StoredIs DEF HeadBehindTail
<1>3. i < headIndex
  BY <1>1 DEF Tracking, OnTrack
<1>4. Base(i) \in 0 .. i /\ Base(i) % BLOCK_SIZE = 0 /\ i \in IndicesOf(Base(i))
  BY BaseIs
<1>5. i \notin Past
  BY <1>1 DEF Past
<1>6. Base(i) \in 0 .. Stored - 1 /\ Base(i) \in Nat
  <2> HIDE DEF Base
  <2> QED BY <1>2, <1>3, <1>4
<1>7. Reachable(Base(i))
  <2>1. IndicesOf(Base(i)) \subseteq Past \/ Reachable(Base(i))
    BY <1>4, <1>6 DEF Tracking, Covered
  <2> QED BY <1>4, <1>5, <2>1
<1>8. i < tailIndex
  BY <1>2, <1>3
<1> QED BY <1>1, <1>3, <1>4, <1>5, <1>6, <1>7, <1>8

\* The last index leads to every block that is in it.
LEMMA LastLeads ==
    ASSUME Types, Indexed, NEW k, Reachable(k)
    PROVE  Leads(blockIndex, k)
<1>1. PICK e \in 1 .. Len(entries) : entries[e].key = k /\ Linked(e)
  BY DEF Reachable
<1>2. PICK j \in 1 .. Capacity(blockIndex) : Back(j) = e
  BY EntryPlace
<1>3. PICK p \in 0 .. Capacity(blockIndex) - 1 : EntryAt(blockIndex, p) = Back(j)
  <2>1. j \in Int
    OBVIOUS
  <2> QED BY <2>1, BackIsPlace DEF Types
<1> QED BY <1>1, <1>2, <1>3 DEF Leads

\* The steps that look for the entry, up to the one that takes the element.
LEMMA TrackingLooks ==
    ASSUME Types, Indexed, Counting, Tracking, [Next]_vars, NEW c \in Consumers,
           LoadHeader(c) \/ LoadTail(c) \/ FindEntry(c) \/ Move(c), OnTrack(c)'
    PROVE  Tracking'
<1>1. /\ Holding(c) /\ pc[c] # "unlink" /\ Holding(c)' /\ pc'[c] # "unlink"
      /\ local'[c].index = local[c].index
      /\ UNCHANGED <<elementsCompletelyDequeued, headIndex>>
  BY PcTyped DEF LoadHeader, LoadTail, FindEntry, Move, Goto, Set, Holding, memory, counts
<1>2. Consume(c)
  BY DEF Consume
<1>3. Only(c) /\ headIndex \in Nat
  BY <1>2, OnlyOne, PcTyped
<1>4. Past' = Past
  BY <1>1, <1>3, PastSame DEF HoldsOn, Only, Holding
<1>5. Apart'
  BY <1>1, <1>3, ApartFrame DEF Tracking
<1> QED BY <1>1, <1>2, <1>3, <1>4, <1>5, TrackingConsumer

LEMMA TrackingLoadHeader ==
    ASSUME Types, Indexed, Counting, Tracking, [Next]_vars, NEW c \in Consumers, LoadHeader(c)
    PROVE  Tracking'
<1>1. /\ pc[c] = "header" /\ pc'[c] = "tail" /\ local'[c].index = local[c].index
      /\ local'[c].header = blockIndex /\ UNCHANGED <<headers, entries, headIndex>>
  BY PcTyped DEF LoadHeader, Goto, Set, index, counts
<1>2. Holding(c)
  BY <1>1 DEF Holding
<1>3. PICK k : k = Base(local[c].index)
  OBVIOUS
<1>4. PICK h : h = blockIndex
  OBVIOUS
<1>5. Leads(h, k) /\ local[c].index < headIndex
  BY <1>2, <1>3, <1>4, Held, LastLeads
<1>6. Leads(h, k)'
  BY <1>1, <1>5 DEF Leads, EntryAt, Capacity, Linked
<1>7. Base(local'[c].index) = k /\ local'[c].header = h
  BY <1>1, <1>3, <1>4
<1>8. Leads(local[c].header, Base(local[c].index))'
  BY <1>6, <1>7 DEF Leads
<1>9. OnTrack(c)'
  BY <1>1, <1>5, <1>8 DEF OnTrack
<1> QED BY <1>9, TrackingLooks

LEMMA TrackingLoadTail ==
    ASSUME Types, Indexed, Counting, Tracking, [Next]_vars, NEW c \in Consumers, LoadTail(c)
    PROVE  Tracking'
<1>1. /\ pc[c] = "tail" /\ pc'[c] = "entry" /\ local'[c].index = local[c].index
      /\ local'[c].header = local[c].header /\ local'[c].tail = headers[local[c].header].tail
      /\ UNCHANGED <<headers, entries, headIndex>>
  BY PcTyped DEF LoadTail, Goto, Set, index, counts
<1>2. Holding(c)
  BY <1>1 DEF Holding
<1>3. PICK h \in 1 .. Len(headers) : h = local[c].header
  BY <1>1 DEF Types, Positions
<1>4. PICK k : k = Base(local[c].index)
  OBVIOUS
<1>5. Leads(h, k) /\ local[c].index < headIndex
  BY <1>1, <1>2, <1>3, <1>4 DEF Tracking, OnTrack
<1>6. Leads(h, k)'
  BY <1>1, <1>5 DEF Leads, EntryAt, Capacity, Linked
<1>7. Base(local'[c].index) = k /\ local'[c].header = h
  BY <1>1, <1>3, <1>4
<1>8. Leads(local[c].header, Base(local[c].index))'
  BY <1>6, <1>7 DEF Leads
<1>9. Valid(EntryAt(h, headers[h].tail))
  <2>1. tailIndex >= 1
    <3>1. local[c].index < tailIndex /\ local[c].index \in Nat /\ tailIndex \in Nat
      BY <1>2, Held, PcTyped
    <3> QED BY <3>1
  <2> QED BY <2>1, TailValid
<1>10. Valid(EntryAt(local[c].header, local[c].tail))'
  <2>1. PICK t : t = headers[h].tail
    OBVIOUS
  <2>2. Valid(EntryAt(h, t))'
    BY <1>1, <1>9, <2>1 DEF Valid, EntryAt, Capacity
  <2>3. local'[c].header = h /\ local'[c].tail = t
    BY <1>1, <1>3, <2>1
  <2> QED BY <2>2, <2>3 DEF Valid, EntryAt, Capacity
<1>11. OnTrack(c)'
  BY <1>1, <1>5, <1>8, <1>10 DEF OnTrack
<1> QED BY <1>11, TrackingLooks

\* What the consumer finds is the entry of its block.
LEMMA FindEntryIs ==
    ASSUME Types, Indexed, Tracking, NEW c \in Consumers, FindEntry(c)
    PROVE  /\ local'[c].entry \in 1 .. Len(entries) /\ Linked(local'[c].entry)
           /\ entries[local'[c].entry].key = Base(local[c].index)
<1>1. /\ pc[c] = "entry"
      /\ local'[c].entry = EntryAt(local[c].header,
            local[c].tail + (Base(local[c].index) - entries[EntryAt(local[c].header, local[c].tail)].key) \div BLOCK_SIZE)
  BY PcTyped DEF FindEntry, Set
<1>2. PICK h \in 1 .. Len(headers) : h = local[c].header
  BY <1>1 DEF Types, Positions
<1>3. PICK q \in 0 .. Capacity(h) - 1 : q = local[c].tail
  <2>1. local[c].tail < Capacity(h) /\ local[c].tail \in Nat /\ Capacity(h) \in Nat
    <3>1. local[c].tail < Capacity(h) /\ local[c].tail \in Nat
      BY <1>1, <1>2, PcTyped DEF Types, Positions
    <3>2. Capacity(h) \in Nat
      BY EntryIn DEF Types
    <3> QED BY <3>1, <3>2
  <2> QED BY <2>1
<1>4. PICK k : k = Base(local[c].index)
  OBVIOUS
<1>5. Leads(h, k) /\ Valid(EntryAt(h, q))
  BY <1>1, <1>2, <1>3, <1>4 DEF Tracking, OnTrack
<1>6. PICK p \in 0 .. Capacity(h) - 1 : Linked(EntryAt(h, p)) /\ entries[EntryAt(h, p)].key = k
  BY <1>5 DEF Leads
<1>7. p \in Int /\ EntryAt(h, p) \in 1 .. Len(entries)
  <2>1. p \in Int
    OBVIOUS
  <2> QED BY <2>1, EntryIn DEF Types
<1>8. Valid(EntryAt(h, p))
  BY <1>6, <1>7, RoomIsNull DEF Linked
<1>9. Aligned(h)
  BY IndexAligned
<1>10. EntryAt(h, q + (entries[EntryAt(h, p)].key - entries[EntryAt(h, q)].key) \div BLOCK_SIZE) = EntryAt(h, p)
  BY <1>5, <1>8, <1>9, IndexLeads
<1>11. local'[c].entry = EntryAt(h, p)
  BY <1>1, <1>2, <1>3, <1>4, <1>6, <1>10
<1> QED BY <1>4, <1>6, <1>7, <1>11

LEMMA TrackingFindEntry ==
    ASSUME Types, Indexed, Counting, Tracking, [Next]_vars, NEW c \in Consumers, FindEntry(c)
    PROVE  Tracking'
<1>1. /\ pc[c] = "entry" /\ pc'[c] = "move" /\ local'[c].index = local[c].index
      /\ UNCHANGED <<headers, entries, headIndex>>
  BY PcTyped DEF FindEntry, Goto, Set, index, counts
<1>2. Linked(local'[c].entry) /\ entries[local'[c].entry].key = Base(local[c].index)
  BY FindEntryIs
<1>3. local[c].index < headIndex
  BY <1>1 DEF Tracking, OnTrack, Holding
<1>4. OnTrack(c)'
  BY <1>1, <1>2, <1>3 DEF OnTrack, Linked
<1> QED BY <1>4, TrackingLooks

LEMMA TrackingMove ==
    ASSUME Types, Indexed, Counting, Tracking, [Next]_vars, NEW c \in Consumers, Move(c)
    PROVE  Tracking'
<1>1. /\ pc[c] = "move" /\ pc'[c] = "empty" /\ local'[c] = local[c]
      /\ UNCHANGED <<headers, entries, headIndex>>
  BY PcTyped DEF Move, Goto, index, counts
<1>2. OnTrack(c)'
  BY <1>1 DEF Tracking, OnTrack, Linked, Holding
<1> QED BY <1>2, TrackingLooks

\* A consumer counts the element it has taken: its index is past.
LEMMA SetEmptyIs ==
    ASSUME Types, Counting, Tracking, NEW c \in Consumers, SetEmpty(c)
    PROVE  /\ pc[c] = "empty" /\ Only(c) /\ UNCHANGED <<headers, entries, headIndex, tailBlock, inUse>>
           /\ local[c].entry \in 1 .. Len(entries) /\ Linked(local[c].entry)
           /\ BlockOf(c) = entries[local[c].entry].value /\ BlockOf(c) \in Blocks
           /\ entries[local[c].entry].key \in Nat /\ entries[local[c].entry].key % BLOCK_SIZE = 0
           /\ local[c].index \in IndicesOf(entries[local[c].entry].key) /\ local[c].index \notin Past
           /\ elementsCompletelyDequeued'[BlockOf(c)] = elementsCompletelyDequeued[BlockOf(c)] + 1
           /\ elementsCompletelyDequeued[BlockOf(c)] \in Nat
           /\ \A b \in Blocks : b # BlockOf(c) => elementsCompletelyDequeued'[b] = elementsCompletelyDequeued[b]
           /\ IF elementsCompletelyDequeued[BlockOf(c)] = BLOCK_SIZE - 1
              THEN pc'[c] = "unlink" /\ local'[c] = local[c] ELSE pc'[c] = "idle"
           /\ Past' = Past \union {local[c].index}
<1>1. pc[c] = "empty" /\ UNCHANGED <<headers, entries, headIndex, tailBlock, inUse>>
  BY DEF SetEmpty, counts, index
<1>2. Only(c)
  BY OnlyOne DEF Consume
<1>3. local[c].entry \in 1 .. Len(entries) /\ Linked(local[c].entry) /\ entries[local[c].entry].key = Base(local[c].index)
  BY <1>1 DEF Types, Positions, Tracking, OnTrack
<1>4. BlockOf(c) = entries[local[c].entry].value /\ BlockOf(c) \in Blocks
  BY <1>3, EntryTyped DEF BlockOf, Linked, Types
<1>5. Holding(c)
  BY <1>1 DEF Holding
<1>6. /\ local[c].index \in Nat /\ local[c].index < headIndex
      /\ Base(local[c].index) \in Nat /\ Base(local[c].index) % BLOCK_SIZE = 0
      /\ local[c].index \in IndicesOf(Base(local[c].index)) /\ local[c].index \notin Past
  BY <1>5, Held
<1>7. /\ elementsCompletelyDequeued'[BlockOf(c)] = elementsCompletelyDequeued[BlockOf(c)] + 1
      /\ elementsCompletelyDequeued[BlockOf(c)] \in Nat
      /\ \A b \in Blocks : b # BlockOf(c) => elementsCompletelyDequeued'[b] = elementsCompletelyDequeued[b]
  <2>1. elementsCompletelyDequeued \in [Blocks -> Nat]
    BY DEF Types, Shape, MemoryShape
  <2>2. elementsCompletelyDequeued' = [elementsCompletelyDequeued EXCEPT ![BlockOf(c)] = @ + 1]
    BY DEF SetEmpty
  <2> QED BY <1>4, <2>1, <2>2
<1>8. IF elementsCompletelyDequeued[BlockOf(c)] = BLOCK_SIZE - 1
      THEN pc'[c] = "unlink" /\ local'[c] = local[c] ELSE pc'[c] = "idle"
  BY PcTyped DEF SetEmpty, Goto, Return, Set
<1>9. Past' = Past \union {local[c].index}
  <2>1. ~Holding(c)' /\ \A d \in Consumers : d # c => (Holding(d)' <=> Holding(d)) /\ local'[d] = local[d]
    BY <1>2, <1>8 DEF Holding, Only
  <2>2. \A d \in Consumers : d # c /\ Holding(d) => local[d].index # local[c].index
    BY <1>5 DEF Tracking, Apart
  <2>3. local[c].index \in 0 .. headIndex - 1
    BY <1>6, PcTyped
  <2>4. \A i : (\E d \in Consumers : Holding(d)' /\ local'[d].index = i)
                 <=> i # local[c].index /\ \E d \in Consumers : Holding(d) /\ local[d].index = i
    BY <1>5, <2>1, <2>2
  <2>5. Past' = {i \in 0 .. headIndex - 1 : ~ \E d \in Consumers : Holding(d)' /\ local'[d].index = i}
    BY <1>1 DEF Past
  <2> QED BY <2>3, <2>4, <2>5 DEF Past
<1> QED BY <1>1, <1>2, <1>3, <1>4, <1>6, <1>7, <1>8, <1>9

LEMMA TrackingSetEmpty ==
    ASSUME Types, Indexed, Counting, Tracking, Owning, [Next]_vars, NEW c \in Consumers, SetEmpty(c)
    PROVE  Tracking'
<1>1. PICK e \in 1 .. Len(entries) : e = local[c].entry
  BY SetEmptyIs
<1>2. PICK i : i = local[c].index
  OBVIOUS
<1>3. PICK k \in Nat : k = entries[e].key
  BY <1>1, SetEmptyIs
<1>4. PICK b \in Blocks : b = BlockOf(c) /\ b = entries[e].value
  BY <1>1, SetEmptyIs
<1>5. PICK n \in Nat : n = elementsCompletelyDequeued[b]
  BY <1>4, SetEmptyIs
<1>6. /\ pc[c] = "empty" /\ Only(c) /\ UNCHANGED <<headers, entries, headIndex, tailBlock>>
      /\ Linked(e) /\ k % BLOCK_SIZE = 0 /\ i \in IndicesOf(k) /\ i \notin Past
      /\ elementsCompletelyDequeued'[b] = n + 1
      /\ \A x \in Blocks : x # b => elementsCompletelyDequeued'[x] = elementsCompletelyDequeued[x]
      /\ Past' = Past \union {i}
  BY <1>1, <1>2, <1>3, <1>4, <1>5, SetEmptyIs
<1>7. IF n = BLOCK_SIZE - 1 THEN pc'[c] = "unlink" /\ local'[c] = local[c] ELSE pc'[c] = "idle"
  BY <1>4, <1>5, SetEmptyIs
<1>8. Consume(c) /\ ~StoreBlock /\ IndexKept /\ IndexShape' /\ ValidStay /\ SameLinks /\ StoredOn /\ headIndex \in Nat
  <2>1. Consume(c)
    BY DEF Consume
  <2>2. ~StoreBlock /\ SameLinks
    BY <1>6, <2>1, ConsumerLeaves, SameEntries
  <2> QED BY <2>1, <2>2, IndexShapeStep, LinksStep, StoredStep, PcTyped
<1>9. /\ n = Cardinality(IndicesOf(k) \intersect Past)
      /\ n + 1 = Cardinality(IndicesOf(k) \intersect Past')
  <2>1. LinkKept(e)
    BY <1>6 DEF Tracking, Links
  <2>2. n = Cardinality(IndicesOf(k) \intersect Past)
    BY <1>3, <1>4, <1>5, <2>1 DEF LinkKept
  <2>3. Cardinality(IndicesOf(k) \intersect (Past \union {i})) = Cardinality(IndicesOf(k) \intersect Past) + 1
    BY <1>6, OneMoreIndex
  <2> QED BY <1>6, <2>2, <2>3
<1>10. IndicesOf(k) \subseteq Past' <=> n = BLOCK_SIZE - 1
  <2>1. IndicesOf(k) \subseteq Past' <=> Cardinality(IndicesOf(k) \intersect Past') = BLOCK_SIZE
    BY IndicesIn
  <2>2. BLOCK_SIZE \in Nat
    BY ProducerAssumption
  <2> QED BY <1>9, <2>1, <2>2
<1>11. Past \subseteq Past'
  BY <1>6
<1>12. Covered'
  BY <1>8, <1>11, CoveredFrame DEF Tracking
<1>13. Stored' \in Int /\ Stored \in Int /\ Stored' >= Stored /\ BLOCK_SIZE \in Nat
  BY <1>8, StoredIs DEF StoredOn
<1>14. ASSUME NEW f \in 1 .. Len(entries), Linked(f) PROVE LinkKept(f)'
  <2>1. LinkKept(f)
    BY <1>14 DEF Tracking, Links
  <2>2. entries[f].key \in Nat /\ entries[f].key < Stored /\ entries[f].key % BLOCK_SIZE = 0
    BY <1>13, <2>1 DEF LinkKept
  <2>3. entries[f].key \in 0 .. Stored' - 1
    BY <1>13, <2>2
  <2>4. entries[f].key + BLOCK_SIZE >= Stored' => entries[f].value = tailBlock
    BY <1>13, <2>1, <2>2 DEF LinkKept
  <2>5. CASE f = e
    <3>1. elementsCompletelyDequeued'[entries[f].value] = Cardinality(IndicesOf(entries[f].key) \intersect Past')
      BY <1>3, <1>4, <1>6, <1>9, <2>5
    <3>2. IndicesOf(entries[f].key) \subseteq Past' => pc'[c] = "unlink" /\ local'[c].entry = f
      BY <1>1, <1>3, <1>7, <1>10, <2>5
    <3> QED BY <1>6, <2>2, <2>3, <2>4, <3>1, <3>2 DEF LinkKept, IndicesOf
  <2>6. CASE f # e
    <3>1. entries[f].value # b /\ entries[f].value \in Blocks
      BY <1>4, <1>6, <1>14, <2>6, EntryTyped DEF Owning, OneOwner, Linked, Types
    <3>2. entries[f].key # k
      <4>1. Valid(f) /\ Valid(e)
        BY <1>6, <1>14, RoomIsNull DEF Linked
      <4> QED BY <1>3, <2>6, <4>1, KeysUnique
    <3>3. i \notin IndicesOf(entries[f].key)
      <4>1. Base(i) = k
        BY <1>6, BaseOnly
      <4>2. i \in IndicesOf(entries[f].key) => Base(i) = entries[f].key
        BY <2>2, BaseOnly
      <4> QED BY <3>2, <4>1, <4>2
    <3>4. IndicesOf(entries[f].key) \intersect Past' = IndicesOf(entries[f].key) \intersect Past
      BY <1>6, <3>3
    <3>5. elementsCompletelyDequeued'[entries[f].value] = Cardinality(IndicesOf(entries[f].key) \intersect Past')
      BY <1>6, <2>1, <3>1, <3>4 DEF LinkKept
    <3>6. IndicesOf(entries[f].key) \subseteq Past' => \E d \in Consumers : pc'[d] = "unlink" /\ local'[d].entry = f
      <4>1. SUFFICES ASSUME IndicesOf(entries[f].key) \subseteq Past'
                     PROVE  \E d \in Consumers : pc'[d] = "unlink" /\ local'[d].entry = f
        OBVIOUS
      <4>2. IndicesOf(entries[f].key) \subseteq Past
        BY <1>6, <3>3, <4>1
      <4>3. PICK d \in Consumers : pc[d] = "unlink" /\ local[d].entry = f
        BY <2>1, <4>2 DEF LinkKept
      <4>4. d # c
        BY <1>6, <4>3
      <4> QED BY <1>6, <4>3, <4>4 DEF Only
    <3> QED BY <1>6, <2>2, <2>3, <2>4, <3>5, <3>6 DEF LinkKept, IndicesOf
  <2> QED BY <2>5, <2>6
<1>15. Links'
  BY <1>6, <1>14 DEF Links, Linked
<1>16. ASSUME NEW d \in Consumers, d # c PROVE OnTrack(d)'
  <2>1. OnTrack(d) /\ pc'[d] = pc[d] /\ local'[d] = local[d] /\ headIndex' \in Nat /\ headIndex <= headIndex'
    BY <1>6, <1>8, <1>16 DEF Tracking, Only
  <2>2. \A f \in 1 .. Len(entries) : entries'[f] = entries[f]
    BY <1>6
  <2> QED BY <1>8, <1>11, <2>1, <2>2, StaysOnTrack
<1>17. OnTrack(c)'
  BY <1>1, <1>3, <1>6, <1>7, <1>10 DEF OnTrack, Holding, Linked, IndicesOf
<1>18. Apart'
  <2>1. ASSUME NEW d \in Consumers, pc[d] = "unlink", local[d].entry = e PROVE FALSE
    <3>1. IndicesOf(k) \subseteq Past
      BY <1>3, <2>1 DEF Tracking, OnTrack
    <3> QED BY <1>6, <3>1
  <2>2. ~Holding(c)' /\ \A d \in Consumers : d # c => (Holding(d)' <=> Holding(d)) /\ local'[d] = local[d] /\ pc'[d] = pc[d]
    BY <1>6, <1>7 DEF Holding, Only
  <2> SUFFICES ASSUME NEW d \in Consumers, NEW x \in Consumers, d # x
               PROVE  /\ Holding(d)' /\ Holding(x)' => local'[d].index # local'[x].index
                      /\ pc'[d] = "unlink" /\ pc'[x] = "unlink" => local'[d].entry # local'[x].entry
    BY DEF Apart
  <2>3. /\ Holding(d) /\ Holding(x) => local[d].index # local[x].index
        /\ pc[d] = "unlink" /\ pc[x] = "unlink" => local[d].entry # local[x].entry
    BY DEF Tracking, Apart
  <2>4. Holding(d)' /\ Holding(x)' => local'[d].index # local'[x].index
    BY <2>2, <2>3
  <2>5. pc'[d] = "unlink" /\ pc'[x] = "unlink" => local'[d].entry # local'[x].entry
    BY <1>1, <1>7, <2>1, <2>2, <2>3
  <2> QED BY <2>4, <2>5
<1>19. \A d \in Consumers : OnTrack(d)'
  BY <1>16, <1>17
<1> QED BY <1>12, <1>15, <1>18, <1>19 DEF Tracking

\* A consumer takes out the block it has found empty.
LEMMA UnlinkIs ==
    ASSUME Types, Tracking, NEW c \in Consumers, Unlink(c)
    PROVE  /\ pc[c] = "unlink" /\ pc'[c] = "return" /\ Only(c)
           /\ UNCHANGED <<headers, headIndex, tailBlock, inUse, elementsCompletelyDequeued, newBlock, ppc>>
           /\ local[c].entry \in 1 .. Len(entries) /\ Linked(local[c].entry)
           /\ IndicesOf(entries[local[c].entry].key) \subseteq Past
           /\ local'[c].entry = entries[local[c].entry].value
           /\ Len(entries') = Len(entries)
           /\ entries'[local[c].entry].value = Null
           /\ \A f \in 1 .. Len(entries) : f # local[c].entry => entries'[f] = entries[f]
           /\ Past' = Past
<1>1. /\ pc[c] = "unlink" /\ pc'[c] = "return"
      /\ UNCHANGED <<headers, headIndex, tailBlock, inUse, elementsCompletelyDequeued, newBlock, ppc>>
  BY PcTyped DEF Unlink, Goto, counts, memory, producer
<1>2. Only(c)
  BY OnlyOne DEF Consume
<1>3. /\ local[c].entry \in 1 .. Len(entries) /\ Linked(local[c].entry)
      /\ IndicesOf(entries[local[c].entry].key) \subseteq Past
  BY <1>1 DEF Types, Positions, Tracking, OnTrack
<1>4. local'[c].entry = entries[local[c].entry].value
  BY PcTyped DEF Unlink, Set, Fresh, BlockOf
<1>5. EntrySet(local[c].entry, [key |-> entries[local[c].entry].key, value |-> Null])
  BY <1>3, IndexSteps DEF Types
<1>6. Past' = Past
  <2>1. \A d \in Consumers : HoldsOn(d)
    BY <1>1, <1>2 DEF HoldsOn, Holding, Only
  <2> QED BY <1>1, <2>1, PastSame
<1> QED BY <1>1, <1>2, <1>3, <1>4, <1>5, <1>6 DEF EntrySet

LEMMA TrackingUnlink ==
    ASSUME Types, Indexed, Counting, Tracking, [Next]_vars, NEW c \in Consumers, Unlink(c)
    PROVE  Tracking'
<1>1. PICK e \in 1 .. Len(entries) : e = local[c].entry
  BY UnlinkIs
<1>2. /\ pc[c] = "unlink" /\ pc'[c] = "return" /\ Only(c)
      /\ UNCHANGED <<headers, headIndex, tailBlock, elementsCompletelyDequeued>>
      /\ Linked(e) /\ IndicesOf(entries[e].key) \subseteq Past
      /\ Len(entries') = Len(entries) /\ entries'[e].value = Null
      /\ \A f \in 1 .. Len(entries) : f # e => entries'[f] = entries[f]
      /\ Past' = Past
  BY <1>1, UnlinkIs
<1>3. Consume(c) /\ ~StoreBlock /\ IndexKept /\ ValidStay /\ StoredOn /\ headIndex \in Nat
  <2>1. Consume(c)
    BY DEF Consume
  <2>2. ~StoreBlock
    BY <2>1, ConsumerLeaves
  <2> QED BY <2>1, <2>2, IndexShapeStep, LinksStep, StoredStep, PcTyped
<1>4. Covered'
  <2> SUFFICES ASSUME NEW k \in 0 .. Stored' - 1, k % BLOCK_SIZE = 0
               PROVE  IndicesOf(k) \subseteq Past \/ Reachable(k)'
    BY <1>2 DEF Covered, IndicesOf
  <2>1. IndicesOf(k) \subseteq Past \/ Reachable(k)
    BY <1>3 DEF StoredOn, Tracking, Covered
  <2>2. ASSUME Reachable(k) PROVE IndicesOf(k) \subseteq Past \/ Reachable(k)'
    <3>1. PICK f \in 1 .. Len(entries) : entries[f].key = k /\ Linked(f)
      BY <2>2 DEF Reachable
    <3>2. CASE f = e
      BY <1>2, <3>1, <3>2
    <3>3. CASE f # e
      BY <1>2, <3>1, <3>3 DEF Reachable, Linked
    <3> QED BY <3>2, <3>3
  <2> QED BY <2>1, <2>2
<1>5. Stored' \in Int /\ Stored \in Int /\ Stored' >= Stored /\ BLOCK_SIZE \in Nat
  BY <1>3, StoredIs DEF StoredOn
<1>6. ASSUME NEW f \in 1 .. Len(entries), entries'[f].value # Null PROVE LinkKept(f)'
  <2>1. f # e /\ entries'[f] = entries[f] /\ Linked(f)
    BY <1>2, <1>6 DEF Linked
  <2>2. LinkKept(f)
    BY <2>1 DEF Tracking, Links
  <2>3. entries[f].key \in Nat /\ entries[f].key < Stored /\ entries[f].key % BLOCK_SIZE = 0
    BY <1>5, <2>2 DEF LinkKept
  <2>4. entries[f].key \in 0 .. Stored' - 1
    BY <1>5, <2>3
  <2>5. entries[f].key + BLOCK_SIZE >= Stored' => entries[f].value = tailBlock
    BY <1>5, <2>2, <2>3 DEF LinkKept
  <2>6. IndicesOf(entries[f].key) \subseteq Past => \E d \in Consumers : pc'[d] = "unlink" /\ local'[d].entry = f
    BY <1>1, <1>2, <2>1, <2>2 DEF LinkKept, Only
  <2>7. elementsCompletelyDequeued[entries[f].value] = Cardinality(IndicesOf(entries[f].key) \intersect Past)
    BY <2>2 DEF LinkKept
  <2> QED BY <1>2, <2>1, <2>3, <2>4, <2>5, <2>6, <2>7 DEF LinkKept, IndicesOf
<1>7. Links'
  BY <1>2, <1>6 DEF Links, Linked
<1>8. ASSUME NEW d \in Consumers, d # c PROVE OnTrack(d)'
  <2>1. OnTrack(d) /\ pc'[d] = pc[d] /\ local'[d] = local[d] /\ headIndex' \in Nat /\ headIndex <= headIndex'
    BY <1>2, <1>3, <1>8 DEF Tracking, Only
  <2>2. Holding(d) => entries[e].key # Base(local[d].index)
    <3> SUFFICES ASSUME Holding(d) PROVE entries[e].key # Base(local[d].index)
      OBVIOUS
    <3>1. local[d].index \in IndicesOf(Base(local[d].index)) /\ local[d].index \notin Past
      BY Held
    <3> QED BY <1>2, <3>1
  <2>3. pc[d] = "unlink" => local[d].entry # e
    BY <1>1, <1>2, <1>8 DEF Tracking, Apart
  <2>4. \A f \in 1 .. Len(entries) :
          /\ Linked(f)
          /\ \/ Holding(d) /\ entries[f].key = Base(local[d].index)
             \/ pc[d] = "unlink" /\ local[d].entry = f
          => entries'[f] = entries[f]
    BY <1>2, <2>2, <2>3
  <2> QED BY <1>2, <1>3, <2>1, <2>4, StaysOnTrack
<1>9. OnTrack(c)'
  BY <1>2 DEF OnTrack, Holding
<1>10. Apart'
  <2>1. pc'[c] # "unlink" /\ ~Holding(c)'
    BY <1>2 DEF Holding
  <2> QED BY <1>2, <2>1, ApartFrame DEF Tracking
<1>11. \A d \in Consumers : OnTrack(d)'
  BY <1>8, <1>9
<1> QED BY <1>4, <1>7, <1>10, <1>11 DEF Tracking

LEMMA TrackingStep ==
    Types /\ Indexed /\ Counting /\ Tracking /\ Owning /\ [Next]_vars => Tracking'
<1> SUFFICES ASSUME Types, Indexed, Counting, Tracking, Owning, [Next]_vars PROVE Tracking'
  OBVIOUS
<1>1. CASE StoreBlock
  BY <1>1, TrackingStoreBlock
<1>2. CASE (Enqueue \/ Produce \/ Destroy \/ DestroyNext \/ DestroyEnd \/ UNCHANGED vars) /\ ~StoreBlock
  BY <1>2, TrackingProduce
<1>3. ASSUME NEW c \in Consumers, LoadOvercommit(c) \/ Consume(c) PROVE Tracking'
  BY <1>3, TrackingAway, TrackingClaim, TrackingLoadHeader, TrackingLoadTail, TrackingFindEntry, TrackingMove,
     TrackingSetEmpty, TrackingUnlink DEF Consume
<1> QED BY <1>1, <1>2, <1>3 DEF Next, Produce, Terminated

LEMMA TrackingInit == Init => Tracking
<1> SUFFICES ASSUME Init PROVE Tracking
  OBVIOUS
<1>1. /\ \A c \in Consumers : pc[c] = "idle"
      /\ tailIndex = 0 /\ headIndex = 0 /\ ppc = "idle"
  BY DEF Init
<1>2. Stored = 0
  BY <1>1, ProducerAssumption DEF Stored
<1>3. \A e \in 1 .. Len(entries) : ~Linked(e)
  BY ProducerAssumption DEF Init, Linked
<1>4. \A k \in 0 .. Stored - 1 : FALSE
  BY <1>2
<1> QED BY <1>1, <1>3, <1>4 DEF Tracking, Covered, Links, OnTrack, Apart, Holding

-----------------------------------------------------------------------------
(* The owners of the blocks.                                               *)

\* Who returns a block, and what the producer has, stay as they are.
SameHands ==
    /\ newBlock' = newBlock
    /\ \A c \in Consumers : pc'[c] = "return" <=> pc[c] = "return"
    /\ \A c \in Consumers : pc[c] = "return" => local'[c] = local[c]

LEMMA SamePlaces ==
    ASSUME Types, IndexShape', SameLinks, NEW b \in Blocks
    PROVE  (\E e \in 1 .. Len(entries') : entries'[e].value = b) <=> (\E e \in 1 .. Len(entries) : entries[e].value = b)
<1>1. Len(entries) \in Nat /\ Len(entries') \in Nat
  <2>1. entries' \in Seq(Entry)
    BY DEF IndexShape
  <2> QED BY <2>1, Lengths, LenProperties DEF Types
<1>2. b # Null
  BY ProducerAssumption
<1>3. ASSUME NEW e \in 1 .. Len(entries'), entries'[e].value = b
      PROVE  \E f \in 1 .. Len(entries) : entries[f].value = b
  BY <1>2, <1>3 DEF SameLinks, Linked
<1>4. ASSUME NEW e \in 1 .. Len(entries), entries[e].value = b
      PROVE  \E f \in 1 .. Len(entries') : entries'[f].value = b
  BY <1>1, <1>2, <1>4 DEF SameLinks, Linked
<1> QED BY <1>3, <1>4

LEMMA OneOwnerFrame ==
    ASSUME Types, OneOwner, SameLinks,
           newBlock' = newBlock \/ newBlock' = Null,
           \A c \in Consumers : pc'[c] = "return" => pc[c] = "return" /\ local'[c] = local[c]
    PROVE  OneOwner'
<1>1. ASSUME NEW e \in 1 .. Len(entries'), entries'[e].value # Null
      PROVE  /\ e \in 1 .. Len(entries) /\ Linked(e) /\ entries'[e] = entries[e]
             /\ entries'[e].value # newBlock'
             /\ \A f \in 1 .. Len(entries') : entries'[f].value = entries'[e].value => e = f
             /\ \A c \in Consumers : ~(pc'[c] = "return" /\ local'[c].entry = entries'[e].value)
  <2>1. e \in 1 .. Len(entries) /\ Linked(e) /\ entries'[e] = entries[e]
    BY <1>1 DEF SameLinks
  <2>2. \A f \in 1 .. Len(entries') : entries'[f].value = entries'[e].value => e = f
    <3> SUFFICES ASSUME NEW f \in 1 .. Len(entries'), entries'[f].value = entries'[e].value PROVE e = f
      OBVIOUS
    <3>1. f \in 1 .. Len(entries) /\ entries'[f] = entries[f]
      BY <1>1 DEF SameLinks
    <3> QED BY <2>1, <3>1 DEF OneOwner
  <2>3. entries'[e].value # newBlock'
    BY <1>1, <2>1 DEF OneOwner
  <2>4. \A c \in Consumers : ~(pc'[c] = "return" /\ local'[c].entry = entries'[e].value)
    BY <2>1 DEF OneOwner, Returning
  <2> QED BY <2>1, <2>2, <2>3, <2>4
<1>2. ASSUME NEW c \in Consumers, pc'[c] = "return"
      PROVE  /\ local'[c].entry \in Blocks /\ local'[c].entry # newBlock'
             /\ \A d \in Consumers : pc'[d] = "return" /\ local'[d].entry = local'[c].entry => c = d
  <2>1. pc[c] = "return" /\ local'[c] = local[c]
    BY <1>2
  <2>2. local[c].entry \in Blocks /\ local[c].entry # newBlock
    BY <2>1 DEF OneOwner
  <2>3. \A d \in Consumers : pc'[d] = "return" /\ local'[d].entry = local'[c].entry => c = d
    BY <2>1 DEF OneOwner, Returning
  <2> QED BY <2>1, <2>2, <2>3, ProducerAssumption
<1> QED BY <1>1, <1>2 DEF OneOwner, Linked, Returning

LEMMA PlacedFrame ==
    ASSUME Types, IndexShape', Placed, SameLinks, SameHands, inUse' = inUse,
           ppc' \notin {"destroy", "gone"} => ppc \notin {"destroy", "gone"}
    PROVE  Placed'
<1> SUFFICES ASSUME ppc \notin {"destroy", "gone"}, NEW b \in Blocks PROVE HasPlace(b)' <=> HasPlace(b)
  BY DEF Placed
<1>1. (\E e \in 1 .. Len(entries') : entries'[e].value = b) <=> (\E e \in 1 .. Len(entries) : entries[e].value = b)
  BY SamePlaces
<1>2. (\E c \in Consumers : Returning(c, b)') <=> (\E c \in Consumers : Returning(c, b))
  BY DEF SameHands, Returning
<1> QED BY <1>1, <1>2 DEF HasPlace, SameHands

LEMMA OwningFrame ==
    ASSUME Types, IndexShape', Owning, SameLinks, SameHands, UNCHANGED <<inUse, elementsCompletelyDequeued>>,
           ppc' \notin {"destroy", "gone"} => ppc \notin {"destroy", "gone"},
           ppc' = "value" => ppc = "value"
    PROVE  Owning'
<1>1. OneOwner'
  BY OneOwnerFrame DEF Owning, SameHands
<1>2. Placed'
  BY PlacedFrame DEF Owning
<1>3. CountedEmpty'
  BY DEF Owning, CountedEmpty, SameHands
<1> QED BY <1>1, <1>2, <1>3 DEF Owning

LEMMA OwningRequisition ==
    ASSUME Types, IndexShape', SameLinks, Owning, NEW b \in Blocks \ inUse, Requisition(b)
    PROVE  Owning'
<1>1. /\ ppc = "requisition" /\ ppc' = "value" /\ newBlock' = b /\ inUse' = inUse \union {b}
      /\ elementsCompletelyDequeued' = [elementsCompletelyDequeued EXCEPT ![b] = 0]
      /\ UNCHANGED <<entries, pc, local>>
  BY DEF Requisition, index, consumers
<1>2. newBlock = Null /\ b \in Blocks /\ b # Null /\ elementsCompletelyDequeued \in [Blocks -> Nat]
  BY <1>1, ProducerAssumption DEF Types, Shape, MemoryShape, Positions
<1>3. ~HasPlace(b)
  BY <1>1, <1>2 DEF Owning, Placed
<1>4. OneOwner'
  BY <1>1, <1>2, <1>3 DEF Owning, OneOwner, HasPlace, Linked, Returning
<1>5. Placed'
  <2>1. ASSUME NEW x \in Blocks PROVE HasPlace(x)' <=> HasPlace(x) \/ x = b
    <3>1. x # Null
      BY ProducerAssumption
    <3> QED BY <1>1, <1>2, <3>1 DEF HasPlace, Returning
  <2> QED BY <1>1, <2>1 DEF Owning, Placed
<1>6. CountedEmpty'
  <2>1. BLOCK_SIZE \in Nat
    BY ProducerAssumption
  <2> QED BY <1>1, <1>2, <2>1 DEF Owning, CountedEmpty
<1> QED BY <1>4, <1>5, <1>6 DEF Owning

LEMMA OwningStoreBlock ==
    ASSUME Types, Indexed, Owning, StoreBlock
    PROVE  Owning'
<1>1. PICK e \in 1 .. Len(entries) :
        /\ ~Linked(e) /\ entries'[e].value = newBlock
        /\ \A f \in 1 .. Len(entries) : f # e => entries'[f] = entries[f]
  BY StoreBlockIs
<1>2. /\ Len(entries') = Len(entries) /\ newBlock \in Blocks /\ newBlock # Null
      /\ ppc = "value" /\ ppc' = "construct" /\ newBlock' = Null
      /\ UNCHANGED <<elementsCompletelyDequeued, pc, local, inUse>>
  BY StoreBlockIs DEF StoreBlock, consumers
<1>3. OneOwner'
  <2>1. ASSUME NEW f \in 1 .. Len(entries), entries'[f].value # Null
        PROVE  /\ entries'[f].value # Null
               /\ \A g \in 1 .. Len(entries) : entries'[g].value = entries'[f].value => f = g
               /\ \A c \in Consumers : ~Returning(c, entries'[f].value)
    <3>1. CASE f = e
      <4>1. \A g \in 1 .. Len(entries) : g # e => entries[g].value # newBlock
        BY <1>2 DEF Owning, OneOwner, Linked
      <4>2. \A c \in Consumers : ~Returning(c, newBlock)
        BY <1>2 DEF Owning, OneOwner, Returning
      <4> QED BY <1>1, <1>2, <3>1, <4>1, <4>2
    <3>2. CASE f # e
      <4>1. entries'[f] = entries[f] /\ Linked(f)
        BY <1>1, <2>1, <3>2 DEF Linked
      <4>2. /\ entries[f].value # newBlock
            /\ \A g \in 1 .. Len(entries) : entries[g].value = entries[f].value => f = g
            /\ \A c \in Consumers : ~Returning(c, entries[f].value)
        BY <4>1 DEF Owning, OneOwner
      <4> QED BY <1>1, <2>1, <4>1, <4>2
    <3> QED BY <3>1, <3>2
  <2>2. ASSUME NEW c \in Consumers, pc[c] = "return"
        PROVE  /\ local[c].entry \in Blocks /\ local[c].entry # Null
               /\ \A d \in Consumers : Returning(d, local[c].entry) => c = d
    BY <2>2, ProducerAssumption DEF Owning, OneOwner
  <2> QED BY <1>2, <2>1, <2>2 DEF OneOwner, Linked, Returning
<1>4. Placed'
  <2> SUFFICES ASSUME NEW b \in Blocks PROVE HasPlace(b)' <=> HasPlace(b)
    BY <1>2 DEF Owning, Placed
  <2>1. b # Null /\ entries[e].value = Null
    BY <1>1, ProducerAssumption DEF Linked
  <2>2. (\E f \in 1 .. Len(entries) : entries'[f].value = b)
            <=> b = newBlock \/ \E f \in 1 .. Len(entries) : entries[f].value = b
    BY <1>1, <2>1
  <2> QED BY <1>2, <2>1, <2>2 DEF HasPlace, Returning
<1>5. CountedEmpty'
  BY <1>2 DEF Owning, CountedEmpty
<1> QED BY <1>3, <1>4, <1>5 DEF Owning

LEMMA OwningUnlink ==
    ASSUME Types, Tracking, Owning, NEW c \in Consumers, Unlink(c)
    PROVE  Owning'
<1>1. PICK e \in 1 .. Len(entries) : e = local[c].entry
  BY UnlinkIs
<1>2. PICK b \in Blocks : b = entries[e].value
  BY <1>1, UnlinkIs, EntryTyped DEF Linked, Types
<1>3. /\ pc[c] = "unlink" /\ pc'[c] = "return" /\ local'[c].entry = b /\ Only(c)
      /\ UNCHANGED <<inUse, elementsCompletelyDequeued, newBlock, ppc>>
      /\ Len(entries') = Len(entries) /\ entries'[e].value = Null
      /\ \A f \in 1 .. Len(entries) : f # e => entries'[f] = entries[f]
  BY <1>1, <1>2, UnlinkIs
<1>4. b # Null
  BY ProducerAssumption
<1>5. /\ b # newBlock
      /\ \A f \in 1 .. Len(entries) : entries[f].value = b => e = f
      /\ \A d \in Consumers : ~Returning(d, b)
  BY <1>2, <1>4 DEF Owning, OneOwner, Linked
<1>6. \A d \in Consumers : \A x : (pc'[d] = "return" /\ local'[d].entry = x) <=> Returning(d, x) \/ (d = c /\ x = b)
  BY <1>3, <1>5 DEF Returning, Only
<1>7. OneOwner'
  <2>1. ASSUME NEW f \in 1 .. Len(entries), entries'[f].value # Null
        PROVE  /\ entries'[f].value # newBlock
               /\ \A g \in 1 .. Len(entries) : entries'[g].value = entries'[f].value => f = g
               /\ \A d \in Consumers : ~(pc'[d] = "return" /\ local'[d].entry = entries'[f].value)
    <3>1. f # e /\ entries'[f] = entries[f] /\ Linked(f) /\ entries[f].value # b
      BY <1>3, <1>5, <2>1 DEF Linked
    <3>2. /\ entries[f].value # newBlock
          /\ \A g \in 1 .. Len(entries) : entries[g].value = entries[f].value => f = g
          /\ \A d \in Consumers : ~Returning(d, entries[f].value)
      BY <3>1 DEF Owning, OneOwner
    <3>3. \A g \in 1 .. Len(entries) : entries'[g].value = entries'[f].value => f = g
      BY <1>3, <2>1, <3>1, <3>2
    <3>4. \A d \in Consumers : ~(pc'[d] = "return" /\ local'[d].entry = entries'[f].value)
      BY <1>6, <3>1, <3>2
    <3> QED BY <3>1, <3>2, <3>3, <3>4
  <2>2. ASSUME NEW d \in Consumers, pc'[d] = "return"
        PROVE  /\ local'[d].entry \in Blocks /\ local'[d].entry # newBlock
               /\ \A x \in Consumers : pc'[x] = "return" /\ local'[x].entry = local'[d].entry => d = x
    <3>1. CASE d = c
      <4>1. \A x \in Consumers : pc'[x] = "return" /\ local'[x].entry = b => x = c
        BY <1>5, <1>6
      <4> QED BY <1>3, <1>5, <3>1, <4>1
    <3>2. CASE d # c
      <4>1. pc[d] = "return" /\ local'[d] = local[d]
        BY <1>3, <2>2, <3>2 DEF Only
      <4>2. local[d].entry # b
        BY <1>5, <4>1 DEF Returning
      <4>3. \A x \in Consumers : Returning(x, local[d].entry) => d = x
        BY <4>1 DEF Owning, OneOwner
      <4>4. \A x \in Consumers : pc'[x] = "return" /\ local'[x].entry = local'[d].entry => d = x
        BY <1>6, <4>1, <4>2, <4>3
      <4>5. local[d].entry \in Blocks /\ local[d].entry # newBlock
        BY <4>1 DEF Owning, OneOwner
      <4> QED BY <4>1, <4>4, <4>5
    <3> QED BY <3>1, <3>2
  <2> QED BY <1>3, <2>1, <2>2 DEF OneOwner, Linked, Returning
<1>8. Placed'
  <2> SUFFICES ASSUME NEW x \in Blocks PROVE HasPlace(x)' <=> HasPlace(x)
    BY <1>3 DEF Owning, Placed
  <2>1. x # Null
    BY ProducerAssumption
  <2>2. (\E f \in 1 .. Len(entries) : entries[f].value = x)
            <=> x = b \/ \E f \in 1 .. Len(entries) : entries'[f].value = x
    BY <1>2, <1>3, <2>1
  <2>3. (\E d \in Consumers : pc'[d] = "return" /\ local'[d].entry = x)
            <=> x = b \/ \E d \in Consumers : Returning(d, x)
    BY <1>6
  <2> QED BY <1>3, <2>2, <2>3 DEF HasPlace, Returning
<1>9. CountedEmpty'
  BY <1>3 DEF Owning, CountedEmpty
<1> QED BY <1>7, <1>8, <1>9 DEF Owning

LEMMA OwningReturnBlock ==
    ASSUME Types, IndexShape', SameLinks, Owning, NEW c \in Consumers, ReturnBlock(c)
    PROVE  Owning'
<1>1. PICK b : b = local[c].entry
  OBVIOUS
<1>2. /\ pc[c] = "return" /\ pc'[c] = "idle" /\ inUse' = inUse \ {b} /\ Only(c)
      /\ UNCHANGED <<entries, newBlock, ppc, elementsCompletelyDequeued>>
  BY <1>1, OnlyOne, PcTyped DEF ReturnBlock, Return, Goto, index, producer, Consume
<1>3. OneOwner'
  <2>1. \A d \in Consumers : pc'[d] = "return" => pc[d] = "return" /\ local'[d] = local[d]
    BY <1>2 DEF Only
  <2> QED BY <1>2, <2>1, OneOwnerFrame DEF Owning
<1>4. Returning(c, b) /\ b \in Blocks /\ b # newBlock /\ b # Null
  BY <1>1, <1>2, ProducerAssumption DEF Owning, OneOwner, Returning
<1>5. \A d \in Consumers : Returning(d, b) => d = c
  BY <1>1, <1>2 DEF Owning, OneOwner
<1>6. \A e \in 1 .. Len(entries) : entries[e].value # b
  BY <1>4 DEF Owning, OneOwner, Linked
<1>7. \A x : (\E d \in Consumers : pc'[d] = "return" /\ local'[d].entry = x)
               <=> x # b /\ \E d \in Consumers : Returning(d, x)
  BY <1>1, <1>2, <1>5 DEF Returning, Only
<1>8. Placed'
  <2> SUFFICES ASSUME ppc \notin {"destroy", "gone"}, NEW x \in Blocks PROVE x \in inUse \ {b} <=> HasPlace(x)'
    BY <1>2 DEF Placed
  <2>1. x \in inUse <=> HasPlace(x)
    BY DEF Owning, Placed
  <2>2. HasPlace(x)' <=> x # b /\ HasPlace(x)
    BY <1>2, <1>4, <1>6, <1>7 DEF HasPlace, Returning
  <2> QED BY <2>1, <2>2
<1>9. CountedEmpty'
  BY <1>2 DEF Owning, CountedEmpty
<1> QED BY <1>3, <1>8, <1>9 DEF Owning

\* A block that counts one more element was not empty.
LEMMA OwningSetEmpty ==
    ASSUME Types, Indexed, Counting, Tracking, Owning, IndexShape', NEW c \in Consumers, SetEmpty(c)
    PROVE  Owning'
<1>1. PICK e \in 1 .. Len(entries) : e = local[c].entry
  BY SetEmptyIs
<1>2. PICK b \in Blocks : b = BlockOf(c) /\ b = entries[e].value
  BY <1>1, SetEmptyIs
<1>3. PICK n \in Nat : n = elementsCompletelyDequeued[b]
  BY <1>2, SetEmptyIs
<1>4. /\ pc[c] = "empty" /\ pc'[c] \in {"unlink", "idle"} /\ Only(c) /\ UNCHANGED <<entries, inUse>> /\ Linked(e)
      /\ elementsCompletelyDequeued'[b] = n + 1
      /\ \A x \in Blocks : x # b => elementsCompletelyDequeued'[x] = elementsCompletelyDequeued[x]
  BY <1>1, <1>2, <1>3, SetEmptyIs
<1>5. UNCHANGED <<ppc, newBlock>>
  BY ConsumerLeaves DEF Consume
<1>6. n + 1 <= BLOCK_SIZE
  <2>1. PICK k \in Nat : k = entries[e].key
    BY <1>1, SetEmptyIs
  <2>2. local[c].index \in IndicesOf(k) /\ local[c].index \notin Past
    BY <1>1, <2>1, SetEmptyIs
  <2>3. n = Cardinality(IndicesOf(k) \intersect Past)
    BY <1>2, <1>3, <1>4, <2>1 DEF Tracking, Links, LinkKept
  <2>4. n \in 0 .. BLOCK_SIZE /\ n # BLOCK_SIZE
    BY <2>2, <2>3, IndicesIn
  <2>5. BLOCK_SIZE \in Nat
    BY ProducerAssumption
  <2> QED BY <2>4, <2>5
<1>7. SameHands
  BY <1>4, <1>5 DEF SameHands, Only
<1>8. OneOwner' /\ Placed'
  <2>1. SameLinks
    BY <1>4, SameEntries
  <2>2. OneOwner'
    BY <1>7, <2>1, OneOwnerFrame DEF Owning, SameHands
  <2>3. Placed'
    BY <1>4, <1>5, <1>7, <2>1, PlacedFrame DEF Owning
  <2> QED BY <2>2, <2>3
<1>9. CountedEmpty'
  <2>1. \A x \in Blocks : elementsCompletelyDequeued'[x] <= BLOCK_SIZE
    BY <1>4, <1>6 DEF Owning, CountedEmpty
  <2>2. ppc = "value" => elementsCompletelyDequeued'[newBlock] = 0
    <3>1. newBlock # b
      BY <1>2, <1>4 DEF Owning, OneOwner
    <3>2. ppc = "value" => newBlock \in Blocks
      BY DEF Types, Shape, MemoryShape, Positions
    <3> QED BY <1>4, <3>1, <3>2 DEF Owning, CountedEmpty
  <2> QED BY <1>5, <2>1, <2>2 DEF CountedEmpty
<1> QED BY <1>8, <1>9 DEF Owning

\* The destructor: no block is in anybody's hands then.
LEMMA OwningDestructor ==
    ASSUME Types, IndexShape', Owning, SameLinks, Destroy \/ DestroyNext \/ DestroyEnd
    PROVE  Owning'
<1>1. /\ ppc' \in {"destroy", "gone"} /\ SameHands /\ UNCHANGED elementsCompletelyDequeued
  BY DEF Destroy, DestroyNext, DestroyEnd, SameHands, consumers, memory
<1>2. OneOwner'
  BY <1>1, OneOwnerFrame DEF Owning, SameHands
<1> QED BY <1>1, <1>2 DEF Owning, Placed, CountedEmpty

LEMMA OwningStep ==
    Types /\ Indexed /\ Counting /\ Tracking /\ Owning /\ [Next]_vars => Owning'
<1> SUFFICES ASSUME Types, Indexed, Counting, Tracking, Owning, [Next]_vars PROVE Owning'
  OBVIOUS
<1>1. IndexShape'
  BY IndexShapeStep
<1>2. CASE StoreBlock
  BY <1>2, OwningStoreBlock
<1>3. ASSUME NEW c \in Consumers, Unlink(c) PROVE Owning'
  BY <1>3, OwningUnlink
<1>4. CASE ~StoreBlock /\ ~ \E c \in Consumers : Unlink(c)
  <2>1. SameLinks
    BY <1>4, LinksStep
  <2>2. ASSUME NEW b \in Blocks \ inUse, Requisition(b) PROVE Owning'
    BY <1>1, <2>1, <2>2, OwningRequisition
  <2>3. ASSUME NEW c \in Consumers, ReturnBlock(c) PROVE Owning'
    BY <1>1, <2>1, <2>3, OwningReturnBlock
  <2>4. ASSUME NEW c \in Consumers, SetEmpty(c) PROVE Owning'
    BY <1>1, <2>4, OwningSetEmpty
  <2>5. CASE Destroy \/ DestroyNext \/ DestroyEnd
    BY <1>1, <2>1, <2>5, OwningDestructor
  <2>6. CASE \/ Enqueue \/ InsertKey \/ NewBlockIndex \/ NoBlockIndex \/ StoreTail \/ NoBlock \/ ClearEntry
             \/ Construct \/ Publish \/ UNCHANGED vars
    <3>1. /\ UNCHANGED <<inUse, elementsCompletelyDequeued>> /\ SameHands
          /\ ppc' \notin {"destroy", "gone"} => ppc \notin {"destroy", "gone"}
          /\ ppc' = "value" => ppc = "value"
      BY <2>6 DEF Enqueue, InsertKey, NewBlockIndex, NoBlockIndex, StoreTail, NoBlock, ClearEntry, Construct,
                  Publish, memory, producer, consumers, vars, SameHands
    <3> QED BY <1>1, <2>1, <3>1, OwningFrame
  <2>7. ASSUME NEW c \in Consumers,
               \/ LoadOvercommit(c) \/ Filter(c) \/ Count(c) \/ Recheck(c) \/ Overcommit(c) \/ Claim(c)
               \/ LoadHeader(c) \/ LoadTail(c) \/ FindEntry(c) \/ Move(c)
        PROVE  Owning'
    <3>1. /\ UNCHANGED <<inUse, elementsCompletelyDequeued, newBlock, ppc>>
          /\ pc[c] # "return" /\ pc'[c] # "return"
      BY <2>7, PcTyped DEF LoadOvercommit, Filter, Count, Recheck, Overcommit, Claim, LoadHeader, LoadTail,
                           FindEntry, Move, Goto, Return, memory, producer
    <3>2. Only(c)
      BY <2>7, OnlyOne DEF Consume
    <3>3. SameHands
      BY <3>1, <3>2 DEF SameHands, Only
    <3> QED BY <1>1, <2>1, <3>1, <3>3, OwningFrame
  <2> QED BY <1>4, <2>2, <2>3, <2>4, <2>5, <2>6, <2>7 DEF Next, Produce, Consume, Terminated
<1> QED BY <1>2, <1>3, <1>4

LEMMA OwningInit == Init => Owning
<1> SUFFICES ASSUME Init PROVE Owning
  OBVIOUS
<1>1. /\ \A c \in Consumers : pc[c] = "idle"
      /\ ppc = "idle" /\ inUse = {} /\ newBlock = Null
      /\ elementsCompletelyDequeued = [b \in Blocks |-> 0]
  BY DEF Init
<1>2. \A e \in 1 .. Len(entries) : entries[e].value = Null
  BY ProducerAssumption DEF Init
<1>3. \A b \in Blocks : b # Null
  BY ProducerAssumption
<1>4. BLOCK_SIZE \in Nat
  BY ProducerAssumption
<1> QED BY <1>1, <1>2, <1>3, <1>4 DEF Owning, OneOwner, Placed, HasPlace, CountedEmpty, Linked, Returning

-----------------------------------------------------------------------------
(* The elements in the blocks.                                             *)

\* Two indices of a block have two cells.
LEMMA CellsApart ==
    ASSUME NEW k \in Nat, k % BLOCK_SIZE = 0, NEW i \in IndicesOf(k), NEW j \in IndicesOf(k),
           i % BLOCK_SIZE = j % BLOCK_SIZE
    PROVE  i = j
<1>1. i \in Nat /\ j \in Nat /\ Base(i) = k /\ Base(j) = k
  BY BaseOnly
<1>2. i % BLOCK_SIZE \in Int
  <2>1. BLOCK_SIZE \in Nat \ {0}
    BY ProducerAssumption
  <2> QED BY <1>1, <2>1
<1>3. i - (i % BLOCK_SIZE) = j - (i % BLOCK_SIZE)
  BY <1>1 DEF Base
<1> DEFINE m == i % BLOCK_SIZE
<1> HIDE DEF m
<1>4. m \in Int /\ i - m = j - m
  BY <1>2, <1>3 DEF m
<1> QED BY <1>1, <1>4

LEMMA LinkedKey ==
    ASSUME Types, Tracking, NEW e \in 1 .. Len(entries), Linked(e)
    PROVE  /\ entries[e].key \in Nat /\ entries[e].key % BLOCK_SIZE = 0 /\ entries[e].key < Stored
           /\ entries[e].value \in Blocks
<1>1. LinkKept(e)
  BY DEF Tracking, Links
<1>2. Stored \in Int
  BY StoredIs
<1> QED BY <1>1, <1>2, EntryTyped DEF LinkKept, Linked, Types

\* No element comes in, and none is moved; blocks only leave the index.
LEMMA CellsFrame ==
    ASSUME Types, Tracking, CellsKept, cells' = cells,
           ppc' \notin {"destroy", "gone"} => ppc \notin {"destroy", "gone"},
           \A e \in 1 .. Len(entries') : entries'[e].value # Null =>
              e \in 1 .. Len(entries) /\ entries'[e] = entries[e],
           \A i \in Nat : Present(i)' => Present(i)
    PROVE  CellsKept'
<1> SUFFICES ASSUME ppc' \notin {"destroy", "gone"}, NEW e \in 1 .. Len(entries'), entries'[e].value # Null,
                    NEW i \in IndicesOf(entries'[e].key), Present(i)'
             PROVE  cells'[entries'[e].value][i % BLOCK_SIZE] = i
  BY DEF CellsKept, Linked, Full, IndicesOf
<1>1. e \in 1 .. Len(entries) /\ entries'[e] = entries[e] /\ Linked(e)
  BY DEF Linked
<1>2. i \in Nat
  <2>1. entries[e].key \in Nat /\ i \in IndicesOf(entries[e].key) /\ entries[e].key % BLOCK_SIZE = 0
    BY <1>1, LinkedKey
  <2> QED BY <2>1, BaseOnly
<1>3. Present(i)
  BY <1>2
<1> QED BY <1>1, <1>3 DEF CellsKept, Full

LEMMA CellsStoreBlock ==
    ASSUME Types, Indexed, Counting, Tracking, CellsKept, StoreBlock
    PROVE  CellsKept'
<1>1. PICK e \in 1 .. Len(entries) :
        /\ entries'[e].key = tailIndex
        /\ \A f \in 1 .. Len(entries) : f # e => entries'[f] = entries[f]
  BY StoreBlockIs
<1>2. /\ Len(entries') = Len(entries) /\ ppc = "value" /\ ppc' = "construct"
      /\ UNCHANGED <<cells, tailIndex, headIndex, pc, local>>
  BY StoreBlockIs DEF StoreBlock, counts, consumers
<1>3. \A i : Present(i)' => Present(i) /\ i < tailIndex
  BY <1>2 DEF Present, Waiting
<1> SUFFICES ASSUME NEW f \in 1 .. Len(entries), entries'[f].value # Null,
                    NEW i \in IndicesOf(entries'[f].key), Present(i)'
             PROVE  cells[entries'[f].value][i % BLOCK_SIZE] = i
  BY <1>2 DEF CellsKept, Linked, Full, IndicesOf
<1>4. f # e
  <2>1. ~ (i < tailIndex) \/ f # e
    BY <1>1, PcTyped, ProducerAssumption DEF IndicesOf
  <2> QED BY <1>3, <2>1
<1>5. entries'[f] = entries[f] /\ Linked(f) /\ Present(i)
  BY <1>1, <1>3, <1>4 DEF Linked
<1> QED BY <1>2, <1>5 DEF CellsKept, Full

\* The producer's block has the index it writes.
LEMMA TailBlockIs ==
    ASSUME Types, Tracking, Counting, Stored = tailIndex + 1
    PROVE  \E e \in 1 .. Len(entries) : Linked(e) /\ entries[e].key = Base(tailIndex) /\ entries[e].value = tailBlock
<1>1. tailIndex \in Nat /\ headIndex \in Nat /\ headIndex <= tailIndex /\ BLOCK_SIZE \in Nat
  BY PcTyped, HeadBehind, StoredIs DEF HeadBehindTail
<1>2. PICK k : k = Base(tailIndex)
  OBVIOUS
<1>3. k \in 0 .. tailIndex /\ k % BLOCK_SIZE = 0 /\ tailIndex \in IndicesOf(k)
  BY <1>1, <1>2, BaseIs
<1>4. tailIndex \notin Past
  BY <1>1 DEF Past
<1>5. k \in 0 .. Stored - 1
  BY <1>1, <1>3
<1>6. IndicesOf(k) \subseteq Past \/ Reachable(k)
  BY <1>3, <1>5 DEF Tracking, Covered
<1>7. PICK e \in 1 .. Len(entries) : entries[e].key = k /\ Linked(e)
  BY <1>3, <1>4, <1>6 DEF Reachable
<1>8. k + BLOCK_SIZE >= Stored
  BY <1>1, <1>3 DEF IndicesOf
<1>9. entries[e].value = tailBlock
  BY <1>7, <1>8 DEF Tracking, Links, LinkKept
<1> QED BY <1>2, <1>7, <1>9

LEMMA CellsConstruct ==
    ASSUME Types, Counting, Tracking, Owning, CellsKept, Construct
    PROVE  CellsKept'
<1>1. /\ ppc = "construct" /\ ppc' = "publish"
      /\ cells' = [cells EXCEPT ![tailBlock][tailIndex % BLOCK_SIZE] = tailIndex]
      /\ UNCHANGED <<entries, tailIndex, headIndex, pc, local>>
  BY DEF Construct, counts, index, consumers
<1>2. Stored = tailIndex + 1 /\ tailIndex \in Nat
  BY <1>1, PcTyped DEF Stored
<1>3. PICK k \in Nat : k = Base(tailIndex) /\ k % BLOCK_SIZE = 0 /\ tailIndex \in IndicesOf(k)
  BY <1>2, BaseIs
<1>4. PICK e \in 1 .. Len(entries) : Linked(e) /\ entries[e].key = k /\ entries[e].value = tailBlock
  BY <1>2, <1>3, TailBlockIs
<1>5. tailBlock \in Blocks
  BY <1>4, LinkedKey
<1> SUFFICES ASSUME NEW f \in 1 .. Len(entries), Linked(f), NEW i \in IndicesOf(entries[f].key), Present(i)'
             PROVE  cells'[entries[f].value][i % BLOCK_SIZE] = i
  BY <1>1 DEF CellsKept, Linked, Full, IndicesOf
<1>6. entries[f].key \in Nat /\ entries[f].key % BLOCK_SIZE = 0 /\ entries[f].value \in Blocks
  BY LinkedKey
<1>7. i \in Nat /\ i % BLOCK_SIZE \in 0 .. BLOCK_SIZE - 1 /\ tailIndex % BLOCK_SIZE \in 0 .. BLOCK_SIZE - 1
  <2>1. i \in Nat
    BY <1>6, BaseOnly
  <2>2. BLOCK_SIZE \in Nat \ {0}
    BY ProducerAssumption
  <2>3. i \in Int /\ tailIndex \in Int
    BY <1>2, <2>1
  <2>4. i % BLOCK_SIZE \in 0 .. BLOCK_SIZE - 1
    BY <2>2, <2>3, DivMod
  <2>5. tailIndex % BLOCK_SIZE \in 0 .. BLOCK_SIZE - 1
    BY <2>2, <2>3, DivMod
  <2> QED BY <2>1, <2>4, <2>5
<1>8. cells \in [Blocks -> [0 .. BLOCK_SIZE - 1 -> 0 .. MaxElements \union {Null}]]
  BY DEF Types, Shape, MemoryShape
<1>9. CASE i = tailIndex
  <2>1. entries[f].key + BLOCK_SIZE >= Stored
    BY <1>2, <1>6, <1>9, ProducerAssumption DEF IndicesOf
  <2>2. entries[f].value = tailBlock
    BY <2>1 DEF Tracking, Links, LinkKept
  <2> DEFINE m == i % BLOCK_SIZE
  <2>3. cells' = [cells EXCEPT ![tailBlock][m] = i] /\ m \in 0 .. BLOCK_SIZE - 1
    BY <1>1, <1>7, <1>9
  <2> HIDE DEF m
  <2>4. cells'[tailBlock][m] = i
    BY <1>5, <1>8, <2>3
  <2> QED BY <2>2, <2>4 DEF m
<1>10. CASE i # tailIndex
  <2>1. Present(i)
    BY <1>1, <1>10 DEF Present, Waiting
  <2>2. cells[entries[f].value][i % BLOCK_SIZE] = i
    BY <1>1, <2>1 DEF CellsKept, Full
  <2>3. entries[f].value = tailBlock => i % BLOCK_SIZE # tailIndex % BLOCK_SIZE
    <3> SUFFICES ASSUME entries[f].value = tailBlock PROVE i % BLOCK_SIZE # tailIndex % BLOCK_SIZE
      OBVIOUS
    <3>1. f = e
      BY <1>4 DEF Owning, OneOwner
    <3>2. i \in IndicesOf(k)
      BY <1>4, <3>1
    <3> QED BY <1>3, <1>10, <3>2, CellsApart
  <2> QED BY <1>1, <1>5, <1>6, <1>7, <1>8, <2>2, <2>3
<1> QED BY <1>9, <1>10

LEMMA CellsMove ==
    ASSUME Types, Counting, Tracking, Owning, CellsKept, NEW c \in Consumers, Move(c)
    PROVE  CellsKept'
<1>1. /\ pc[c] = "move" /\ pc'[c] = "empty" /\ local' = local
      /\ cells' = [cells EXCEPT ![BlockOf(c)][local[c].index % BLOCK_SIZE] = Null]
      /\ UNCHANGED <<entries, tailIndex, headIndex, ppc>>
  BY PcTyped DEF Move, Goto, counts, index, producer
<1>2. Only(c) /\ Holding(c)
  BY <1>1, OnlyOne DEF Consume, Holding
<1>3. PICK i \in Nat : i = local[c].index
  BY PcTyped
<1>4. PICK k \in Nat : k = Base(i) /\ k % BLOCK_SIZE = 0 /\ i \in IndicesOf(k)
  BY BaseIs
<1>5. PICK e \in 1 .. Len(entries) : e = local[c].entry /\ Linked(e) /\ entries[e].key = k
  BY <1>1, <1>3, <1>4 DEF Types, Positions, Tracking, OnTrack
<1>6. PICK b \in Blocks : b = BlockOf(c) /\ b = entries[e].value
  BY <1>5, LinkedKey DEF BlockOf
<1>7. i < headIndex /\ headIndex \in Nat
  BY <1>2, <1>3, Held, PcTyped
<1>8. \A x : Present(x)' => Present(x) /\ x # i
  <2>1. \A d \in Consumers : Waiting(d)' <=> Waiting(d) /\ d # c
    BY <1>1, <1>2 DEF Waiting, Only
  <2>2. \A d \in Consumers : d # c /\ Waiting(d) => local[d].index # i
    BY <1>2, <1>3 DEF Tracking, Apart, Holding, Waiting
  <2> QED BY <1>1, <1>7, <2>1, <2>2 DEF Present
<1> SUFFICES ASSUME ppc \notin {"destroy", "gone"}, NEW f \in 1 .. Len(entries), Linked(f),
                    NEW j \in IndicesOf(entries[f].key), Present(j)'
             PROVE  cells'[entries[f].value][j % BLOCK_SIZE] = j
  BY <1>1 DEF CellsKept, Linked, Full, IndicesOf
<1>9. entries[f].key \in Nat /\ entries[f].key % BLOCK_SIZE = 0 /\ entries[f].value \in Blocks
  BY LinkedKey
<1>10. cells[entries[f].value][j % BLOCK_SIZE] = j
  BY <1>8 DEF CellsKept, Full
<1>11. entries[f].value = b => j % BLOCK_SIZE # i % BLOCK_SIZE
  <2> SUFFICES ASSUME entries[f].value = b PROVE j % BLOCK_SIZE # i % BLOCK_SIZE
    OBVIOUS
  <2>1. f = e
    BY <1>5, <1>6 DEF Owning, OneOwner
  <2>2. j \in IndicesOf(k) /\ j # i
    BY <1>5, <1>8, <2>1
  <2> QED BY <1>4, <2>2, CellsApart
<1>12. cells \in [Blocks -> [0 .. BLOCK_SIZE - 1 -> 0 .. MaxElements \union {Null}]]
  BY DEF Types, Shape, MemoryShape
<1> DEFINE m == i % BLOCK_SIZE
           n == j % BLOCK_SIZE
<1>13. /\ cells' = [cells EXCEPT ![b][m] = Null] /\ cells[entries[f].value][n] = j
       /\ entries[f].value = b => n # m
  BY <1>1, <1>3, <1>6, <1>10, <1>11
<1> HIDE DEF m, n
<1>14. cells'[entries[f].value][n] = j
  BY <1>9, <1>12, <1>13
<1> QED BY <1>14 DEF n

\* No step but StoreBlock puts a block into the index.
LEMMA LinksLeave ==
    ASSUME Types, Indexed, Tracking, [Next]_vars, ~StoreBlock, NEW e \in 1 .. Len(entries'), entries'[e].value # Null
    PROVE  e \in 1 .. Len(entries) /\ entries'[e] = entries[e]
<1>1. SameLinks \/ \E c \in Consumers : Unlink(c)
  BY LinksStep
<1>2. ASSUME NEW c \in Consumers, Unlink(c) PROVE e \in 1 .. Len(entries) /\ entries'[e] = entries[e]
  BY <1>2, UnlinkIs
<1> QED BY <1>1, <1>2 DEF SameLinks

LEMMA CellsStep ==
    Types /\ Indexed /\ Counting /\ Tracking /\ Owning /\ CellsKept /\ [Next]_vars => CellsKept'
<1> SUFFICES ASSUME Types, Indexed, Counting, Tracking, Owning, CellsKept, [Next]_vars PROVE CellsKept'
  OBVIOUS
<1>1. CASE StoreBlock
  BY <1>1, CellsStoreBlock
<1>2. CASE Construct
  BY <1>2, CellsConstruct
<1>3. ASSUME NEW c \in Consumers, Move(c) PROVE CellsKept'
  BY <1>3, CellsMove
<1>4. CASE Destroy \/ DestroyNext \/ DestroyEnd
  BY <1>4 DEF Destroy, DestroyNext, DestroyEnd, CellsKept
<1>5. ASSUME ~StoreBlock, cells' = cells, ppc' \notin {"destroy", "gone"} => ppc \notin {"destroy", "gone"},
             \A i \in Nat : Present(i)' => Present(i)
      PROVE  CellsKept'
  <2>1. \A e \in 1 .. Len(entries') : entries'[e].value # Null => e \in 1 .. Len(entries) /\ entries'[e] = entries[e]
    BY <1>5, LinksLeave
  <2> QED BY <1>5, <2>1, CellsFrame
<1>6. CASE Publish
  <2>1. ~StoreBlock
    BY <1>6 DEF Publish, StoreBlock
  <2>2. /\ ppc = "publish" /\ ppc' = "idle" /\ tailIndex' = tailIndex + 1
        /\ UNCHANGED <<cells, headIndex, pc, local>>
    BY <1>6 DEF Publish, memory, consumers
  <2>3. \A i \in Nat : Present(i)' => Present(i)
    BY <2>2, PcTyped DEF Present, Waiting
  <2> QED BY <1>5, <2>1, <2>2, <2>3
<1>7. ASSUME NEW c \in Consumers, LoadOvercommit(c) \/ Consume(c), ~Move(c) PROVE CellsKept'
  <2>1. ~StoreBlock /\ Only(c) /\ UNCHANGED <<tailIndex, ppc>>
    BY <1>7, ConsumerLeaves
  <2>2. cells' = cells
    BY <1>7 DEF LoadOvercommit, Consume, Filter, Count, Recheck, Overcommit, Claim, LoadHeader, LoadTail,
                FindEntry, SetEmpty, Unlink, ReturnBlock, memory
  <2>3. CASE Claim(c)
    <3>1. local'[c].index = headIndex /\ headIndex' = headIndex + 1 /\ headIndex \in Nat
      BY <2>3, PcTyped DEF Claim, Set
    <3>2. \A d \in Consumers : Waiting(d)' /\ d # c => Waiting(d) /\ local'[d] = local[d]
      BY <2>1 DEF Waiting, Only
    <3>3. \A i \in Nat : Present(i)' => Present(i)
      BY <2>1, <3>1, <3>2 DEF Present
    <3> QED BY <1>5, <2>1, <2>2, <3>3
  <2>4. CASE ~Claim(c)
    <3>1. Waiting(c)' => Waiting(c) /\ local'[c].index = local[c].index
      BY <1>7, <2>4, PcTyped DEF LoadOvercommit, Consume, Filter, Count, Recheck, Overcommit, LoadHeader, LoadTail,
                FindEntry, SetEmpty, Unlink, ReturnBlock, Goto, Set, Return, Waiting
    <3>2. \A d \in Consumers : Waiting(d)' => Waiting(d) /\ local'[d].index = local[d].index
      BY <2>1, <3>1 DEF Waiting, Only
    <3>3. headIndex' = headIndex
      BY <1>7, <2>4 DEF LoadOvercommit, Consume, Filter, Count, Recheck, Overcommit, LoadHeader, LoadTail,
                FindEntry, SetEmpty, Unlink, ReturnBlock, counts
    <3>4. \A i \in Nat : Present(i)' => Present(i)
      BY <2>1, <3>2, <3>3 DEF Present
    <3> QED BY <1>5, <2>1, <2>2, <3>4
  <2> QED BY <2>3, <2>4
<1>8. CASE \/ Enqueue \/ InsertKey \/ NewBlockIndex \/ NoBlockIndex \/ StoreTail \/ NoBlock \/ ClearEntry
           \/ (\E b \in Blocks \ inUse : Requisition(b)) \/ UNCHANGED vars
  <2>1. /\ UNCHANGED <<cells, tailIndex, headIndex, pc, local>>
        /\ ppc' = "publish" => ppc = "publish"
        /\ ppc' \notin {"destroy", "gone"} => ppc \notin {"destroy", "gone"}
    BY <1>8 DEF Enqueue, InsertKey, NewBlockIndex, NoBlockIndex, StoreTail, NoBlock, ClearEntry, Requisition,
                memory, counts, producer, consumers, vars
  <2>2. \A i \in Nat : Present(i)' => Present(i)
    BY <2>1 DEF Present, Waiting
  <2> QED BY <1>1, <1>5, <2>1, <2>2
<1> QED BY <1>1, <1>2, <1>3, <1>4, <1>6, <1>7, <1>8 DEF Next, Produce, Consume, Terminated

LEMMA CellsInit == Init => CellsKept
<1> SUFFICES ASSUME Init PROVE CellsKept
  OBVIOUS
<1>1. \A e \in 1 .. Len(entries) : entries[e].value = Null
  BY ProducerAssumption DEF Init
<1> QED BY <1>1 DEF CellsKept, Linked

\* The element that a call has claimed is where the call will look for it.
LEMMA FindsElementIs ==
    ASSUME Types, Counting, Tracking, Owning, CellsKept
    PROVE  FindsElement
<1> SUFFICES ASSUME NEW c \in Consumers, pc[c] = "move"
             PROVE  /\ entries[local[c].entry].key = Base(local[c].index)
                    /\ BlockOf(c) \in inUse
                    /\ cells[BlockOf(c)][local[c].index % BLOCK_SIZE] = local[c].index
  BY DEF FindsElement
<1>1. ppc \notin {"destroy", "gone"}
  BY DEF Types, Positions
<1>2. PICK e \in 1 .. Len(entries) : e = local[c].entry /\ Linked(e) /\ entries[e].key = Base(local[c].index)
  BY DEF Types, Positions, Tracking, OnTrack
<1>3. Holding(c) /\ Waiting(c)
  BY DEF Holding, Waiting
<1>4. local[c].index \in IndicesOf(entries[e].key) /\ local[c].index < tailIndex
  BY <1>2, <1>3, Held
<1>5. Present(local[c].index)
  BY <1>3, <1>4 DEF Present
<1>6. cells[entries[e].value][local[c].index % BLOCK_SIZE] = local[c].index
  BY <1>1, <1>2, <1>4, <1>5 DEF CellsKept, Full
<1>7. entries[e].value \in inUse
  BY <1>1, <1>2, LinkedInUse DEF Owning
<1> QED BY <1>2, <1>6, <1>7 DEF BlockOf

\* What Move hands over is the element of its index.
LEMMA MoveHands ==
    ASSUME Types, Counting, Tracking, Owning, CellsKept, NEW c \in Consumers, Move(c)
    PROVE  handed' = handed \union {local[c].index}
<1>1. pc[c] = "move" /\ handed' = handed \union {cells[BlockOf(c)][local[c].index % BLOCK_SIZE]}
  BY DEF Move
<1>2. cells[BlockOf(c)][local[c].index % BLOCK_SIZE] = local[c].index
  BY <1>1, FindsElementIs DEF FindsElement
<1> QED BY <1>1, <1>2

LEMMA HandedStep ==
    Types /\ Counting /\ Tracking /\ Owning /\ CellsKept /\ HandedKept /\ [Next]_vars => HandedKept'
<1> SUFFICES ASSUME Types, Counting, Tracking, Owning, CellsKept, HandedKept, [Next]_vars PROVE HandedKept'
  OBVIOUS
<1>1. headIndex \in Nat
  BY PcTyped
<1>2. ASSUME NEW c \in Consumers, Move(c) PROVE HandedKept'
  <2>1. /\ pc[c] = "move" /\ pc'[c] = "empty" /\ local' = local /\ headIndex' = headIndex
    BY <1>2, PcTyped DEF Move, Goto, counts
  <2>2. Only(c) /\ Holding(c)
    BY <1>2, <2>1, OnlyOne DEF Consume, Holding
  <2>3. handed' = handed \union {local[c].index}
    BY <1>2, MoveHands
  <2>4. local[c].index \in 0 .. headIndex - 1
    BY <1>1, <2>2, Held
  <2>5. ASSUME NEW d \in Consumers, Waiting(d)' PROVE local'[d].index \notin handed'
    <3>1. d # c /\ Waiting(d)
      BY <2>1, <2>2, <2>5 DEF Waiting, Only
    <3>2. local[d].index # local[c].index
      BY <2>2, <3>1 DEF Tracking, Apart, Holding, Waiting
    <3> QED BY <2>1, <2>3, <3>1, <3>2 DEF HandedKept
  <2> QED BY <2>1, <2>3, <2>4, <2>5 DEF HandedKept
<1>3. ASSUME NEW c \in Consumers, Claim(c) PROVE HandedKept'
  <2>1. local'[c].index = headIndex /\ headIndex' = headIndex + 1 /\ handed' = handed
    BY <1>3, PcTyped DEF Claim, Set
  <2>2. Only(c)
    BY <1>3, OnlyOne DEF Consume
  <2>3. \A d \in Consumers : Waiting(d)' => local'[d].index \notin handed
    BY <1>1, <2>1, <2>2 DEF HandedKept, Waiting, Only
  <2>4. handed \subseteq 0 .. headIndex' - 1
    BY <1>1, <2>1 DEF HandedKept
  <2> QED BY <2>1, <2>3, <2>4 DEF HandedKept
<1>4. ASSUME UNCHANGED <<headIndex, handed>>,
             \A d \in Consumers : Waiting(d)' => Waiting(d) /\ local'[d].index = local[d].index
      PROVE  HandedKept'
  BY <1>4 DEF HandedKept
<1>5. ASSUME NEW c \in Consumers, LoadOvercommit(c) \/ Consume(c), ~Move(c), ~Claim(c) PROVE HandedKept'
  <2>1. Waiting(c)' => Waiting(c) /\ local'[c].index = local[c].index
    BY <1>5, PcTyped DEF LoadOvercommit, Consume, Filter, Count, Recheck, Overcommit, LoadHeader, LoadTail,
              FindEntry, SetEmpty, Unlink, ReturnBlock, Goto, Set, Return, Waiting
  <2>2. Only(c)
    BY <1>5, ConsumerLeaves
  <2>3. \A d \in Consumers : Waiting(d)' => Waiting(d) /\ local'[d].index = local[d].index
    BY <2>1, <2>2 DEF Waiting, Only
  <2>4. UNCHANGED <<headIndex, handed>>
    BY <1>5 DEF LoadOvercommit, Consume, Filter, Count, Recheck, Overcommit, LoadHeader, LoadTail,
              FindEntry, SetEmpty, Unlink, ReturnBlock, counts
  <2> QED BY <1>4, <2>3, <2>4
<1>6. CASE Enqueue \/ Produce \/ Destroy \/ DestroyNext \/ DestroyEnd \/ UNCHANGED vars
  <2>1. UNCHANGED <<headIndex, handed, pc, local>>
    BY <1>6 DEF Enqueue, Produce, InsertKey, NewBlockIndex, NoBlockIndex, StoreTail, Requisition, NoBlock, ClearEntry,
                StoreBlock, Construct, Publish, Destroy, DestroyNext, DestroyEnd, counts, consumers, vars
  <2> QED BY <1>4, <2>1 DEF Waiting
<1> QED BY <1>2, <1>3, <1>5, <1>6 DEF Next, Terminated, Consume

LEMMA HandedInit == Init => HandedKept
<1> SUFFICES ASSUME Init PROVE HandedKept
  OBVIOUS
<1>1. handed = {} /\ \A c \in Consumers : pc[c] = "idle"
  BY DEF Init
<1> QED BY <1>1 DEF HandedKept, Waiting

-----------------------------------------------------------------------------
(* The destructor.                                                         *)

\* When no call is running, no block in the index is empty.
LEMMA QuietLinked ==
    ASSUME Types, Tracking, \A c \in Consumers : pc[c] = "idle", NEW e \in 1 .. Len(entries), Linked(e)
    PROVE  entries[e].key + BLOCK_SIZE > headIndex
<1>1. entries[e].key \in Nat /\ headIndex \in Nat /\ BLOCK_SIZE \in Nat
  BY LinkedKey, PcTyped, ProducerAssumption
<1>2. ~(IndicesOf(entries[e].key) \subseteq Past)
  BY DEF Tracking, Links, LinkKept
<1>3. PICK i \in IndicesOf(entries[e].key) : i \notin Past
  BY <1>2
<1>4. i \notin 0 .. headIndex - 1
  BY <1>3 DEF Past, Holding
<1> QED BY <1>1, <1>4 DEF IndicesOf

\* Then an index that was not claimed leads to its entry.
LEMMA DestroyFinds ==
    ASSUME Types, Indexed, Tracking, NEW i \in Nat, headIndex <= i, i < tailIndex,
           NEW e, e = EntryAt(blockIndex, LastTail + (Base(i) - entries[EntryAt(blockIndex, LastTail)].key) \div BLOCK_SIZE)
    PROVE  e \in 1 .. Len(entries) /\ Linked(e) /\ entries[e].key = Base(i)
<1>1. tailIndex \in Nat /\ headIndex \in Nat /\ Stored \in {tailIndex, tailIndex + 1}
  BY PcTyped, StoredIs
<1>2. Base(i) \in 0 .. i /\ Base(i) % BLOCK_SIZE = 0 /\ i \in IndicesOf(Base(i))
  BY BaseIs
<1>3. i \notin Past
  BY <1>1 DEF Past
<1>4. Base(i) \in 0 .. Stored - 1
  <2> HIDE DEF Base
  <2> QED BY <1>1, <1>2
<1>5. Reachable(Base(i))
  <2>1. IndicesOf(Base(i)) \subseteq Past \/ Reachable(Base(i))
    BY <1>2, <1>4 DEF Tracking, Covered
  <2> QED BY <1>2, <1>3, <2>1
<1>6. Leads(blockIndex, Base(i))
  BY <1>5, LastLeads
<1>7. PICK p \in 0 .. Capacity(blockIndex) - 1 :
        Linked(EntryAt(blockIndex, p)) /\ entries[EntryAt(blockIndex, p)].key = Base(i)
  BY <1>6 DEF Leads
<1>8. PICK h \in 1 .. Len(headers) : h = blockIndex
  BY LastHeader DEF Types
<1>9. PICK q \in 0 .. Capacity(h) - 1 : q = LastTail
  BY <1>8, LastHeader DEF Types, LastTail
<1>10. Valid(EntryAt(h, q))
  <2>1. tailIndex >= 1
    BY <1>1
  <2> QED BY <1>8, <1>9, <2>1, TailValid DEF LastTail
<1>11. p \in 0 .. Capacity(h) - 1 /\ EntryAt(h, p) \in 1 .. Len(entries)
  <2>1. p \in Int
    OBVIOUS
  <2> QED BY <1>8, <2>1, EntryIn DEF Types
<1>12. Valid(EntryAt(h, p)) /\ Linked(EntryAt(h, p)) /\ entries[EntryAt(h, p)].key = Base(i)
  BY <1>7, <1>8, <1>11, RoomIsNull DEF Linked
<1>13. Aligned(h)
  BY IndexAligned
<1>14. EntryAt(h, q + (entries[EntryAt(h, p)].key - entries[EntryAt(h, q)].key) \div BLOCK_SIZE) = EntryAt(h, p)
  BY <1>10, <1>11, <1>12, <1>13, IndexLeads
<1>15. e = EntryAt(h, p)
  BY <1>8, <1>9, <1>12, <1>14
<1> QED BY <1>11, <1>12, <1>15

LEMMA DestroyBegins ==
    ASSUME Types, Counting, Tracking, Owning, Destroy
    PROVE  Destroying'
<1>1. /\ ppc = "idle" /\ ppc' = "destroy" /\ dtor' = [index |-> headIndex, block |-> Null]
      /\ \A c \in Consumers : pc[c] = "idle"
      /\ UNCHANGED <<entries, inUse, headIndex, tailIndex>>
  BY DEF Destroy, Quiet, index, memory, counts
<1>2. headIndex \in Nat /\ tailIndex \in Nat /\ headIndex <= tailIndex
  BY PcTyped, HeadBehind DEF HeadBehindTail
<1>3. inUse = From(0)
  <2>1. \A b \in Blocks : b \in inUse <=> HasPlace(b)
    BY <1>1 DEF Owning, Placed
  <2>2. \A b \in Blocks : HasPlace(b) <=> \E e \in 1 .. Len(entries) : entries[e].value = b
    <3>1. newBlock = Null /\ \A b \in Blocks : b # Null
      BY <1>1, ProducerAssumption DEF Types, Positions
    <3> QED BY <1>1, <3>1 DEF HasPlace, Returning
  <2>3. inUse \subseteq Blocks /\ Null \notin Blocks
    BY ProducerAssumption DEF Types, Shape, MemoryShape
  <2>4. \A e \in 1 .. Len(entries) : Linked(e) => entries[e].value \in Blocks /\ entries[e].key \in Nat
    BY LinkedKey
  <2>5. From(0) = {entries[e].value : e \in {f \in 1 .. Len(entries) : Linked(f)}}
    <3>1. \A e \in 1 .. Len(entries) : Linked(e) => entries[e].key >= 0
      BY <2>4
    <3> QED BY <3>1 DEF From
  <2>6. \A b : b \in inUse <=> \E e \in 1 .. Len(entries) : Linked(e) /\ entries[e].value = b
    BY <2>1, <2>2, <2>3, <2>4 DEF Linked
  <2>7. \A b : b \in From(0) <=> \E e \in 1 .. Len(entries) : Linked(e) /\ entries[e].value = b
    BY <2>5
  <2> QED BY <2>6, <2>7
<1>4. From(0)' = From(0)
  BY <1>1 DEF From, Linked
<1> QED BY <1>1, <1>2, <1>3, <1>4 DEF Destroying, Freeing, AllReturned

\* One element: the block before is given back when the loop enters another.
LEMMA DestroyGoesOn ==
    ASSUME Types, Indexed, Counting, Tracking, Owning, Destroying, DestroyNext
    PROVE  Destroying'
<1>1. PICK i \in Nat : i = dtor.index
  BY DEF Types, Shape, MemoryShape
<1>2. /\ ppc = "destroy" /\ ppc' = "destroy" /\ i # tailIndex
      /\ headIndex \in Nat /\ tailIndex \in Nat /\ headIndex <= i /\ i < tailIndex
      /\ UNCHANGED <<entries, headIndex, tailIndex>>
  <2>1. ppc = "destroy" /\ ppc' = "destroy" /\ i # tailIndex /\ UNCHANGED <<entries, headIndex, tailIndex>>
    BY <1>1 DEF DestroyNext, counts, index
  <2>2. headIndex <= i /\ i <= tailIndex
    BY <1>1, <2>1 DEF Destroying, Freeing
  <2>3. headIndex \in Nat /\ tailIndex \in Nat
    BY PcTyped
  <2> QED BY <2>1, <2>2, <2>3
<1>3. \A c \in Consumers : pc[c] = "idle"
  BY <1>2 DEF Types, Positions
<1>4. PICK e : e = EntryAt(blockIndex, LastTail + (Base(i) - entries[EntryAt(blockIndex, LastTail)].key) \div BLOCK_SIZE)
  OBVIOUS
<1>5. e \in 1 .. Len(entries) /\ Linked(e) /\ entries[e].key = Base(i)
  BY <1>2, <1>4, DestroyFinds
<1>6. LET enters == i % BLOCK_SIZE = 0 \/ dtor.block = Null
          block == IF enters THEN entries[e].value ELSE dtor.block
      IN  /\ inUse' = IF enters THEN inUse \ {dtor.block} ELSE inUse
          /\ dtor' = [index |-> i + 1, block |-> block]
  BY <1>1, <1>4 DEF DestroyNext, LastTail
<1>7. \A f \in 1 .. Len(entries) : Linked(f) =>
        /\ entries[f].key \in Nat /\ entries[f].key % BLOCK_SIZE = 0
        /\ entries[f].value \in Blocks /\ entries[f].key + BLOCK_SIZE > headIndex
  BY <1>3, LinkedKey, QuietLinked
<1>8. PICK k \in Nat : k = Base(i) /\ k <= i /\ k % BLOCK_SIZE = 0 /\ i \in IndicesOf(k)
  BY BaseIs
<1>9. dtor'.index = i + 1 /\ headIndex < i + 1 /\ i + 1 <= tailIndex /\ Base(dtor'.index - 1) = k
  BY <1>2, <1>6, <1>8
<1>10. From(k)' = From(k)
  BY <1>2 DEF From, Linked
<1>11. inUse' = From(k) /\ dtor'.block = entries[e].value
  <2>1. CASE i = headIndex
    <3>1. dtor.block = Null /\ inUse = From(0) /\ inUse \subseteq Blocks /\ Null \notin Blocks
      BY <1>1, <1>2, <2>1, ProducerAssumption DEF Destroying, Freeing, Types, Shape, MemoryShape
    <3>2. inUse' = inUse /\ dtor'.block = entries[e].value
      BY <1>6, <3>1
    <3>3. ASSUME NEW f \in 1 .. Len(entries), Linked(f) PROVE entries[f].key >= k /\ entries[f].key >= 0
      <4>1. entries[f].key < k => entries[f].key + BLOCK_SIZE <= k
        BY <1>7, <1>8, <3>3, NextBase
      <4> QED BY <1>2, <1>7, <1>8, <2>1, <3>3, <4>1, ProducerAssumption
    <3>4. From(0) = From(k)
      BY <3>3 DEF From
    <3> QED BY <3>1, <3>2, <3>4
  <2>2. CASE i # headIndex
    <3>1. i - 1 \in Nat /\ i > headIndex
      BY <1>2, <2>2
    <3>2. PICK g \in 1 .. Len(entries) : Linked(g) /\ entries[g].key = Base(i - 1) /\ dtor.block = entries[g].value
      BY <1>1, <1>2, <3>1 DEF Destroying, Freeing
    <3>3. PICK l \in Nat : l = Base(i - 1) /\ l <= i - 1 /\ l % BLOCK_SIZE = 0 /\ i - 1 \in IndicesOf(l)
      BY <3>1, BaseIs, SMTT(30)
    <3>4. inUse = From(l)
      BY <1>1, <1>2, <3>1, <3>3 DEF Destroying, Freeing
    <3>5. dtor.block # Null
      BY <3>2 DEF Linked
    <3>6. CASE i % BLOCK_SIZE = 0
      <4>1. k = i
        BY <1>8, <3>6 DEF Base
      <4>2. inUse' = inUse \ {entries[g].value} /\ dtor'.block = entries[e].value
        BY <1>6, <3>2, <3>6
      <4>3. ASSUME NEW f \in 1 .. Len(entries), Linked(f)
            PROVE  entries[f].key >= k <=> entries[f].key >= l /\ f # g
        <5>1. entries[f].key \in Nat /\ entries[f].key % BLOCK_SIZE = 0 /\ entries[g].key = l
          BY <1>7, <3>2, <3>3, <4>3
        <5>2. entries[f].key < k => entries[f].key + BLOCK_SIZE <= k
          BY <1>8, <5>1, NextBase
        <5>3. l + BLOCK_SIZE <= k
          BY <1>8, <3>1, <3>3, <4>1, NextBase
        <5>4. k <= l + BLOCK_SIZE
          BY <3>1, <3>3, <4>1, ProducerAssumption DEF IndicesOf
        <5>5. f # g => entries[f].key # l
          <6>1. Valid(f) /\ Valid(g)
            BY <3>2, <4>3, RoomIsNull DEF Linked
          <6> QED BY <5>1, <6>1, KeysUnique
        <5>6. BLOCK_SIZE \in Nat /\ BLOCK_SIZE >= 1
          BY ProducerAssumption
        <5> QED BY <5>1, <5>2, <5>3, <5>4, <5>5, <5>6
      <4>4. \A f \in 1 .. Len(entries) : Linked(f) => (entries[f].value = entries[g].value <=> f = g)
        BY <3>2 DEF Owning, OneOwner
      <4>5. From(k) = From(l) \ {entries[g].value}
        BY <4>3, <4>4 DEF From
      <4> QED BY <3>4, <4>2, <4>5
    <3>7. CASE i % BLOCK_SIZE # 0
      <4>1. k # i
        BY <1>8, <3>7
      <4>2. i - 1 \in IndicesOf(k)
        BY <1>8, <4>1, ProducerAssumption DEF IndicesOf
      <4>3. k = l
        BY <1>8, <3>3, <4>2, BaseOnly
      <4>4. inUse' = inUse /\ dtor'.block = dtor.block
        BY <1>6, <3>5, <3>7
      <4>5. e = g
        <5>1. Valid(e) /\ Valid(g)
          BY <1>5, <3>2, RoomIsNull DEF Linked
        <5> QED BY <1>5, <1>8, <3>2, <3>3, <4>3, <5>1, KeysUnique
      <4> QED BY <3>2, <3>4, <4>3, <4>4, <4>5
    <3> QED BY <3>6, <3>7
  <2> QED BY <2>1, <2>2
<1>12. AllReturned'
  BY <1>2 DEF AllReturned
<1>13. \E f \in 1 .. Len(entries') : entries'[f].value # Null /\ entries'[f].key = k /\ dtor'.block = entries'[f].value
  BY <1>2, <1>5, <1>8, <1>11 DEF Linked
<1>14. inUse' = From(Base(dtor.index - 1))'
  <2>1. From(Base(dtor.index - 1))' = From(k)'
    BY <1>9 DEF From
  <2> QED BY <1>10, <1>11, <2>1
<1>15. Freeing'
  <2>1. (headIndex <= dtor.index /\ dtor.index <= tailIndex)'
    BY <1>2, <1>9
  <2>2. dtor'.index # headIndex'
    BY <1>2, <1>9
  <2> QED BY <1>9, <1>13, <1>14, <2>1, <2>2 DEF Freeing, Linked
<1> QED BY <1>12, <1>15 DEF Destroying

\* At the end there is the tail block, if any.
LEMMA DestroyEnds ==
    ASSUME Types, Indexed, Counting, Tracking, Owning, Destroying, DestroyEnd
    PROVE  Destroying'
<1>1. /\ ppc = "destroy" /\ ppc' = "gone" /\ dtor.index = tailIndex
      /\ inUse' = IF tailBlock # Null /\ (headIndex # tailIndex \/ tailIndex % BLOCK_SIZE # 0)
                  THEN inUse \ {tailBlock} ELSE inUse
  BY DEF DestroyEnd
<1>2. /\ headIndex \in Nat /\ tailIndex \in Nat /\ BLOCK_SIZE \in Nat /\ BLOCK_SIZE >= 1 /\ headIndex <= tailIndex
      /\ \A c \in Consumers : pc[c] = "idle"
  BY <1>1, PcTyped, ProducerAssumption DEF Destroying, Freeing, Types, Positions
<1>3. Stored = IF tailIndex % BLOCK_SIZE # 0 THEN tailIndex + 1 ELSE tailIndex
  BY <1>1 DEF Stored
<1>4. \A f \in 1 .. Len(entries) : Linked(f) =>
        /\ entries[f].key \in Nat /\ entries[f].key % BLOCK_SIZE = 0 /\ entries[f].key < Stored
        /\ entries[f].key + BLOCK_SIZE > headIndex
        /\ entries[f].key + BLOCK_SIZE >= Stored => entries[f].value = tailBlock
  BY <1>2, LinkedKey, QuietLinked DEF Tracking, Links, LinkKept
<1>5. CASE headIndex = tailIndex /\ tailIndex % BLOCK_SIZE = 0
  <2>1. ASSUME NEW f \in 1 .. Len(entries), Linked(f) PROVE FALSE
    <3>1. entries[f].key \in Nat /\ entries[f].key % BLOCK_SIZE = 0 /\ entries[f].key < tailIndex
      BY <1>3, <1>4, <1>5, <2>1
    <3>2. entries[f].key + BLOCK_SIZE <= tailIndex
      BY <1>2, <1>5, <3>1, NextBase
    <3> QED BY <1>2, <1>4, <1>5, <2>1, <3>1, <3>2
  <2>2. inUse = {}
    BY <1>1, <1>5, <2>1 DEF Destroying, Freeing, From
  <2> QED BY <1>1, <1>5, <2>2 DEF Destroying, Freeing, AllReturned
<1>6. CASE headIndex = tailIndex /\ tailIndex % BLOCK_SIZE # 0
  <2>1. \A f \in 1 .. Len(entries) : Linked(f) => entries[f].value = tailBlock
    BY <1>2, <1>3, <1>4, <1>6
  <2>2. inUse \subseteq {tailBlock}
    BY <1>1, <1>6, <2>1 DEF Destroying, Freeing, From
  <2>3. Null \notin inUse
    BY ProducerAssumption DEF Types, Shape, MemoryShape
  <2>4. inUse' = {}
    BY <1>1, <1>6, <2>2, <2>3
  <2> QED BY <1>1, <2>4 DEF Destroying, Freeing, AllReturned
<1>7. CASE headIndex # tailIndex
  <2>1. PICK l \in Nat : l = Base(tailIndex - 1) /\ l <= tailIndex - 1 /\ l % BLOCK_SIZE = 0 /\ tailIndex - 1 \in IndicesOf(l)
    <3>1. tailIndex - 1 \in Nat
      BY <1>2, <1>7
    <3> QED BY <3>1, BaseIs
  <2>2. inUse = From(l)
    BY <1>1, <1>2, <1>7, <2>1 DEF Destroying, Freeing
  <2>3. l + BLOCK_SIZE >= Stored
    <3>1. l + BLOCK_SIZE >= tailIndex
      BY <1>2, <2>1 DEF IndicesOf
    <3>2. l + BLOCK_SIZE = tailIndex => tailIndex % BLOCK_SIZE = 0
      <4>1. BLOCK_SIZE \in Nat \ {0}
        BY ProducerAssumption
      <4>2. (l + 1 * BLOCK_SIZE) % BLOCK_SIZE = l % BLOCK_SIZE
        <5>1. l \in Int /\ 1 \in Int
          OBVIOUS
        <5> QED BY <4>1, <5>1, ModShift
      <4>3. l + 1 * BLOCK_SIZE = l + BLOCK_SIZE
        BY <1>2
      <4> QED BY <2>1, <4>2, <4>3
    <3> QED BY <1>2, <1>3, <3>1, <3>2
  <2>4. ASSUME NEW f \in 1 .. Len(entries), Linked(f), entries[f].key >= l PROVE entries[f].value = tailBlock
    <3>1. entries[f].key + BLOCK_SIZE >= Stored
      <4>1. entries[f].key \in Nat /\ entries[f].key >= l /\ Stored \in Int
        BY <1>2, <1>3, <1>4, <2>4
      <4> QED BY <1>2, <2>1, <2>3, <4>1
    <3> QED BY <1>4, <2>4, <3>1
  <2>5. inUse \subseteq {tailBlock}
    BY <2>2, <2>4 DEF From
  <2>6. Null \notin inUse
    BY ProducerAssumption DEF Types, Shape, MemoryShape
  <2>7. inUse' = {}
    BY <1>1, <1>7, <2>5, <2>6
  <2> QED BY <1>1, <2>7 DEF Destroying, Freeing, AllReturned
<1> QED BY <1>5, <1>6, <1>7

LEMMA DestroyingStep ==
    Types /\ Indexed /\ Counting /\ Tracking /\ Owning /\ Destroying /\ [Next]_vars => Destroying'
<1> SUFFICES ASSUME Types, Indexed, Counting, Tracking, Owning, Destroying, [Next]_vars PROVE Destroying'
  OBVIOUS
<1>1. CASE Destroy
  BY <1>1, DestroyBegins
<1>2. CASE DestroyNext
  BY <1>2, DestroyGoesOn
<1>3. CASE DestroyEnd
  BY <1>3, DestroyEnds
<1>4. CASE Enqueue \/ Produce
  BY <1>4 DEF Enqueue, Produce, InsertKey, NewBlockIndex, NoBlockIndex, StoreTail, Requisition, NoBlock, ClearEntry,
              StoreBlock, Construct, Publish, producer, Destroying, Freeing, AllReturned
<1>5. ASSUME NEW c \in Consumers, LoadOvercommit(c) \/ Consume(c) PROVE Destroying'
  <2>1. ppc' = ppc
    BY <1>5, ConsumerLeaves
  <2>2. pc[c] # "idle" => ppc \notin {"destroy", "gone"}
    BY DEF Types, Positions
  <2>3. ppc \notin {"destroy", "gone"}
    BY <1>5, <2>2 DEF LoadOvercommit, Consume, Filter, Count, Recheck, Overcommit, Claim, LoadHeader, LoadTail,
              FindEntry, Move, SetEmpty, Unlink, ReturnBlock
  <2> QED BY <2>1, <2>3 DEF Destroying, Freeing, AllReturned
<1>6. CASE UNCHANGED vars
  <2>1. UNCHANGED <<ppc, dtor, inUse, headIndex, tailIndex, entries>>
    BY <1>6 DEF vars, counts, index, memory, producer
  <2> QED BY <2>1 DEF Destroying, Freeing, AllReturned, From, Linked, Base
<1> QED BY <1>1, <1>2, <1>3, <1>4, <1>5, <1>6 DEF Next, Terminated

LEMMA DestroyingInit == Init => Destroying
  BY DEF Init, Destroying, Freeing, AllReturned

-----------------------------------------------------------------------------
(* The inductive invariant.                                                *)

LEMMA Inductive == Init => IInv
  BY TypesInit, IndexedInit, CountingInit, TrackingInit, OwningInit, CellsInit, HandedInit, DestroyingInit DEF IInv

LEMMA InductiveStep == IInv /\ [Next]_vars => IInv'
<1> SUFFICES ASSUME IInv, [Next]_vars PROVE IInv'
  OBVIOUS
<1>1. Types' /\ Indexed' /\ Counting'
  BY TypesStep, IndexedStep, CountingStep DEF IInv
<1>2. Tracking' /\ Owning'
  BY TrackingStep, OwningStep DEF IInv
<1>3. CellsKept' /\ HandedKept' /\ Destroying'
  BY CellsStep, HandedStep, DestroyingStep DEF IInv
<1> QED BY <1>1, <1>2, <1>3 DEF IInv

\* It holds in every behaviour: dequeue's counters, the block index and the ones that
\* were replaced, the blocks and their owners, the elements, and the destructor.
THEOREM Invariance == Spec => []IInv
<1>1. Init => IInv
  BY Inductive
<1>2. IInv /\ [Next]_vars => IInv'
  BY InductiveStep
<1> QED BY <1>1, <1>2, PTL DEF Spec

LEMMA TypeOKIs == IInv => TypeOK
<1> SUFFICES ASSUME IInv PROVE TypeOK
  OBVIOUS
<1>1. Types /\ Shape /\ Counting /\ Owning /\ HandedKept
  BY DEF IInv, Types
<1>2. /\ tailIndex \in 0 .. MaxElements /\ headIndex \in Nat
      /\ dequeueOptimisticCount \in Nat /\ dequeueOvercommit \in Nat
  BY <1>1 DEF Shape, ControlShape
<1>3. entries \in Seq(Entry) /\ headers \in Seq([tail : Nat, index : Seq(Nat)])
  BY <1>1 DEF Shape, IndexShape
<1>4. DOMAIN entries = 1 .. Len(entries) /\ DOMAIN headers = 1 .. Len(headers)
  BY <1>3, LenProperties
<1>5. ASSUME NEW h \in 1 .. Len(headers)
      PROVE  headers[h].index \in Seq(1 .. Len(entries)) /\ headers[h].tail \in 0 .. Capacity(h) - 1
  <2>1. headers[h].index \in Seq(Nat) /\ headers[h].tail \in Nat /\ headers[h].tail < Capacity(h)
    BY <1>1, HeaderTyped DEF Shape, IndexShape
  <2>2. \A p \in 1 .. Len(headers[h].index) : headers[h].index[p] \in 1 .. Len(entries)
    BY <1>1 DEF Shape, IndexShape, Capacity
  <2>3. headers[h].index \in Seq(1 .. Len(entries))
    <3>1. PICK s \in Seq(Nat) : s = headers[h].index
      BY <2>1
    <3>2. Len(s) \in Nat /\ s \in [1 .. Len(s) -> Nat]
      BY <3>1, LenProperties
    <3>3. s \in [1 .. Len(s) -> 1 .. Len(entries)]
      BY <2>2, <3>1, <3>2
    <3>4. s \in Seq(1 .. Len(entries))
      BY <3>2, <3>3, SeqOf
    <3> QED BY <3>1, <3>4
  <2>4. Capacity(h) \in Nat
    BY <2>1, LenProperties DEF Capacity
  <2> QED BY <2>1, <2>3, <2>4
<1>6. \A e \in 1 .. Len(entries) :
        /\ entries[e].key \in {INVALID_BLOCK_BASE} \union 0 .. MaxElements
        /\ entries[e].value \in Blocks \union {Null}
  BY <1>1, EntryTyped
<1>7. /\ cells \in [Blocks -> [0 .. BLOCK_SIZE - 1 -> 0 .. MaxElements \union {Null}]]
      /\ tailBlock \in Blocks \union {Null} /\ newBlock \in Blocks \union {Null}
      /\ inUse \subseteq Blocks
  BY <1>1 DEF Shape, MemoryShape
<1>8. elementsCompletelyDequeued \in [Blocks -> 0 .. BLOCK_SIZE]
  <2>1. elementsCompletelyDequeued \in [Blocks -> Nat] /\ BLOCK_SIZE \in Nat
    BY <1>1, ProducerAssumption DEF Shape, MemoryShape
  <2>2. \A b \in Blocks : elementsCompletelyDequeued[b] <= BLOCK_SIZE
    BY <1>1 DEF Owning, CountedEmpty
  <2> QED BY <2>1, <2>2
<1>9. handed \subseteq 0 .. MaxElements
  <2>1. headIndex <= tailIndex
    BY <1>1, HeadBehind DEF HeadBehindTail
  <2>2. MaxElements \in Nat
    BY ProducerAssumption
  <2> QED BY <1>1, <1>2, <2>1, <2>2 DEF HandedKept
<1> QED BY <1>2, <1>4, <1>5, <1>6, <1>7, <1>8, <1>9 DEF TypeOK

\* The counts agree, and the head stays behind the tail: the second test of dequeue
\* lets through as many calls as there are elements, whenever it is made.
THEOREM CountsAreRight == Spec => []CountsRight
<1>1. IInv => CountsRight
  BY TypeOKIs, HeadBehind DEF IInv, Counting, CountsRight
<1> QED BY <1>1, Invariance, PTL

LEMMA BlockOnceIs == IInv => BlockOnce
<1> SUFFICES ASSUME IInv, ppc \notin {"destroy", "gone"}, NEW b \in inUse
             PROVE  (IF newBlock = b THEN 1 ELSE 0)
                    + Cardinality({e \in DOMAIN entries : entries[e].value = b})
                    + Cardinality({c \in Consumers : pc[c] = "return" /\ local[c].entry = b}) = 1
  BY DEF BlockOnce
<1> DEFINE E == {e \in DOMAIN entries : entries[e].value = b}
           R == {c \in Consumers : pc[c] = "return" /\ local[c].entry = b}
<1>1. DOMAIN entries = 1 .. Len(entries)
  BY LenProperties DEF IInv, Types, Shape, IndexShape
<1>2. b \in Blocks /\ b # Null
  BY ProducerAssumption DEF IInv, Types, Shape, MemoryShape
<1>3. HasPlace(b)
  BY <1>2 DEF IInv, Owning, Placed
<1>4. OneOwner
  BY DEF IInv, Owning
<1>5. CASE newBlock = b
  <2>1. E = {} /\ R = {}
    BY <1>1, <1>2, <1>4, <1>5 DEF OneOwner, Linked
  <2>2. Cardinality(E) = 0 /\ Cardinality(R) = 0
    BY <2>1, FS_EmptySet
  <2> HIDE DEF E, R
  <2>3. (IF newBlock = b THEN 1 ELSE 0) + Cardinality(E) + Cardinality(R) = 1
    BY <1>5, <2>2
  <2> QED BY <2>3 DEF E, R
<1>6. CASE \E e \in 1 .. Len(entries) : entries[e].value = b
  <2>1. PICK e \in 1 .. Len(entries) : entries[e].value = b
    BY <1>6
  <2>2. newBlock # b /\ E = {e} /\ R = {}
    BY <1>1, <1>2, <1>4, <2>1 DEF OneOwner, Linked, Returning
  <2>3. Cardinality(E) = 1 /\ Cardinality(R) = 0
    BY <2>2, FS_EmptySet, FS_Singleton
  <2> HIDE DEF E, R
  <2>4. (IF newBlock = b THEN 1 ELSE 0) + Cardinality(E) + Cardinality(R) = 1
    BY <2>2, <2>3
  <2> QED BY <2>4 DEF E, R
<1>7. CASE \E c \in Consumers : Returning(c, b)
  <2>1. PICK c \in Consumers : Returning(c, b)
    BY <1>7
  <2>2. newBlock # b /\ E = {} /\ R = {c}
    BY <1>1, <1>2, <1>4, <2>1 DEF OneOwner, Linked, Returning
  <2>3. Cardinality(E) = 0 /\ Cardinality(R) = 1
    BY <2>2, FS_EmptySet, FS_Singleton
  <2> HIDE DEF E, R
  <2>4. (IF newBlock = b THEN 1 ELSE 0) + Cardinality(E) + Cardinality(R) = 1
    BY <2>2, <2>3
  <2> QED BY <2>4 DEF E, R
<1> QED BY <1>3, <1>5, <1>6, <1>7 DEF HasPlace

\* Whatever the interleaving: a dequeue finds the element it has claimed, a block of
\* the producer is in one place, and the destructor gives every block back.
THEOREM FindsHolds == Spec => []Finds
<1>1. IInv => Finds
  <2> SUFFICES ASSUME IInv PROVE Finds
    OBVIOUS
  <2>1. FindsElement
    BY FindsElementIs DEF IInv
  <2>2. BlockOnce
    BY BlockOnceIs
  <2>3. AllReturned
    BY DEF IInv, Destroying
  <2> QED BY <2>1, <2>2, <2>3 DEF Finds
<1> QED BY <1>1, Invariance, PTL

-----------------------------------------------------------------------------
(* The sub-queue is a stream.                                              *)

\* The indices from the head to the tail, and what enqueue and dequeue do to them.
Indices(h, t) == [i \in 1 .. t - h |-> h + i - 1]

LEMMA IndicesAre ==
    ASSUME NEW h \in Nat, NEW t \in Nat, h <= t
    PROVE  /\ Indices(h, t) \in Seq(Nat) /\ Len(Indices(h, t)) = t - h
           /\ \A i \in 1 .. t - h : Indices(h, t)[i] = h + i - 1
<1> DEFINE f == Indices(h, t)
<1>1. t - h \in Nat /\ f \in [1 .. t - h -> Nat]
  BY DEF Indices
<1>2. \A i \in 1 .. t - h : f[i] = h + i - 1
  BY DEF Indices
<1> HIDE DEF f
<1>3. f \in Seq(Nat) /\ Len(f) = t - h
  BY <1>1, SeqOf
<1> QED BY <1>2, <1>3 DEF f

LEMMA IndicesPush ==
    ASSUME NEW h \in Nat, NEW t \in Nat, h <= t
    PROVE  Indices(h, t + 1) = Append(Indices(h, t), t)
<1> DEFINE s == Indices(h, t)
           u == Indices(h, t + 1)
<1>1. s \in Seq(Nat) /\ Len(s) = t - h /\ \A i \in 1 .. t - h : s[i] = h + i - 1
  BY IndicesAre
<1>2. u \in Seq(Nat) /\ Len(u) = t + 1 - h /\ \A i \in 1 .. t + 1 - h : u[i] = h + i - 1
  BY IndicesAre
<1> HIDE DEF s, u
<1>3. /\ Append(s, t) \in Seq(Nat) /\ Len(Append(s, t)) = Len(s) + 1
      /\ \A i \in 1 .. Len(s) : Append(s, t)[i] = s[i]
      /\ Append(s, t)[Len(s) + 1] = t
  BY <1>1, AppendProperties
<1> DEFINE a == Append(s, t)
<1> HIDE DEF a
<1>4. a \in Seq(Nat) /\ Len(a) = t + 1 - h /\ a[t + 1 - h] = t /\ \A i \in 1 .. t - h : a[i] = h + i - 1
  BY <1>1, <1>3 DEF a
<1>5. \A i \in 1 .. t + 1 - h : u[i] = a[i]
  BY <1>2, <1>4
<1>6. u = a
  BY <1>2, <1>4, <1>5, SeqEqual
<1> QED BY <1>6 DEF a, s, u

LEMMA IndicesPop ==
    ASSUME NEW h \in Nat, NEW t \in Nat, h < t
    PROVE  Indices(h, t) # <<>> /\ Head(Indices(h, t)) = h /\ Tail(Indices(h, t)) = Indices(h + 1, t)
<1> DEFINE s == Indices(h, t)
           u == Indices(h + 1, t)
<1>1. s \in Seq(Nat) /\ Len(s) = t - h /\ \A i \in 1 .. t - h : s[i] = h + i - 1
  BY IndicesAre
<1>2. u \in Seq(Nat) /\ Len(u) = t - (h + 1) /\ \A i \in 1 .. t - (h + 1) : u[i] = h + 1 + i - 1
  BY IndicesAre
<1> HIDE DEF s, u
<1>3. s # <<>> /\ Head(s) = s[1] /\ s[1] = h
  BY <1>1
<1>4. /\ Tail(s) \in Seq(Nat) /\ Len(Tail(s)) = Len(s) - 1
      /\ \A i \in 1 .. Len(Tail(s)) : Tail(s)[i] = s[i + 1]
  BY <1>1, <1>3, HeadTailProperties
<1> DEFINE a == Tail(s)
<1>5. a \in Seq(Nat) /\ Len(a) = t - (h + 1) /\ \A i \in 1 .. Len(a) : a[i] = s[i + 1]
  BY <1>1, <1>4
<1> HIDE DEF a
<1>6. \A i \in 1 .. Len(u) : u[i] = a[i]
  BY <1>1, <1>2, <1>5
<1>7. u = a
  BY <1>2, <1>5, <1>6, SeqEqual
<1> QED BY <1>3, <1>7 DEF a, s, u

\* What the variables of Stream are here.
Elements == [i \in 1 .. tailIndex - headIndex |-> headIndex + i - 1]
Claimed == [c \in Consumers |-> IF pc[c] \in {"header", "tail", "entry", "move"} THEN local[c].index ELSE Null]

LEMMA ElementsAre ==
    /\ Elements = Indices(headIndex, tailIndex)
    /\ Elements' = Indices(headIndex', tailIndex')
  BY DEF Elements, Indices

LEMMA StreamPush ==
    ASSUME IInv, Publish
    PROVE  S!Next
<1>1. /\ headIndex \in Nat /\ tailIndex \in Nat /\ headIndex <= tailIndex /\ tailIndex \in 0 .. MaxElements
  BY PcTyped, HeadBehind DEF IInv, HeadBehindTail, Types, Shape, ControlShape
<1>2. tailIndex' = tailIndex + 1 /\ UNCHANGED <<headIndex, pc, local, handed>>
  BY DEF Publish, consumers
<1>3. Elements' = Append(Elements, tailIndex)
  BY <1>1, <1>2, ElementsAre, IndicesPush
<1>4. Claimed' = Claimed
  BY <1>2 DEF Claimed
<1>5. PICK v \in 0 .. MaxElements : v = tailIndex
  BY <1>1
<1>6. Elements' = Append(Elements, v) /\ handed' = handed
  BY <1>2, <1>3, <1>5
<1>7. S!Push(v)
  BY <1>4, <1>6 DEF S!Push, Elements, Claimed
<1> QED BY <1>7 DEF S!Next

LEMMA StreamPop ==
    ASSUME IInv, NEW c \in Consumers, Claim(c)
    PROVE  S!Next
<1>1. headIndex \in Nat /\ tailIndex \in Nat /\ headIndex < tailIndex
  BY PcTyped, ClaimIsBelow DEF IInv
<1>2. /\ pc[c] = "claim" /\ pc'[c] = "header" /\ local'[c].index = headIndex
      /\ headIndex' = headIndex + 1 /\ UNCHANGED <<tailIndex, handed>> /\ Only(c)
  BY PcTyped, OnlyOne DEF IInv, Claim, Goto, Set, Consume
<1>3. Elements # <<>> /\ Head(Elements) = headIndex /\ Elements' = Tail(Elements)
  BY <1>1, <1>2, ElementsAre, IndicesPop
<1>4. Claimed' = [Claimed EXCEPT ![c] = headIndex] /\ Claimed[c] = Null
  BY <1>2 DEF Claimed, Only
<1>5. S!Pop(c)
  BY <1>2, <1>3, <1>4 DEF S!Pop, Elements, Claimed
<1> QED BY <1>5 DEF S!Next

LEMMA StreamHandOver ==
    ASSUME IInv, NEW c \in Consumers, Move(c)
    PROVE  S!Next
<1>1. handed' = handed \union {local[c].index}
  BY MoveHands DEF IInv
<1>2. /\ pc[c] = "move" /\ pc'[c] = "empty" /\ local' = local
      /\ UNCHANGED <<headIndex, tailIndex>> /\ Only(c)
  BY PcTyped, OnlyOne DEF IInv, Move, Goto, Consume, counts
<1>3. local[c].index \notin handed /\ local[c].index # Null
  <2>1. local[c].index \in Nat
    BY PcTyped DEF IInv
  <2> QED BY <1>2, <2>1, ProducerAssumption DEF IInv, HandedKept, Waiting
<1>4. Elements' = Elements
  BY <1>2 DEF Elements
<1>5. Claimed' = [Claimed EXCEPT ![c] = Null] /\ Claimed[c] = local[c].index
  BY <1>2 DEF Claimed, Only
<1>6. S!HandOver(c)
  BY <1>1, <1>3, <1>4, <1>5 DEF S!HandOver, Elements, Claimed
<1> QED BY <1>6 DEF S!Next

LEMMA StreamStutters ==
    ASSUME UNCHANGED <<headIndex, tailIndex, handed>>,
           \A c \in Consumers : (Waiting(c)' <=> Waiting(c)) /\ (Waiting(c) => local'[c].index = local[c].index)
    PROVE  UNCHANGED S!vars
<1>1. Claimed' = Claimed
  BY DEF Claimed, Waiting
<1>2. Elements' = Elements
  BY DEF Elements
<1> QED BY <1>1, <1>2 DEF S!vars, Elements, Claimed

LEMMA StreamStep == IInv /\ [Next]_vars => [S!Next]_(S!vars)
<1> SUFFICES ASSUME IInv, [Next]_vars PROVE S!Next \/ UNCHANGED S!vars
  OBVIOUS
<1>1. CASE Publish
  BY <1>1, StreamPush
<1>2. ASSUME NEW c \in Consumers, Claim(c) \/ Move(c) PROVE S!Next
  BY <1>2, StreamPop, StreamHandOver
<1>3. ASSUME NEW c \in Consumers, LoadOvercommit(c) \/ Consume(c), ~Move(c), ~Claim(c)
      PROVE  UNCHANGED S!vars
  <2>1. Types
    BY DEF IInv
  <2>2. (Waiting(c)' <=> Waiting(c)) /\ (Waiting(c) => local'[c].index = local[c].index)
    BY <1>3, <2>1, PcTyped DEF LoadOvercommit, Consume, Filter, Count, Recheck, Overcommit, LoadHeader, LoadTail,
              FindEntry, SetEmpty, Unlink, ReturnBlock, Goto, Set, Return, Waiting
  <2>3. Only(c)
    BY <1>3, <2>1, ConsumerLeaves
  <2>4. \A d \in Consumers : (Waiting(d)' <=> Waiting(d)) /\ (Waiting(d) => local'[d].index = local[d].index)
    BY <2>2, <2>3 DEF Waiting, Only
  <2>5. UNCHANGED <<headIndex, tailIndex, handed>>
    BY <1>3 DEF LoadOvercommit, Consume, Filter, Count, Recheck, Overcommit, LoadHeader, LoadTail,
              FindEntry, SetEmpty, Unlink, ReturnBlock, counts
  <2> QED BY <2>4, <2>5, StreamStutters
<1>4. CASE (Enqueue \/ Produce \/ Destroy \/ DestroyNext \/ DestroyEnd \/ UNCHANGED vars) /\ ~Publish
  <2>1. UNCHANGED <<headIndex, tailIndex, handed, pc, local>>
    BY <1>4 DEF Enqueue, Produce, InsertKey, NewBlockIndex, NoBlockIndex, StoreTail, Requisition, NoBlock, ClearEntry,
                StoreBlock, Construct, Destroy, DestroyNext, DestroyEnd, counts, consumers, vars
  <2> QED BY <2>1, StreamStutters DEF Waiting
<1> QED BY <1>1, <1>2, <1>3, <1>4 DEF Next, Terminated

LEMMA StreamInit == Init => S!Init
<1> SUFFICES ASSUME Init PROVE S!Init
  OBVIOUS
<1>1. tailIndex = 0 /\ headIndex = 0 /\ handed = {} /\ pc = [c \in Consumers |-> "idle"]
  BY DEF Init
<1>2. Elements = <<>>
  BY <1>1 DEF Elements
<1>3. Claimed = [c \in Consumers |-> Null]
  BY <1>1 DEF Claimed
<1> QED BY <1>1, <1>2, <1>3 DEF S!Init, Elements, Claimed

\* The sub-queue with its blocks and its index does what a queue does: it hands
\* over the elements in the order of the enqueues, each once.
THEOREM ProducerImplementsStream == Spec => ImplementsStream
<1>1. Init => S!Init
  BY StreamInit
<1>2. IInv /\ [Next]_vars => [S!Next]_(S!vars)
  BY StreamStep
<1> QED BY <1>1, <1>2, Invariance, PTL DEF Spec, ImplementsStream, S!Spec

-----------------------------------------------------------------------------
(* The ring of an explicit producer: elements and their blocks.            *)

\* What is assumed of the constants.
LEMMA RingConstants == BLOCK_SIZE \in Nat \ {0, 1} /\ Null \notin Blocks /\ Null \notin Nat /\ Explicit!Cells = 0 .. BLOCK_SIZE - 1
BY ExplicitAssumption DEF Explicit!ExplicitAssumption, Explicit!Cells

\* A number and a place in the block make an element, that has them.
LEMMA NumberOfElement ==
    ASSUME NEW k \in Int, NEW x \in Explicit!Cells
    PROVE  /\ ElementAt(k, x) \in Int /\ Number(ElementAt(k, x)) = k /\ ElementAt(k, x) % BLOCK_SIZE = x
           /\ (k >= 0 => ElementAt(k, x) >= 0) /\ x \in Nat /\ 0 \in Explicit!Cells
<1>1. BLOCK_SIZE \in Nat \ {0} /\ x \in 0 .. BLOCK_SIZE - 1 /\ 0 \in Explicit!Cells
  BY RingConstants
<1>2. Number(ElementAt(k, x)) = k /\ ElementAt(k, x) % BLOCK_SIZE = x
  BY <1>1, DivModUnique DEF Number, ElementAt
<1>3. k * BLOCK_SIZE \in Int /\ (k >= 0 => k * BLOCK_SIZE >= 0)
  BY <1>1
<1> QED BY <1>1, <1>2, <1>3 DEF ElementAt

\* The first element of a block.
LEMMA FirstOfNumber ==
    ASSUME NEW k \in Int
    PROVE  /\ 0 \in Explicit!Cells /\ ElementAt(k, 0) \in Int /\ Number(ElementAt(k, 0)) = k /\ ElementAt(k, 0) % BLOCK_SIZE = 0
           /\ k \in Nat => ElementAt(k, 0) \in Nat
<1>1. 0 \in Explicit!Cells
  BY RingConstants
<1>2. /\ ElementAt(k, 0) \in Int /\ Number(ElementAt(k, 0)) = k /\ ElementAt(k, 0) % BLOCK_SIZE = 0
      /\ k >= 0 => ElementAt(k, 0) >= 0
  BY <1>1, NumberOfElement
<1>3. k \in Nat => ElementAt(k, 0) \in Nat
  BY <1>2
<1> QED BY <1>1, <1>2, <1>3

\* Every element has a number and a place, and the base of its block is the first of the number.
LEMMA ElementOfNumber ==
    ASSUME NEW i \in Nat
    PROVE  /\ Number(i) \in Nat /\ i % BLOCK_SIZE \in Explicit!Cells /\ i = ElementAt(Number(i), i % BLOCK_SIZE)
           /\ Explicit!Base(i) = ElementAt(Number(i), 0)
<1>1. BLOCK_SIZE \in Nat \ {0} /\ Explicit!Cells = 0 .. BLOCK_SIZE - 1
  BY RingConstants
<1>2. i % BLOCK_SIZE \in Explicit!Cells /\ i \div BLOCK_SIZE \in Int /\ i = (i \div BLOCK_SIZE) * BLOCK_SIZE + (i % BLOCK_SIZE)
  BY <1>1, DivMod
<1>3. i \div BLOCK_SIZE \in Nat
  BY <1>1
<1>4. (i \div BLOCK_SIZE) * BLOCK_SIZE \in Int /\ i % BLOCK_SIZE \in Int
  BY <1>1, <1>2
<1> QED BY <1>2, <1>3, <1>4 DEF Number, ElementAt, Explicit!Base

\* The elements of a block come before those of the next.
LEMMA ElementOrder ==
    ASSUME NEW k \in Int, NEW l \in Int, NEW x \in Explicit!Cells, NEW y \in Explicit!Cells
    PROVE  /\ k < l => ElementAt(k, x) < ElementAt(l, y)
           /\ k = l => (ElementAt(k, x) < ElementAt(l, y) <=> x < y)
<1>1. BLOCK_SIZE \in Nat \ {0} /\ x \in 0 .. BLOCK_SIZE - 1 /\ y \in 0 .. BLOCK_SIZE - 1
  BY RingConstants
<1>2. k * BLOCK_SIZE \in Int /\ l * BLOCK_SIZE \in Int /\ (l - k) * BLOCK_SIZE \in Int
      /\ l * BLOCK_SIZE = k * BLOCK_SIZE + (l - k) * BLOCK_SIZE
  BY <1>1
<1>3. l - k >= 1 => (l - k) * BLOCK_SIZE >= BLOCK_SIZE
  BY <1>1, Product
<1> QED BY <1>1, <1>2, <1>3 DEF ElementAt

\* Elements in the order of their numbers.
LEMMA NumberOrder ==
    ASSUME NEW i \in Nat, NEW j \in Nat, i <= j
    PROVE  /\ Number(i) <= Number(j)
           /\ j % BLOCK_SIZE = 0 /\ i < j => Number(i) < Number(j)
<1> DEFINE k == Number(i)
           l == Number(j)
           x == i % BLOCK_SIZE
           y == j % BLOCK_SIZE
<1>1. k \in Nat /\ l \in Nat /\ x \in Explicit!Cells /\ y \in Explicit!Cells /\ i = ElementAt(k, x) /\ j = ElementAt(l, y)
  BY ElementOfNumber
<1>2. x \in Nat /\ y \in Nat
  BY <1>1, RingConstants
<1> HIDE DEF k, l, x, y
<1>3. l < k => ElementAt(l, y) < ElementAt(k, x)
  BY <1>1, ElementOrder
<1>4. k = l => (ElementAt(k, x) < ElementAt(l, y) <=> x < y)
  BY <1>1, ElementOrder
<1>5. k <= l
  BY <1>1, <1>3
<1>6. y = 0 /\ i < j => k < l
  BY <1>1, <1>2, <1>4, <1>5
<1> QED BY <1>5, <1>6 DEF k, l, x, y

\* The numbers of the next element.
LEMMA NumberNext ==
    ASSUME NEW i \in Nat
    PROVE  /\ (i + 1) % BLOCK_SIZE # 0 => Number(i + 1) = Number(i)
           /\ (i + 1) % BLOCK_SIZE = 0 => Number(i + 1) = Number(i) + 1
           /\ i % BLOCK_SIZE = 0 => (i + 1) % BLOCK_SIZE # 0
BY RingConstants, NextIndex DEF Number

\* How many blocks the producer has entered.
LEMMA EnteredIs ==
    ASSUME e_tailIndex \in Nat
    PROVE  /\ Entered \in Nat /\ Number(e_tailIndex) \in Nat
           /\ Entered = Number(e_tailIndex) \/ Entered = Number(e_tailIndex) + 1
           /\ \A e \in Nat : e < e_tailIndex => Number(e) < Entered
           /\ e_tailIndex % BLOCK_SIZE # 0 => Entered = Number(e_tailIndex) + 1
           /\ e_tailIndex % BLOCK_SIZE = 0 =>
                /\ e_tailIndex = ElementAt(Number(e_tailIndex), 0)
                /\ \A e \in Nat : e < e_tailIndex => Number(e) < Number(e_tailIndex)
<1>1. Number(e_tailIndex) \in Nat /\ e_tailIndex = ElementAt(Number(e_tailIndex), e_tailIndex % BLOCK_SIZE)
  BY ElementOfNumber
<1>2. Entered \in Nat /\ (Entered = Number(e_tailIndex) \/ Entered = Number(e_tailIndex) + 1)
      /\ (e_tailIndex % BLOCK_SIZE # 0 => Entered = Number(e_tailIndex) + 1)
  BY <1>1 DEF Entered
<1>3. ASSUME NEW e \in Nat, e < e_tailIndex
      PROVE  Number(e) < Entered /\ (e_tailIndex % BLOCK_SIZE = 0 => Number(e) < Number(e_tailIndex))
  <2>1. Number(e) \in Nat
    BY ElementOfNumber
  <2>2. Number(e) <= Number(e_tailIndex) /\ (e_tailIndex % BLOCK_SIZE = 0 => Number(e) < Number(e_tailIndex))
    BY <1>3, NumberOrder
  <2> QED BY <1>1, <1>2, <2>1, <2>2
<1> QED BY <1>1, <1>2, <1>3

-----------------------------------------------------------------------------
(* The ring: steps that leave it and its index alone.                      *)

\* The entries of an index, by their places.
LEMMA HeaderIs ==
    ASSUME HeaderTypes, NEW h \in DOMAIN e_headers
    PROVE  /\ e_headers[h].front \in Int /\ e_headers[h].entries \in Seq(Entries) /\ Room(h) \in Nat \ {0}
           /\ \A p \in Places(h) : Slot(h, p) \in Entries /\ p \in Nat
           /\ \A pos \in Int : pos % Room(h) \in Places(h) /\ Explicit!EntryAt(h, pos) = Slot(h, pos % Room(h))
<1>1. e_headers[h] \in [front : Int, entries : Seq(Entries)]
  <2>1. e_headers \in Seq([front : Int, entries : Seq(Entries)])
    BY DEF HeaderTypes
  <2>2. h \in 1 .. Len(e_headers)
    BY <2>1, LenProperties
  <2> QED BY <2>1, <2>2, ElementOfSeq
<1>2. e_headers[h].front \in Int /\ e_headers[h].entries \in Seq(Entries)
  BY <1>1
<1>3. Room(h) \in Nat \ {0}
  BY DEF HeaderTypes
<1>4. ASSUME NEW p \in Places(h) PROVE Slot(h, p) \in Entries /\ p \in Nat
  <2>1. p \in Nat /\ p + 1 \in 1 .. Len(e_headers[h].entries)
    BY <1>3, <1>4 DEF Places, Room
  <2> QED BY <1>2, <2>1, ElementOfSeq DEF Slot
<1>5. ASSUME NEW pos \in Int
      PROVE  pos % Room(h) \in Places(h) /\ Explicit!EntryAt(h, pos) = Slot(h, pos % Room(h))
  <2>1. pos % Room(h) \in Places(h)
    BY <1>3, DivMod DEF Places
  <2> QED BY <2>1 DEF Explicit!EntryAt, Slot, Room
<1> QED BY <1>2, <1>3, <1>4, <1>5

\* A step that leaves the ring, its index and the numbers of its blocks alone.
Still ==
    /\ UNCHANGED <<e_headers, slotsUsed, size, front, ring, e_tailBlock>>
    /\ UNCHANGED <<Entered, Displayed, Recorded>>

\* What does not change then.
LEMMA StillFrame ==
    ASSUME Still, NEW blk
    PROVE  /\ UNCHANGED <<Oldest, Window>>
           /\ \A h : Room(h)' = Room(h) /\ Places(h)' = Places(h) /\ Used(h)' = Used(h)
           /\ \A h, p : Slot(h, p)' = Slot(h, p) /\ Turn(h, p)' = Turn(h, p) /\ Explicit!EntryAt(h, p)' = Explicit!EntryAt(h, p)
           /\ LinedUp => LinedUp'
           /\ HeaderTypes => HeaderTypes' /\ (OwnedTypes => OwnedTypes')
           /\ InRing(blk) => InRing(blk)'
           /\ Displays(blk) => Displays(blk)'
<1>1. UNCHANGED <<Oldest, Window>>
  BY DEF Still, Oldest, Window
<1>2. \A h : Room(h)' = Room(h) /\ Places(h)' = Places(h)
  BY DEF Still, Room, Places
<1>3. \A h, p : Slot(h, p)' = Slot(h, p) /\ Explicit!EntryAt(h, p)' = Explicit!EntryAt(h, p)
  BY DEF Still, Slot, Explicit!EntryAt
<1>4. \A h, p : Turn(h, p)' = Turn(h, p)
  BY <1>2, <1>3 DEF Turn
<1>5. \A h : Used(h)' = Used(h)
  BY <1>2, <1>3 DEF Used
<1>6. LinedUp => LinedUp'
  BY <1>3, <1>4, <1>5 DEF LinedUp, Still
<1>7. InRing(blk) => InRing(blk)'
  BY <1>1 DEF InRing, Still, Explicit!Owned
<1>8. Displays(blk) => Displays(blk)'
  BY <1>1, <1>3, <1>4, <1>5 DEF Displays, Still
<1>9. HeaderTypes => HeaderTypes'
  BY <1>2 DEF HeaderTypes, Still, Entries
<1>10. OwnedTypes => OwnedTypes'
  BY DEF OwnedTypes, Still, Explicit!Owned
<1> QED BY <1>1, <1>2, <1>3, <1>4, <1>5, <1>6, <1>7, <1>8, <1>9, <1>10

\* The contents, if no element comes or goes.
LEMMA ContentsFrame ==
    ASSUME NEW blk, Contents(blk), Still, UNCHANGED <<e_cells, emptyFlags>>,
           \A e \in Int : (InCell(e)' <=> InCell(e)) /\ (Finished(e)' <=> Finished(e))
    PROVE  Contents(blk)'
<1>1. Window' = Window /\ Explicit!Owned' = Explicit!Owned
  BY StillFrame DEF Still, Explicit!Owned
<1>2. ASSUME NEW k \in Window, NEW x \in Explicit!Cells
      PROVE  /\ e_cells[blk[k]][x] = IF InCell(ElementAt(k, x))' THEN ElementAt(k, x) ELSE Null
             /\ x \in emptyFlags[blk[k]] <=> Finished(ElementAt(k, x))'
  <2>1. ElementAt(k, x) \in Int
    BY NumberOfElement DEF Window
  <2> QED BY <2>1 DEF Contents
<1>3. \A b \in Blocks \ Explicit!Owned, x \in Explicit!Cells : e_cells[b][x] = Null
  BY DEF Contents
<1> QED BY <1>1, <1>2, <1>3 DEF Contents, Explicit!Cells

\* What the consumers know, if none of them moves.
LEMMA ConsumersFrame ==
    ASSUME NEW blk, Still, UNCHANGED <<e_pc, e_local>>
    PROVE  Led(blk) => Led(blk)'
<1>1. /\ \A h : Places(h)' = Places(h) /\ Used(h)' = Used(h)
      /\ \A h, p : Slot(h, p)' = Slot(h, p)
  BY StillFrame
<1> QED BY <1>1 DEF Led, Still

\* What is left to show of a step of that kind.
LEMMA StillStep ==
    ASSUME RingTypes, Claims, LinedUp, NEW blk, Arranged(blk), Still, ProducerTypes',
           UNCHANGED <<e_headIndex, e_cells, emptyFlags, e_pc, e_local>>,
           \A e \in Int : (InCell(e)' <=> InCell(e)) /\ (Finished(e)' <=> Finished(e))
    PROVE  RingTypes' /\ Claims' /\ LinedUp' /\ Arranged(blk)'
<1>1. LinedUp' /\ HeaderTypes' /\ OwnedTypes' /\ InRing(blk)' /\ Displays(blk)' /\ Oldest' = Oldest
  BY StillFrame DEF RingTypes, Arranged
<1>2. MemoryTypes' /\ ConsumerTypes'
  BY DEF RingTypes, MemoryTypes, ConsumerTypes, Explicit!Cells
<1>3. Claims'
  BY <1>1 DEF Claims
<1>4. Contents(blk)' /\ Led(blk)'
  BY ContentsFrame, ConsumersFrame DEF Arranged
<1> QED BY <1>1, <1>2, <1>3, <1>4 DEF RingTypes, Arranged

\* The blocks of the ring, the tail among them.
LEMMA BlockIs ==
    ASSUME RingTypes, NEW blk, InRing(blk), NEW k \in Window
    PROVE  /\ blk[k] \in Explicit!Owned /\ blk[k] \in Blocks /\ k \in Nat /\ Oldest \in Nat /\ Entered \in Nat
           /\ \A l \in Window : blk[l] = blk[k] => l = k
           /\ Entered - 1 \in Window /\ e_tailBlock = blk[Entered - 1]
<1>1. blk[k] \in Explicit!Owned /\ \A l \in Window : blk[l] = blk[k] => l = k
  BY DEF InRing
<1>2. blk[k] \in Blocks
  BY <1>1 DEF RingTypes, OwnedTypes
<1>3. e_tailIndex \in Nat /\ slotsUsed \in Nat /\ Oldest >= 0 /\ Entered \in Nat
  BY EnteredIs DEF RingTypes, ProducerTypes
<1>4. Oldest \in Nat /\ Oldest = Entered - slotsUsed
  BY <1>3 DEF Oldest
<1>5. k \in Nat /\ slotsUsed # 0 /\ Entered - 1 \in Window
  BY <1>3, <1>4 DEF Window
<1>6. e_tailBlock = blk[Entered - 1]
  BY <1>5 DEF InRing
<1> QED BY <1>1, <1>2, <1>3, <1>4, <1>5, <1>6

-----------------------------------------------------------------------------
(* The ring: steps of the producer that enter no block.                    *)

\* These steps enter no block.
LEMMA EnteredKept ==
    ASSUME RingTypes, Explicit!Enqueue \/ Explicit!NewBlock \/ Explicit!Fail \/ Explicit!Publish
    PROVE  UNCHANGED <<Entered, Displayed, Recorded>>
<1>1. /\ e_tailIndex \in Nat
      /\ e_ppc \in {"idle", "block", "grow", "requisition", "publish"}
      /\ e_ppc' \in {"idle", "block", "grow", "requisition", "construct"}
  BY DEF Explicit!Enqueue, Explicit!NewBlock, Explicit!Fail, Explicit!Publish, RingTypes, ProducerTypes
<1>2. CASE e_ppc # "publish"
  <2>1. e_tailIndex' = e_tailIndex
    BY <1>1, <1>2 DEF Explicit!Enqueue, Explicit!NewBlock, Explicit!Fail, Explicit!Publish, Explicit!indices
  <2>2. e_ppc' = "construct" => e_tailIndex % BLOCK_SIZE # 0
    BY <1>1, <1>2 DEF Explicit!Enqueue, Explicit!NewBlock, Explicit!Fail, Explicit!Publish
  <2> QED BY <1>1, <1>2, <2>1, <2>2 DEF Entered, Displayed, Recorded
<1>3. CASE e_ppc = "publish"
  <2>1. e_tailIndex' = e_tailIndex + 1 /\ e_ppc' = "idle"
    BY <1>3 DEF Explicit!Enqueue, Explicit!NewBlock, Explicit!Fail, Explicit!Publish
  <2>2. Entered = Number(e_tailIndex) + 1 /\ Displayed = Entered /\ Recorded = Entered
    BY <1>3 DEF Entered, Displayed, Recorded
  <2>3. /\ (e_tailIndex + 1) % BLOCK_SIZE # 0 => Number(e_tailIndex + 1) = Number(e_tailIndex)
        /\ (e_tailIndex + 1) % BLOCK_SIZE = 0 => Number(e_tailIndex + 1) = Number(e_tailIndex) + 1
        /\ Number(e_tailIndex) \in Nat
    BY <1>1, NumberNext, ElementOfNumber
  <2>4. Number(e_tailIndex)' = Number(e_tailIndex + 1)
    BY <2>1 DEF Number
  <2>5. Entered' = Number(e_tailIndex + 1) + IF (e_tailIndex + 1) % BLOCK_SIZE # 0 THEN 1 ELSE 0
    BY <2>1, <2>4 DEF Entered
  <2> QED BY <2>1, <2>2, <2>3, <2>5 DEF Displayed, Recorded
<1> QED BY <1>2, <1>3

\* A step that only moves the producer, or the tail.
LEMMA SimpleStep ==
    ASSUME RingTypes, Claims, LinedUp, NEW blk, Arranged(blk),
           Explicit!Enqueue \/ Explicit!NewBlock \/ Explicit!Fail \/ Explicit!Publish
    PROVE  RingTypes' /\ Claims' /\ LinedUp' /\ Arranged(blk)'
<1>1. UNCHANGED <<e_headIndex, e_headers, slotsUsed, size, front, ring, e_tailBlock, e_cells, emptyFlags, e_pc, e_local>>
  BY DEF Explicit!Enqueue, Explicit!NewBlock, Explicit!Fail, Explicit!Publish, Explicit!indices, Explicit!index, Explicit!blocks, Explicit!memory
<1>2. /\ e_tailIndex \in Nat /\ e_headIndex \in 0 .. e_tailIndex
      /\ e_ppc \in {"idle", "block", "grow", "requisition", "publish"}
      /\ e_ppc' \in {"idle", "block", "grow", "requisition", "construct"}
      /\ e_ppc' \in {"block", "grow", "requisition"} => e_tailIndex % BLOCK_SIZE = 0
  BY DEF Explicit!Enqueue, Explicit!NewBlock, Explicit!Fail, Explicit!Publish, RingTypes, ProducerTypes
<1>3. CASE e_ppc # "publish"
  <2>1. e_tailIndex' = e_tailIndex /\ e_ppc' # "publish"
    BY <1>2, <1>3 DEF Explicit!Enqueue, Explicit!NewBlock, Explicit!Fail, Explicit!Publish, Explicit!indices
  <2>2. e_ppc' = "construct" => e_tailIndex % BLOCK_SIZE # 0
    BY <1>2, <1>3 DEF Explicit!Enqueue, Explicit!NewBlock, Explicit!Fail, Explicit!Publish
  <2>3. UNCHANGED <<Entered, Displayed, Recorded>>
    BY EnteredKept
  <2>4. \A e \in Int : (InCell(e)' <=> InCell(e)) /\ (Finished(e)' <=> Finished(e))
    BY <1>1, <1>3, <2>1 DEF InCell, Finished
  <2>5. ProducerTypes'
    <3>1. Oldest' = Oldest
      BY <1>1, <2>3 DEF Oldest
    <3>2. e_headers = <<>> => e_ppc' \in {"idle", "block", "grow"}
      <4>1. 0 % BLOCK_SIZE = 0
        BY RingConstants
      <4>2. e_headers = <<>> => e_ppc' # "construct"
        BY <2>2, <4>1 DEF RingTypes, ProducerTypes
      <4>3. e_headers = <<>> => e_ppc' # "requisition"
        BY <1>3 DEF Explicit!Enqueue, Explicit!NewBlock, Explicit!Fail, Explicit!Publish, Explicit!Full
      <4> QED BY <1>2, <4>2, <4>3
    <3>3. e_ppc' = "requisition" => slotsUsed < size
      BY <1>3 DEF Explicit!Enqueue, Explicit!NewBlock, Explicit!Fail, Explicit!Publish, RingTypes, ProducerTypes, Explicit!Full
    <3> QED BY <1>1, <1>2, <2>1, <2>3, <3>1, <3>2, <3>3 DEF RingTypes, ProducerTypes
  <2>6. Still
    BY <1>1, <2>3 DEF Still
  <2> QED BY <1>1, <2>4, <2>5, <2>6, StillStep
<1>4. CASE e_ppc = "publish"
  <2>1. e_tailIndex' = e_tailIndex + 1 /\ e_ppc' = "idle"
    BY <1>4 DEF Explicit!Enqueue, Explicit!NewBlock, Explicit!Fail, Explicit!Publish
  <2>2. Entered = Number(e_tailIndex) + 1 /\ Displayed = Entered /\ Recorded = Entered
    BY <1>4 DEF Entered, Displayed, Recorded
  <2>3. UNCHANGED <<Entered, Displayed, Recorded>>
    BY EnteredKept
  <2>4. \A e \in Int : (InCell(e)' <=> InCell(e)) /\ (Finished(e)' <=> Finished(e))
    <3> SUFFICES ASSUME NEW e \in Int PROVE (InCell(e)' <=> InCell(e)) /\ (Finished(e)' <=> Finished(e))
      OBVIOUS
    <3>1. e < e_tailIndex + 1 <=> e < e_tailIndex \/ e = e_tailIndex
      BY <1>2
    <3> QED BY <1>1, <1>4, <2>1, <3>1 DEF InCell, Finished
  <2>5. ProducerTypes'
    <3>1. Oldest' = Oldest
      BY <1>1, <2>2, <2>3 DEF Oldest
    <3>2. e_headIndex \in 0 .. e_tailIndex + 1 /\ e_tailIndex + 1 \in Nat /\ e_headers # <<>>
      BY <1>2, <1>4 DEF RingTypes, ProducerTypes
    <3> QED BY <1>1, <2>1, <2>2, <2>3, <3>1, <3>2 DEF RingTypes, ProducerTypes
  <2>6. Still
    BY <1>1, <2>2, <2>3 DEF Still
  <2> QED BY <1>1, <2>4, <2>5, <2>6, StillStep
<1> QED BY <1>3, <1>4

\* Construct puts the next element in its cell of the block it entered last.
LEMMA ConstructStep ==
    ASSUME RingTypes, Claims, LinedUp, NEW blk, Arranged(blk), Explicit!Construct
    PROVE  RingTypes' /\ Claims' /\ LinedUp' /\ Arranged(blk)'
<1> DEFINE x == e_tailIndex % BLOCK_SIZE
           k == Entered - 1
<1>1. /\ UNCHANGED <<e_tailIndex, e_headIndex, e_headers, slotsUsed, size, front, ring, e_tailBlock, emptyFlags, e_pc, e_local>>
      /\ e_ppc = "construct" /\ e_ppc' = "publish"
      /\ e_cells' = [e_cells EXCEPT ![e_tailBlock][x] = e_tailIndex]
  BY DEF Explicit!Construct, Explicit!indices, Explicit!index, Explicit!blocks
<1>2. e_tailIndex \in Nat /\ e_headIndex \in 0 .. e_tailIndex /\ e_cells \in [Blocks -> [Explicit!Cells -> Nat \union {Null}]]
  BY DEF RingTypes, ProducerTypes, MemoryTypes
<1>3. /\ Entered = Number(e_tailIndex) + 1 /\ Entered' = Entered
      /\ Displayed = Entered /\ Recorded = Entered /\ Displayed' = Entered /\ Recorded' = Entered
  BY <1>1 DEF Entered, Displayed, Recorded, Number
<1>4. Still
  BY <1>1, <1>3 DEF Still
<1>5. LinedUp' /\ HeaderTypes' /\ OwnedTypes' /\ InRing(blk)' /\ Displays(blk)' /\ Oldest' = Oldest /\ Window' = Window
  BY <1>4, StillFrame DEF RingTypes, Arranged
<1>6. k \in Nat /\ x \in Explicit!Cells /\ e_tailIndex = ElementAt(k, x)
  BY <1>2, <1>3, ElementOfNumber
<1>7. Oldest \in Nat /\ k \in Window /\ e_tailBlock = blk[k] /\ e_tailBlock \in Explicit!Owned /\ e_tailBlock \in Blocks
  <2>1. slotsUsed \in Nat /\ slotsUsed > 0
    BY <1>3, <1>6 DEF RingTypes, ProducerTypes
  <2>2. k \in Window
    BY <1>3, <1>6, <2>1 DEF Window, Oldest
  <2> QED BY <2>2, BlockIs DEF Arranged
<1> HIDE DEF k, x
<1>8. ProducerTypes' /\ ConsumerTypes'
  BY <1>1, <1>3, <1>5 DEF RingTypes, ProducerTypes, ConsumerTypes
<1>9. MemoryTypes'
  BY <1>1, <1>2, <1>6, <1>7 DEF RingTypes, MemoryTypes, Explicit!Cells
<1>10. Claims' /\ Led(blk)'
  BY <1>1, <1>4, <1>5, ConsumersFrame DEF Claims, Arranged
<1>11. \A e \in Int : (InCell(e)' <=> InCell(e) \/ e = e_tailIndex) /\ (Finished(e)' <=> Finished(e))
  BY <1>1, <1>2 DEF InCell, Finished
<1>12. Contents(blk)'
  <2>1. ASSUME NEW l \in Window, NEW y \in Explicit!Cells
        PROVE  /\ e_cells'[blk[l]][y] = IF InCell(ElementAt(l, y))' THEN ElementAt(l, y) ELSE Null
               /\ y \in emptyFlags'[blk[l]] <=> Finished(ElementAt(l, y))'
    <3>1. ElementAt(l, y) \in Int /\ l \in Int
      BY NumberOfElement DEF Window
    <3>2. blk[l] \in Blocks /\ (blk[l] = blk[k] => l = k)
      BY <1>7 DEF Arranged, InRing, RingTypes, OwnedTypes
    <3>3. /\ e_cells[blk[l]][y] = IF InCell(ElementAt(l, y)) THEN ElementAt(l, y) ELSE Null
          /\ y \in emptyFlags[blk[l]] <=> Finished(ElementAt(l, y))
      BY DEF Arranged, Contents
    <3>4. CASE l = k /\ y = x
      BY <1>1, <1>2, <1>6, <1>7, <1>11, <3>1, <3>3, <3>4
    <3>5. CASE ~(l = k /\ y = x)
      <4>1. ElementAt(l, y) # e_tailIndex
        BY <1>6, <3>1, <3>5, NumberOfElement
      <4>2. e_cells'[blk[l]][y] = e_cells[blk[l]][y]
        BY <1>1, <1>2, <1>6, <1>7, <3>2, <3>5
      <4> QED BY <1>1, <1>11, <3>1, <3>3, <4>1, <4>2
    <3> QED BY <3>4, <3>5
  <2>2. ASSUME NEW b \in Blocks \ Explicit!Owned, NEW y \in Explicit!Cells PROVE e_cells'[b][y] = Null
    <3>1. e_cells'[b] = e_cells[b]
      BY <1>1, <1>2, <1>7
    <3> QED BY <3>1 DEF Arranged, Contents
  <2>3. Explicit!Owned' = Explicit!Owned
    BY <1>1 DEF Explicit!Owned
  <2> QED BY <1>5, <2>1, <2>2, <2>3 DEF Contents, Explicit!Cells
<1> QED BY <1>5, <1>8, <1>9, <1>10, <1>12 DEF RingTypes, Arranged

-----------------------------------------------------------------------------
(* The ring: steps that enter a block.                                     *)

\* The blocks from the oldest on, when the producer enters another block.
Extended(blk, b) == [k \in Window' |-> IF k = Entered THEN b ELSE blk[k]]

\* What a step that enters a block does to the numbers.
LEMMA EnterNumbers ==
    ASSUME RingTypes, UNCHANGED e_tailIndex, e_ppc \in {"block", "requisition"}, e_ppc' = "entry",
           slotsUsed' \in {slotsUsed, slotsUsed + 1}, slotsUsed' > 0
    PROVE  /\ Entered' = Entered + 1 /\ Displayed' = Displayed /\ Recorded' = Recorded
           /\ Displayed = Entered /\ Recorded = Entered /\ Entered \in Nat /\ Oldest \in Nat /\ Oldest' \in Nat
           /\ Oldest' = IF slotsUsed' = slotsUsed THEN Oldest + 1 ELSE Oldest
           /\ Window' = (Window \ {l \in Window : l < Oldest'}) \union {Entered}
           /\ Window = Oldest .. Entered - 1 /\ Window' = Oldest' .. Entered
           /\ e_tailIndex = ElementAt(Entered, 0) /\ e_tailIndex \in Nat
           /\ \A e \in Nat : e < e_tailIndex => Number(e) < Entered
<1>1. e_tailIndex \in Nat /\ slotsUsed \in Nat /\ e_tailIndex % BLOCK_SIZE = 0 /\ Oldest >= 0
  BY DEF RingTypes, ProducerTypes
<1>2. Entered = Number(e_tailIndex) /\ Entered' = Number(e_tailIndex) + 1 /\ Displayed = Entered /\ Recorded = Entered
      /\ Displayed' = Entered' - 1 /\ Recorded' = Entered' - 1
  <2>1. Entered = Number(e_tailIndex) + 0 /\ Number(e_tailIndex) \in Nat
    BY <1>1, ElementOfNumber DEF Entered
  <2>2. Entered' = Number(e_tailIndex)' + 1 /\ Number(e_tailIndex)' = Number(e_tailIndex)
    BY DEF Entered, Number
  <2>3. Displayed = Entered /\ Recorded = Entered /\ Displayed' = Entered' - 1 /\ Recorded' = Entered' - 1
    BY DEF Displayed, Recorded
  <2> QED BY <2>1, <2>2, <2>3
<1>3. Entered \in Nat /\ e_tailIndex = ElementAt(Entered, 0) /\ \A e \in Nat : e < e_tailIndex => Number(e) < Entered
  BY <1>1, <1>2, EnteredIs
<1>4. Entered' = Entered + 1 /\ Displayed' = Displayed /\ Recorded' = Recorded
  BY <1>2, <1>3
<1>5. Oldest = Entered - slotsUsed /\ Oldest' = Entered' - slotsUsed'
  BY DEF Oldest
<1>6. Oldest \in Nat /\ Oldest' \in Nat /\ Oldest' <= Entered /\ Oldest' = IF slotsUsed' = slotsUsed THEN Oldest + 1 ELSE Oldest
  <2>1. PICK n \in Nat : n = Entered
    BY <1>3
  <2>2. PICK u \in Nat : u = slotsUsed
    BY <1>1
  <2>3. PICK v \in {u, u + 1} : v = slotsUsed' /\ v > 0
    BY <2>2
  <2>4. Oldest = n - u /\ n - u >= 0 /\ Oldest' = n + 1 - v
    BY <1>1, <1>4, <1>5, <2>1, <2>2, <2>3
  <2>5. n - u \in Nat /\ n + 1 - v \in Nat /\ n + 1 - v <= n /\ n + 1 - v = IF v = u THEN n - u + 1 ELSE n - u
    <3>1. n - u \in Int /\ n - u >= 0 /\ (v = u \/ v = u + 1) /\ v > 0
      BY <2>1, <2>2, <2>3, <2>4
    <3>2. CASE v = u
      BY <3>1, <3>2, <2>1, <2>2
    <3>3. CASE v = u + 1
      BY <3>1, <3>3, <2>1, <2>2
    <3> QED BY <3>1, <3>2, <3>3
  <2>6. (v = u) <=> slotsUsed' = slotsUsed
    BY <2>2, <2>3
  <2> QED BY <2>1, <2>4, <2>5, <2>6
<1>7. Window = Oldest .. Entered - 1 /\ Window' = Oldest' .. Entered
  <2>1. Window' = Oldest' .. Entered' - 1
    BY DEF Window
  <2> QED BY <1>3, <1>4, <2>1 DEF Window
<1>8. Window' = (Window \ {l \in Window : l < Oldest'}) \union {Entered}
  BY <1>3, <1>6, <1>7
<1> QED BY <1>1, <1>2, <1>3, <1>4, <1>6, <1>7, <1>8

\* The block that was entered last is empty, and no claimed element's block was left.
LEMMA EnterStep ==
    ASSUME RingTypes, Claims, LinedUp, NEW blk, Arranged(blk), NEW b \in Blocks,
           e_ppc \in {"block", "requisition"}, e_ppc' = "entry", e_headers # <<>>,
           UNCHANGED <<e_tailIndex, e_headIndex, e_headers, size, front, e_cells, e_pc, e_local>>,
           slotsUsed' \in {slotsUsed, slotsUsed + 1}, slotsUsed' > 0, slotsUsed' <= size,
           emptyFlags' = Explicit!Flags(b), Explicit!Owned' = Explicit!Owned \union {b},
           \A x \in Explicit!Cells : e_cells[b][x] = Null,
           \A k \in Window : blk[k] = b => k < Oldest',
           \A c \in Consumers : e_pc[c] # "idle" => Number(e_local[c].index) >= Oldest',
           Number(e_headIndex) >= Oldest',
           OwnedTypes', NEW blk2, blk2 = Extended(blk, b), InRing(blk2)'
    PROVE  RingTypes' /\ Claims' /\ LinedUp' /\ Arranged(blk2)'
<1>1. /\ Entered' = Entered + 1 /\ Displayed' = Displayed /\ Recorded' = Recorded
      /\ Displayed = Entered /\ Recorded = Entered /\ Entered \in Nat /\ Oldest \in Nat /\ Oldest' \in Nat
      /\ Oldest' = IF slotsUsed' = slotsUsed THEN Oldest + 1 ELSE Oldest
      /\ Window = Oldest .. Entered - 1 /\ Window' = Oldest' .. Entered
      /\ e_tailIndex = ElementAt(Entered, 0) /\ e_tailIndex \in Nat
      /\ \A e \in Nat : e < e_tailIndex => Number(e) < Entered
  BY EnterNumbers
<1>2. ASSUME NEW k \in Window'
      PROVE  /\ k # Entered => k \in Window /\ blk2[k] = blk[k] /\ blk2[k] # b
             /\ k = Entered => blk2[k] = b
  <2>1. k # Entered => k \in Window
    BY <1>1
  <2>2. k \in Window => k >= Oldest' /\ ~(k < Oldest')
    BY <1>1
  <2>3. blk2[k] = IF k = Entered THEN b ELSE blk[k]
    BY DEF Extended
  <2> QED BY <2>1, <2>2, <2>3
<1>3. /\ \A h : Room(h)' = Room(h) /\ Places(h)' = Places(h) /\ Used(h)' = Used(h)
      /\ \A h, p : Slot(h, p)' = Slot(h, p) /\ Turn(h, p)' = Turn(h, p) /\ Explicit!EntryAt(h, p)' = Explicit!EntryAt(h, p)
  <2>1. \A h : Room(h)' = Room(h) /\ Places(h)' = Places(h)
    BY DEF Room, Places
  <2>2. \A h, p : Slot(h, p)' = Slot(h, p) /\ Explicit!EntryAt(h, p)' = Explicit!EntryAt(h, p)
    BY DEF Slot, Explicit!EntryAt
  <2>3. \A h, p : Turn(h, p)' = Turn(h, p)
    BY <2>1, <2>2 DEF Turn
  <2>4. \A h : Used(h)' = Used(h)
    BY <2>1, <2>2 DEF Used
  <2> QED BY <2>1, <2>2, <2>3, <2>4
<1>4. LinedUp'
  BY <1>3 DEF LinedUp
<1>5. ProducerTypes'
  <2>1. e_tailIndex % BLOCK_SIZE = 0 /\ e_headIndex \in 0 .. e_tailIndex /\ size \in Nat \ {0} /\ slotsUsed \in Nat
        /\ front \in 0 .. size - 1
    BY DEF RingTypes, ProducerTypes
  <2>2. slotsUsed' \in 0 .. size
    BY <2>1
  <2> QED BY <1>1, <2>1, <2>2 DEF ProducerTypes
<1>6. HeaderTypes' /\ ConsumerTypes'
  <2>1. HeaderTypes'
    BY <1>3 DEF RingTypes, HeaderTypes, Entries
  <2> QED BY <2>1 DEF RingTypes, ConsumerTypes
<1>7. MemoryTypes'
  <2>1. emptyFlags' \in [Blocks -> SUBSET Explicit!Cells]
    BY DEF RingTypes, MemoryTypes, Explicit!Flags
  <2> QED BY <2>1 DEF RingTypes, MemoryTypes, Explicit!Cells
<1>8. Claims'
  <2>1. \A c \in Consumers : Number(e_local[c].index)' = Number(e_local[c].index)
    BY DEF Number
  <2>2. Number(e_headIndex)' = Number(e_headIndex)
    BY DEF Number
  <2> QED BY <2>1, <2>2 DEF Claims
<1>9. Contents(blk2)'
  <2>1. ASSUME NEW k \in Window', NEW x \in Explicit!Cells
        PROVE  /\ e_cells[blk2[k]][x] = IF InCell(ElementAt(k, x))' THEN ElementAt(k, x) ELSE Null
               /\ x \in emptyFlags'[blk2[k]] <=> Finished(ElementAt(k, x))'
    <3>1. CASE k # Entered
      <4>1. k \in Window /\ blk2[k] = blk[k] /\ blk2[k] # b
        BY <1>2, <3>1
      <4>2. emptyFlags'[blk2[k]] = emptyFlags[blk[k]]
        BY <4>1 DEF Explicit!Flags, RingTypes, MemoryTypes, OwnedTypes, Arranged, InRing
      <4>3. (InCell(ElementAt(k, x))' <=> InCell(ElementAt(k, x))) /\ (Finished(ElementAt(k, x))' <=> Finished(ElementAt(k, x)))
        BY DEF InCell, Finished, ElementAt
      <4>4. /\ e_cells[blk[k]][x] = IF InCell(ElementAt(k, x)) THEN ElementAt(k, x) ELSE Null
            /\ x \in emptyFlags[blk[k]] <=> Finished(ElementAt(k, x))
        BY <4>1 DEF Arranged, Contents
      <4> QED BY <4>1, <4>2, <4>3, <4>4
    <3>2. CASE k = Entered
      <4>1. blk2[k] = b
        BY <1>2, <3>2
      <4>2. emptyFlags'[b] = {} /\ e_cells[b][x] = Null
        BY DEF Explicit!Flags, RingTypes, MemoryTypes
      <4>3. ElementAt(k, x) \in Nat /\ ElementAt(k, x) >= e_tailIndex
        <5>1. x \in Nat /\ 0 \in Explicit!Cells /\ ElementAt(k, x) \in Int
          BY <1>1, <3>2, NumberOfElement
        <5>2. x = 0 \/ 0 < x
          BY <5>1
        <5>3. k \in Int /\ (ElementAt(k, 0) < ElementAt(k, x) <=> 0 < x)
          BY <1>1, <3>2, <5>1, ElementOrder
        <5> QED BY <1>1, <3>2, <5>1, <5>2, <5>3
      <4>4. e_headIndex \in 0 .. e_tailIndex
        BY DEF RingTypes, ProducerTypes
      <4>5. ~InCell(ElementAt(k, x))' /\ ~Finished(ElementAt(k, x))'
        <5>1. InCell(ElementAt(k, x))' => ElementAt(k, x) < e_tailIndex
          BY DEF InCell, ElementAt
        <5>2. Finished(ElementAt(k, x))' => ElementAt(k, x) < e_headIndex
          BY DEF Finished, ElementAt
        <5> QED BY <1>1, <4>3, <4>4, <5>1, <5>2
      <4> QED BY <4>1, <4>2, <4>5
    <3> QED BY <3>1, <3>2
  <2>2. \A c \in Blocks \ Explicit!Owned', x \in Explicit!Cells : e_cells[c][x] = Null
    BY DEF Arranged, Contents
  <2> QED BY <2>1, <2>2 DEF Contents, Explicit!Cells, ElementAt
<1>10. Displays(blk2)'
  <2>0. PICK h : h = Len(e_headers)
    OBVIOUS
  <2>1. \A p \in Used(h) : Turn(h, p) = (front - Displayed) % size
    BY <2>0 DEF Arranged, Displays
  <2>2. ASSUME NEW k \in Oldest' .. Recorded - 1
        PROVE  Explicit!EntryAt(h, front - Displayed + k) = [base |-> ElementAt(k, 0), block |-> blk2[k]]
    <3>1. k \in Oldest .. Recorded - 1 /\ k \in Window' /\ k # Entered
      BY <1>1
    <3>2. blk2[k] = blk[k]
      BY <1>2, <3>1
    <3> QED BY <2>0, <3>1, <3>2 DEF Arranged, Displays
  <2>3. Displayed > 0 => e_headers[h].front \in Used(h)
    BY <2>0 DEF Arranged, Displays
  <2>4. h = Len(e_headers')
    BY <2>0
  <2>5. \A p \in Used(h)' : Turn(h, p)' = (front - Displayed)' % size
    BY <1>1, <1>3, <2>1
  <2>6. \A k \in Oldest' .. Recorded' - 1 :
          Explicit!EntryAt(h, front - Displayed + k)' = [base |-> ElementAt(k, 0), block |-> blk2[k]]
    <3>1. \A k : Explicit!EntryAt(h, front - Displayed + k)' = Explicit!EntryAt(h, front - Displayed + k)
      BY <1>1 DEF Explicit!EntryAt
    <3> QED BY <1>1, <2>2, <3>1
  <2>7. Displayed' > 0 => e_headers'[h].front \in Used(h)'
    BY <1>1, <1>3, <2>3
  <2> QED BY <2>4, <2>5, <2>6, <2>7 DEF Displays, ElementAt
<1>11. Led(blk2)'
  <2> SUFFICES ASSUME NEW c \in Consumers, NEW h, h = e_local[c].header, NEW k, k = Number(e_local[c].index), e_pc[c] # "idle"
               PROVE  /\ e_pc[c] \in {"front", "find"} =>
                           /\ h \in DOMAIN e_headers /\ e_headers[h].front \in Used(h)'
                           /\ \E p \in Places(h)' : Slot(h, p)' = [base |-> ElementAt(k, 0), block |-> blk2[k]]
                      /\ e_pc[c] = "find" => e_local[c].front \in Used(h)'
                      /\ e_pc[c] \in {"move", "flag"} => e_local[c].block = blk2[k]
    BY DEF Led, Number, ElementAt
  <2>1. e_local[c].index < e_headIndex /\ k >= Oldest' /\ e_local[c].index \in Nat
    BY DEF Claims, RingTypes, ConsumerTypes
  <2>2. e_headIndex \in 0 .. e_tailIndex
    BY DEF RingTypes, ProducerTypes
  <2>3. e_local[c].index < e_tailIndex
    BY <1>1, <2>1, <2>2
  <2>4. k \in Nat /\ k < Entered
    BY <1>1, <2>1, <2>3, ElementOfNumber
  <2>5. k \in Window' /\ k # Entered
    BY <1>1, <2>1, <2>4
  <2>6. blk2[k] = blk[k]
    BY <1>2, <2>5
  <2> QED BY <1>3, <2>6 DEF Arranged, Led
<1> QED BY <1>4, <1>5, <1>6, <1>7, <1>8, <1>9, <1>10, <1>11 DEF RingTypes, Arranged

\* The ring is turned, and the oldest block is the tail.
LEMMA ReuseStep ==
    ASSUME RingTypes, Claims, LinedUp, NEW blk, Arranged(blk), Explicit!Reuse
    PROVE  RingTypes' /\ Claims' /\ LinedUp' /\ \E blk2 \in [Window' -> Blocks] : Arranged(blk2)'
<1> DEFINE b == blk[Oldest]
<1>1. /\ e_ppc = "block" /\ e_ppc' = "entry" /\ e_tailBlock # Null /\ Explicit!is_empty(ring[e_tailBlock])
      /\ e_tailBlock' = ring[e_tailBlock] /\ emptyFlags' = Explicit!Flags(ring[e_tailBlock])
      /\ UNCHANGED <<e_tailIndex, e_headIndex, e_headers, slotsUsed, size, front, ring, e_cells, e_pc, e_local>>
  BY DEF Explicit!Reuse, Explicit!CanReuse, Explicit!indices, Explicit!index
<1>2. slotsUsed \in Nat \ {0} /\ slotsUsed <= size /\ e_headers # <<>> /\ e_tailIndex \in Nat /\ e_headIndex \in Nat
  <2>1. slotsUsed # 0
    BY <1>1 DEF Arranged, InRing
  <2> QED BY <2>1 DEF RingTypes, ProducerTypes
<1>3. /\ Entered' = Entered + 1 /\ Entered \in Nat /\ Oldest \in Nat /\ Oldest' = Oldest + 1
      /\ Window = Oldest .. Entered - 1 /\ Window' = Oldest + 1 .. Entered
  <2>1. slotsUsed' \in {slotsUsed, slotsUsed + 1} /\ slotsUsed' > 0
    BY <1>1, <1>2
  <2> QED BY <1>1, <2>1, EnterNumbers
<1>4. Oldest \in Window /\ Entered - 1 \in Window /\ Oldest <= Entered - 1
  <2>1. Oldest = Entered - slotsUsed
    BY DEF Oldest
  <2> QED BY <1>2, <1>3, <2>1
<1>5. /\ e_tailBlock = blk[Entered - 1] /\ ring[e_tailBlock] = b /\ b \in Explicit!Owned /\ b \in Blocks
      /\ \A k \in Window : blk[k] \in Explicit!Owned /\ blk[k] \in Blocks /\ (blk[k] = b => k = Oldest)
  <2>1. e_tailBlock = blk[Entered - 1] /\ ring[e_tailBlock] = b
    BY <1>2, <1>4 DEF Arranged, InRing
  <2>2. \A k \in Window : blk[k] \in Explicit!Owned /\ blk[k] \in Blocks /\ (blk[k] = b => k = Oldest)
    BY <1>4 DEF Arranged, InRing, RingTypes, OwnedTypes
  <2> QED BY <1>4, <2>1, <2>2
<1> HIDE DEF b
<1>6. \A x \in Explicit!Cells : Finished(ElementAt(Oldest, x)) /\ ~InCell(ElementAt(Oldest, x)) /\ e_cells[b][x] = Null
  <2> SUFFICES ASSUME NEW x \in Explicit!Cells
               PROVE  Finished(ElementAt(Oldest, x)) /\ ~InCell(ElementAt(Oldest, x)) /\ e_cells[b][x] = Null
    OBVIOUS
  <2>1. emptyFlags[b] = Explicit!Cells
    BY <1>1, <1>5 DEF Explicit!is_empty
  <2>2. Finished(ElementAt(Oldest, x)) /\ e_cells[b][x] = IF InCell(ElementAt(Oldest, x)) THEN ElementAt(Oldest, x) ELSE Null
    BY <1>4, <2>1 DEF Arranged, Contents, b
  <2>3. ElementAt(Oldest, x) \in Int
    BY <1>3, NumberOfElement
  <2>4. ~InCell(ElementAt(Oldest, x))
    BY <1>2, <2>2, <2>3 DEF InCell, Finished, Reading
  <2> QED BY <2>2, <2>4
<1>7. ASSUME NEW i \in Nat, Number(i) >= Oldest, ~Finished(i) PROVE Number(i) >= Oldest + 1
  <2>1. Number(i) \in Nat /\ i % BLOCK_SIZE \in Explicit!Cells /\ i = ElementAt(Number(i), i % BLOCK_SIZE)
    BY ElementOfNumber
  <2>2. Number(i) # Oldest
    BY <1>6, <1>7, <2>1
  <2> QED BY <1>3, <1>7, <2>1, <2>2
<1>8. \A c \in Consumers : e_pc[c] # "idle" => Number(e_local[c].index) >= Oldest'
  <2> SUFFICES ASSUME NEW c \in Consumers, e_pc[c] # "idle" PROVE Number(e_local[c].index) >= Oldest + 1
    BY <1>3
  <2>1. e_local[c].index \in Nat /\ Number(e_local[c].index) >= Oldest /\ ~Finished(e_local[c].index)
    BY DEF RingTypes, ConsumerTypes, Claims, Finished
  <2> QED BY <1>7, <2>1
<1>9. Number(e_headIndex) >= Oldest'
  <2>1. Number(e_headIndex) >= Oldest /\ ~Finished(e_headIndex)
    BY <1>2 DEF Claims, Finished
  <2> QED BY <1>2, <1>3, <1>7, <2>1
<1>10. Explicit!Owned' = Explicit!Owned /\ Explicit!Owned \union {b} = Explicit!Owned /\ OwnedTypes'
  BY <1>1, <1>5 DEF OwnedTypes, RingTypes, Explicit!Owned
<1>11. PICK blk2 : blk2 = Extended(blk, b)
  OBVIOUS
<1>12. /\ DOMAIN blk2 = Window' /\ blk2 \in [Window' -> Explicit!Owned] /\ blk2[Entered] = b
       /\ \A k \in Oldest + 1 .. Entered - 1 : blk2[k] = blk[k]
  <2>1. ASSUME NEW k \in Window' PROVE blk2[k] = (IF k = Entered THEN b ELSE blk[k]) /\ (k # Entered => k \in Window)
    BY <1>3, <1>11 DEF Extended
  <2>2. Entered \in Window' /\ \A k \in Oldest + 1 .. Entered - 1 : k \in Window' /\ k # Entered
    BY <1>3, <1>4
  <2>3. \A k \in Window' : blk2[k] \in Explicit!Owned
    BY <1>5, <2>1
  <2>4. blk2 = [k \in Window' |-> blk2[k]] /\ DOMAIN blk2 = Window'
    BY <1>11 DEF Extended
  <2> QED BY <2>1, <2>2, <2>3, <2>4
<1>13. InRing(blk2)'
  <2>1. Explicit!Owned = {blk2[k] : k \in Window'}
    <3>1. ASSUME NEW k \in Window PROVE \E l \in Window' : blk2[l] = blk[k]
      <4>1. CASE k = Oldest
        BY <1>3, <1>4, <1>12, <4>1 DEF b
      <4>2. CASE k # Oldest
        <5>1. k \in Oldest + 1 .. Entered - 1 /\ k \in Window'
          BY <1>3, <4>2
        <5> QED BY <1>12, <5>1
      <4> QED BY <4>1, <4>2
    <3> QED BY <1>12, <3>1 DEF Arranged, InRing
  <2>2. ASSUME NEW k \in Window', NEW l \in Window', blk2[k] = blk2[l] PROVE k = l
    <3>1. \A j \in Window' : j = Entered \/ j \in Oldest + 1 .. Entered - 1
      BY <1>3
    <3>2. \A j \in Oldest + 1 .. Entered - 1 : j \in Window /\ blk2[j] = blk[j] /\ blk[j] # b
      BY <1>3, <1>5, <1>12
    <3> QED BY <1>12, <2>2, <3>1, <3>2 DEF Arranged, InRing
  <2>3. ASSUME NEW k \in Window' PROVE ring[blk2[k]] = blk2[IF k = Entered THEN Oldest + 1 ELSE k + 1]
    <3>1. \A j \in Window : ring[blk[j]] = blk[IF j = Entered - 1 THEN Oldest ELSE j + 1]
      BY DEF Arranged, InRing
    <3>2. CASE k = Entered
      <4>1. ring[blk2[k]] = blk[IF Oldest = Entered - 1 THEN Oldest ELSE Oldest + 1]
        BY <1>4, <1>12, <3>1, <3>2 DEF b
      <4>2. CASE Oldest = Entered - 1
        <5>1. Oldest + 1 = Entered
          BY <1>3, <4>2
        <5> QED BY <1>12, <3>2, <4>1, <4>2, <5>1 DEF b
      <4>3. CASE Oldest # Entered - 1
        <5>1. Oldest + 1 \in Oldest + 1 .. Entered - 1
          BY <1>3, <1>4, <4>3
        <5> QED BY <1>12, <3>2, <4>1, <4>3, <5>1
      <4> QED BY <4>2, <4>3
    <3>3. CASE k # Entered
      <4>1. k \in Oldest + 1 .. Entered - 1 /\ k \in Window
        BY <1>3, <3>3
      <4>2. ring[blk2[k]] = blk[IF k = Entered - 1 THEN Oldest ELSE k + 1]
        BY <1>12, <3>1, <4>1
      <4>3. CASE k = Entered - 1
        <5>1. k + 1 = Entered
          BY <1>3, <4>3
        <5> QED BY <1>12, <3>3, <4>2, <4>3, <5>1 DEF b
      <4>4. CASE k # Entered - 1
        <5>1. k + 1 \in Oldest + 1 .. Entered - 1
          BY <1>3, <4>1, <4>4
        <5> QED BY <1>12, <3>3, <4>2, <4>4, <5>1
      <4> QED BY <4>3, <4>4
    <3> QED BY <3>2, <3>3
  <2>4. e_tailBlock' = b /\ Entered' - 1 = Entered /\ slotsUsed' # 0
    BY <1>1, <1>2, <1>3, <1>5
  <2>5. \A k \in Window' : ring'[blk2[k]] = blk2[IF k = Entered' - 1 THEN Oldest' ELSE k + 1]
    BY <1>1, <1>3, <2>3, <2>4
  <2>6. e_tailBlock' = IF slotsUsed' = 0 THEN Null ELSE blk2[Entered' - 1]
    BY <1>12, <2>4
  <2> QED BY <1>10, <2>1, <2>2, <2>5, <2>6 DEF InRing
<1>14. \A k \in Window : blk[k] = b => k < Oldest'
  BY <1>3, <1>5
<1>15. RingTypes' /\ Claims' /\ LinedUp' /\ Arranged(blk2)'
  BY <1>1, <1>2, <1>5, <1>6, <1>8, <1>9, <1>10, <1>11, <1>13, <1>14, EnterStep
<1>16. blk2 \in [Window' -> Blocks]
  <2>1. Explicit!Owned \subseteq Blocks
    BY DEF RingTypes, OwnedTypes
  <2> QED BY <1>12, <2>1
<1> QED BY <1>15, <1>16

\* A block of the pool goes into the ring behind the tail.
LEMMA RequisitionStep ==
    ASSUME RingTypes, Claims, LinedUp, NEW blk, Arranged(blk), NEW b \in Blocks, Explicit!Requisition(b)
    PROVE  RingTypes' /\ Claims' /\ LinedUp' /\ \E blk2 \in [Window' -> Blocks] : Arranged(blk2)'
<1>1. /\ e_ppc = "requisition" /\ e_ppc' = "entry" /\ b \notin Explicit!Owned /\ emptyFlags' = Explicit!Flags(b)
      /\ ring' = [c \in Explicit!Owned \union {b} |->
                    CASE c = b -> IF e_tailBlock = Null THEN b ELSE ring[e_tailBlock]
                      [] c = e_tailBlock -> b
                      [] OTHER -> ring[c]]
      /\ e_tailBlock' = b /\ slotsUsed' = slotsUsed + 1
      /\ UNCHANGED <<e_tailIndex, e_headIndex, e_headers, size, front, e_cells, e_pc, e_local>>
  BY DEF Explicit!Requisition, Explicit!indices
<1>2. slotsUsed \in Nat /\ size \in Nat /\ slotsUsed + 1 <= size /\ e_headers # <<>> /\ e_tailIndex \in Nat /\ e_headIndex \in Nat
  BY <1>1 DEF RingTypes, ProducerTypes
<1>3. /\ Entered' = Entered + 1 /\ Entered \in Nat /\ Oldest \in Nat /\ Oldest' = Oldest
      /\ Window = Oldest .. Entered - 1 /\ Window' = Oldest .. Entered
  <2>1. slotsUsed' \in {slotsUsed, slotsUsed + 1} /\ slotsUsed' > 0 /\ slotsUsed' # slotsUsed
    BY <1>1, <1>2
  <2> QED BY <1>1, <2>1, EnterNumbers
<1>4. Oldest = Entered - slotsUsed /\ (slotsUsed # 0 => Oldest \in Window /\ Entered - 1 \in Window)
  <2>1. Oldest = Entered - slotsUsed
    BY DEF Oldest
  <2> QED BY <1>2, <1>3, <2>1
<1>5. /\ \A k \in Window : blk[k] \in Explicit!Owned /\ blk[k] \in Blocks /\ blk[k] # b
      /\ slotsUsed = 0 => e_tailBlock = Null
      /\ slotsUsed # 0 => e_tailBlock = blk[Entered - 1] /\ e_tailBlock \in Explicit!Owned /\ e_tailBlock # Null
                          /\ ring[e_tailBlock] = blk[Oldest] /\ ring[e_tailBlock] \in Explicit!Owned
  <2>1. \A k \in Window : blk[k] \in Explicit!Owned /\ blk[k] \in Blocks /\ blk[k] # b
    BY <1>1 DEF Arranged, InRing, RingTypes, OwnedTypes
  <2>2. slotsUsed = 0 => e_tailBlock = Null
    BY DEF Arranged, InRing
  <2>3. slotsUsed # 0 => e_tailBlock = blk[Entered - 1] /\ ring[e_tailBlock] = blk[Oldest]
    BY <1>4 DEF Arranged, InRing
  <2> QED BY <1>4, <2>1, <2>2, <2>3, RingConstants
<1>6. Explicit!Owned' = Explicit!Owned \union {b}
  BY <1>1 DEF Explicit!Owned
<1>7. /\ ring'[b] = IF slotsUsed = 0 THEN b ELSE ring[e_tailBlock]
      /\ slotsUsed # 0 => ring'[e_tailBlock] = b
      /\ \A c \in Explicit!Owned : c # e_tailBlock => ring'[c] = ring[c]
  <2>1. ring'[b] = IF e_tailBlock = Null THEN b ELSE ring[e_tailBlock]
    <3>1. b # e_tailBlock
      BY <1>1, <1>5, RingConstants
    <3> QED BY <1>1, <3>1
  <2>2. slotsUsed # 0 => ring'[e_tailBlock] = b
    <3>1. slotsUsed # 0 => e_tailBlock # b
      BY <1>1, <1>5
    <3> QED BY <1>1, <1>5, <3>1
  <2>3. ASSUME NEW c \in Explicit!Owned, c # e_tailBlock PROVE ring'[c] = ring[c]
    <3>1. c # b
      BY <1>1
    <3> QED BY <1>1, <2>3, <3>1
  <2> QED BY <1>5, <2>1, <2>2, <2>3
<1>8. OwnedTypes'
  <2>1. ring \in [Explicit!Owned -> Explicit!Owned] /\ Explicit!Owned \subseteq Blocks /\ IsFiniteSet(Explicit!Owned) /\ slotsUsed = Cardinality(Explicit!Owned)
    BY DEF RingTypes, OwnedTypes
  <2>2. IsFiniteSet(Explicit!Owned \union {b}) /\ Cardinality(Explicit!Owned \union {b}) = slotsUsed + 1
    BY <1>1, <2>1, FS_AddElement
  <2>3. \A c \in Explicit!Owned \union {b} : ring'[c] \in Explicit!Owned \union {b}
    BY <1>5, <1>7, <2>1, RingConstants
  <2>4. ring' = [c \in Explicit!Owned \union {b} |-> ring'[c]]
    BY <1>1
  <2>5. ring' \in [Explicit!Owned \union {b} -> Explicit!Owned \union {b}]
    BY <2>3, <2>4
  <2>6. Explicit!Owned \union {b} \subseteq Blocks
    BY <2>1
  <2> QED BY <1>1, <1>6, <2>2, <2>5, <2>6 DEF OwnedTypes
<1>9. PICK blk2 : blk2 = Extended(blk, b)
  OBVIOUS
<1>10. /\ DOMAIN blk2 = Window' /\ blk2 \in [Window' -> Explicit!Owned \union {b}] /\ blk2[Entered] = b
       /\ \A k \in Window : blk2[k] = blk[k]
       /\ Entered \in Window' /\ Entered \notin Window /\ Window' = Window \union {Entered}
  <2>1. ASSUME NEW k \in Window' PROVE blk2[k] = (IF k = Entered THEN b ELSE blk[k]) /\ (k # Entered => k \in Window)
    BY <1>3, <1>9 DEF Extended
  <2>2. Oldest <= Entered
    BY <1>2, <1>3, <1>4
  <2>3. Entered \in Window' /\ Entered \notin Window /\ Window' = Window \union {Entered}
    BY <1>3, <2>2
  <2>4. \A k \in Window' : blk2[k] \in Explicit!Owned \union {b}
    BY <1>5, <2>1
  <2>5. blk2 = [k \in Window' |-> blk2[k]] /\ DOMAIN blk2 = Window'
    BY <1>9 DEF Extended
  <2> QED BY <2>1, <2>3, <2>4, <2>5
<1>11. InRing(blk2)'
  <2>1. Explicit!Owned' = {blk2[k] : k \in Window'}
    BY <1>6, <1>10 DEF Arranged, InRing
  <2>2. \A k, l \in Window' : blk2[k] = blk2[l] => k = l
    BY <1>5, <1>10 DEF Arranged, InRing
  <2>3. ASSUME NEW k \in Window' PROVE ring'[blk2[k]] = blk2[IF k = Entered THEN Oldest ELSE k + 1]
    <3>1. \A j \in Window : ring[blk[j]] = blk[IF j = Entered - 1 THEN Oldest ELSE j + 1]
      BY DEF Arranged, InRing
    <3>2. CASE k = Entered
      <4>1. CASE slotsUsed = 0
        <5>1. Oldest = Entered
          BY <1>3, <1>4, <4>1
        <5> QED BY <1>7, <1>10, <3>2, <4>1, <5>1
      <4>2. CASE slotsUsed # 0
        BY <1>4, <1>5, <1>7, <1>10, <3>2, <4>2
      <4> QED BY <4>1, <4>2
    <3>3. CASE k # Entered
      <4>1. k \in Window /\ blk2[k] = blk[k] /\ blk[k] \in Explicit!Owned
        BY <1>5, <1>10, <3>3
      <4>2. CASE k = Entered - 1
        <5>1. k + 1 = Entered /\ slotsUsed # 0
          BY <1>2, <1>3, <1>4, <4>1, <4>2
        <5> QED BY <1>5, <1>7, <1>10, <3>3, <4>1, <4>2, <5>1
      <4>3. CASE k # Entered - 1
        <5>1. slotsUsed # 0 /\ k + 1 \in Window /\ k + 1 # Entered
          BY <1>2, <1>3, <1>4, <4>1, <4>3
        <5>2. blk[k] # e_tailBlock
          BY <1>4, <1>5, <4>1, <4>3, <5>1 DEF Arranged, InRing
        <5>3. ring'[blk[k]] = blk[k + 1]
          BY <1>7, <3>1, <4>1, <4>3, <5>2
        <5> QED BY <1>10, <3>3, <4>1, <5>1, <5>3
      <4> QED BY <4>2, <4>3
    <3> QED BY <3>2, <3>3
  <2>4. Entered' - 1 = Entered /\ slotsUsed' # 0
    BY <1>1, <1>2, <1>3
  <2>5. \A k \in Window' : ring'[blk2[k]] = blk2[IF k = Entered' - 1 THEN Oldest' ELSE k + 1]
    BY <1>3, <2>3, <2>4
  <2>6. e_tailBlock' = IF slotsUsed' = 0 THEN Null ELSE blk2[Entered' - 1]
    BY <1>1, <1>10, <2>4
  <2> QED BY <2>1, <2>2, <2>5, <2>6 DEF InRing
<1>12. \A k \in Window : blk[k] = b => k < Oldest'
  BY <1>5
<1>13. \A x \in Explicit!Cells : e_cells[b][x] = Null
  BY <1>1 DEF Arranged, Contents
<1>14. (\A c \in Consumers : e_pc[c] # "idle" => Number(e_local[c].index) >= Oldest') /\ Number(e_headIndex) >= Oldest'
  BY <1>3 DEF Claims
<1>15. slotsUsed' \in {slotsUsed, slotsUsed + 1} /\ slotsUsed' > 0 /\ slotsUsed' <= size
  BY <1>1, <1>2
<1>16. RingTypes' /\ Claims' /\ LinedUp' /\ Arranged(blk2)'
  BY <1>1, <1>2, <1>6, <1>8, <1>9, <1>11, <1>12, <1>13, <1>14, <1>15, EnterStep
<1>17. blk2 \in [Window' -> Blocks]
  <2>1. Explicit!Owned \union {b} \subseteq Blocks
    BY DEF RingTypes, OwnedTypes
  <2> QED BY <1>10, <2>1
<1> QED BY <1>16, <1>17

-----------------------------------------------------------------------------
(* The ring: steps that write the index.                                   *)

\* A new index has the entries it is given, and then none.
LEMMA HeaderOf ==
    ASSUME NEW n \in Nat, NEW s \in Seq(Entries), Len(s) <= n, NEW f \in Int
    PROVE  /\ Explicit!Header(f, s, n) \in [front : Int, entries : Seq(Entries)]
           /\ Len(Explicit!Header(f, s, n).entries) = n /\ Explicit!Header(f, s, n).front = f
           /\ \A i \in 1 .. n : Explicit!Header(f, s, n).entries[i] = IF i <= Len(s) THEN s[i] ELSE Explicit!NoEntry
<1> DEFINE rest == [i \in 1 .. n - Len(s) |-> Explicit!NoEntry]
           both == s \o rest
<1>1. PICK m \in Nat : m = Len(s) /\ m <= n
  BY LenProperties
<1>2. n - m \in Nat
  BY <1>1
<1>3. rest \in Seq(Entries) /\ Len(rest) = n - m /\ \A i \in 1 .. n - m : rest[i] = Explicit!NoEntry
  <2>1. Explicit!NoEntry \in Entries
    BY DEF Explicit!NoEntry, Entries
  <2>2. rest \in [1 .. n - m -> Entries]
    BY <1>1, <2>1
  <2>3. rest \in Seq(Entries) /\ Len(rest) = n - m
    BY <1>2, <2>2
  <2> QED BY <1>1, <2>3
<1> HIDE DEF rest
<1>4. both \in Seq(Entries) /\ Len(both) = n
  <2>1. both \in Seq(Entries) /\ Len(both) = Len(s) + Len(rest)
    BY <1>3, ConcatProperties
  <2> QED BY <1>1, <1>2, <1>3, <2>1
<1>5. \A i \in 1 .. n : both[i] = IF i <= m THEN s[i] ELSE Explicit!NoEntry
  <2> SUFFICES ASSUME NEW i \in 1 .. n PROVE both[i] = IF i <= m THEN s[i] ELSE Explicit!NoEntry
    OBVIOUS
  <2>1. i \in 1 .. Len(s) + Len(rest)
    BY <1>1, <1>2, <1>3
  <2>2. both[i] = IF i <= Len(s) THEN s[i] ELSE rest[i - Len(s)]
    BY <1>3, <2>1, ConcatProperties
  <2>3. ~(i <= m) => i - m \in 1 .. n - m
    BY <1>1, <1>2
  <2> QED BY <1>1, <1>3, <2>2, <2>3
<1>6. Explicit!Header(f, s, n) = [front |-> f, entries |-> both]
  BY DEF Explicit!Header, rest
<1> HIDE DEF both
<1> QED BY <1>1, <1>4, <1>5, <1>6

\* An index that is not written.
LEMMA HeaderFrame ==
    ASSUME NEW h, e_headers'[h] = e_headers[h]
    PROVE  /\ Room(h)' = Room(h) /\ Places(h)' = Places(h) /\ Used(h)' = Used(h)
           /\ \A p : Slot(h, p)' = Slot(h, p) /\ Turn(h, p)' = Turn(h, p) /\ Explicit!EntryAt(h, p)' = Explicit!EntryAt(h, p)
<1>1. Room(h)' = Room(h) /\ Places(h)' = Places(h)
  BY DEF Room, Places
<1>2. \A p : Slot(h, p)' = Slot(h, p) /\ Explicit!EntryAt(h, p)' = Explicit!EntryAt(h, p)
  BY DEF Slot, Explicit!EntryAt
<1>3. \A p : Turn(h, p)' = Turn(h, p)
  BY <1>1, <1>2 DEF Turn
<1> QED BY <1>1, <1>2, <1>3 DEF Used

\* A step that only changes the index: what it has to show.
LEMMA IndexStep ==
    ASSUME RingTypes, Claims, NEW blk, Arranged(blk),
           UNCHANGED <<e_tailIndex, e_headIndex, slotsUsed, ring, e_tailBlock, e_cells, emptyFlags, e_pc, e_local>>,
           Entered' = Entered, e_ppc # "publish", e_ppc' # "publish",
           ProducerTypes', HeaderTypes', LinedUp', Displays(blk)',
           \A h \in DOMAIN e_headers : h \in DOMAIN e_headers' /\ Places(h)' = Places(h) /\ Used(h) \subseteq Used(h)',
           \A h \in DOMAIN e_headers : e_headers[h].front \in Used(h) => e_headers'[h].front \in Used(h)',
           \A h \in DOMAIN e_headers, k \in Window :
             (\E p \in Places(h) : Slot(h, p) = [base |-> ElementAt(k, 0), block |-> blk[k]])
               => (\E p \in Places(h) : Slot(h, p)' = [base |-> ElementAt(k, 0), block |-> blk[k]])
    PROVE  RingTypes' /\ Claims' /\ LinedUp' /\ Arranged(blk)'
<1>1. Oldest' = Oldest /\ Window' = Window /\ Explicit!Owned' = Explicit!Owned
  <2>1. Oldest' = Oldest
    BY DEF Oldest
  <2> QED BY <2>1 DEF Window, Explicit!Owned
<1>2. OwnedTypes' /\ MemoryTypes' /\ ConsumerTypes'
  BY <1>1 DEF RingTypes, OwnedTypes, MemoryTypes, ConsumerTypes, Explicit!Cells
<1>3. Claims'
  BY <1>1 DEF Claims, Number
<1>4. InRing(blk)'
  BY <1>1 DEF InRing, Arranged
<1>5. Contents(blk)'
  <2>1. ASSUME NEW k \in Window, NEW x \in Explicit!Cells
        PROVE  /\ e_cells[blk[k]][x] = IF InCell(ElementAt(k, x))' THEN ElementAt(k, x) ELSE Null
               /\ x \in emptyFlags[blk[k]] <=> Finished(ElementAt(k, x))'
    <3>1. (InCell(ElementAt(k, x))' <=> InCell(ElementAt(k, x))) /\ (Finished(ElementAt(k, x))' <=> Finished(ElementAt(k, x)))
      BY DEF InCell, Finished, ElementAt
    <3> QED BY <3>1 DEF Arranged, Contents
  <2> QED BY <1>1, <2>1 DEF Arranged, Contents, Explicit!Cells, ElementAt
<1>6. Led(blk)'
  <2> SUFFICES ASSUME NEW c \in Consumers, NEW h, h = e_local[c].header, NEW k, k = Number(e_local[c].index), e_pc[c] # "idle"
               PROVE  /\ e_pc[c] \in {"front", "find"} =>
                           /\ h \in DOMAIN e_headers' /\ e_headers'[h].front \in Used(h)'
                           /\ \E p \in Places(h)' : Slot(h, p)' = [base |-> ElementAt(k, 0), block |-> blk[k]]
                      /\ e_pc[c] = "find" => e_local[c].front \in Used(h)'
                      /\ e_pc[c] \in {"move", "flag"} => e_local[c].block = blk[k]
    BY DEF Led, Number, ElementAt
  <2>1. k \in Window
    <3>1. e_local[c].index \in Nat /\ e_local[c].index < e_headIndex /\ k >= Oldest
      BY DEF Claims, RingTypes, ConsumerTypes
    <3>2. e_headIndex \in 0 .. e_tailIndex /\ e_tailIndex \in Nat /\ Oldest >= 0 /\ slotsUsed \in Nat
      BY DEF RingTypes, ProducerTypes
    <3>3. e_local[c].index < e_tailIndex
      BY <3>1, <3>2
    <3>4. k \in Nat /\ Entered \in Nat /\ k < Entered
      BY <3>1, <3>2, <3>3, EnteredIs, ElementOfNumber
    <3>5. Oldest \in Int
      BY <3>2, <3>4 DEF Oldest
    <3> QED BY <3>1, <3>4, <3>5 DEF Window
  <2>2. e_pc[c] \in {"front", "find"} =>
          /\ h \in DOMAIN e_headers /\ e_headers[h].front \in Used(h)
          /\ \E p \in Places(h) : Slot(h, p) = [base |-> ElementAt(k, 0), block |-> blk[k]]
    BY DEF Arranged, Led
  <2>3. (e_pc[c] = "find" => e_local[c].front \in Used(h)) /\ (e_pc[c] \in {"move", "flag"} => e_local[c].block = blk[k])
    BY DEF Arranged, Led
  <2>4. h \in DOMAIN e_headers => Places(h)' = Places(h) /\ Used(h) \subseteq Used(h)'
    OBVIOUS
  <2> QED BY <2>1, <2>2, <2>3, <2>4
<1> QED BY <1>2, <1>3, <1>4, <1>5, <1>6 DEF RingTypes, Arranged

\* Numbers with one remainder that are less than a turn apart.
LEMMA SameRemainder ==
    ASSUME NEW n \in Nat \ {0}, NEW a \in Int, NEW b \in Int, a % n = b % n, a <= b, b < a + n
    PROVE  a = b
<1> DEFINE d == a \div n
           q == b \div n
           r == a % n
<1>1. d \in Int /\ r \in Int /\ a = d * n + r
  BY DivMod
<1>2. q \in Int /\ b = q * n + r
  BY DivMod
<1> HIDE DEF d, q, r
<1>3. b - a = n * (q - d) /\ q - d \in Int
  BY <1>1, <1>2
<1>4. q - d >= 1 => n * (q - d) >= n
  BY <1>3, Product
<1>5. d - q >= 1 => n * (d - q) >= n
  BY <1>1, <1>2, Product
<1>6. n * (d - q) = a - b
  BY <1>1, <1>2
<1>7. ~(q - d >= 1) /\ ~(d - q >= 1)
  BY <1>3, <1>4, <1>5, <1>6
<1>8. q = d
  BY <1>1, <1>2, <1>7
<1> QED BY <1>1, <1>2, <1>8

\* What the index has of the ring.
LEMMA IndexIs ==
    ASSUME RingTypes, NEW blk, Arranged(blk), e_headers # <<>>, NEW h, h = Len(e_headers)
    PROVE  /\ h \in DOMAIN e_headers /\ h \in Nat \ {0} /\ DOMAIN e_headers = 1 .. h /\ Room(h) = size
           /\ size \in Nat \ {0} /\ front \in 0 .. size - 1 /\ Places(h) = 0 .. size - 1
           /\ Entered \in Nat /\ Oldest \in Nat /\ Oldest = Entered - slotsUsed /\ slotsUsed \in 0 .. size
           /\ Window = Oldest .. Entered - 1
           /\ \A p \in Used(h) : Turn(h, p) = (front - Displayed) % size
           /\ \A k \in Oldest .. Recorded - 1 :
                Explicit!EntryAt(h, front - Displayed + k) = [base |-> ElementAt(k, 0), block |-> blk[k]]
           /\ \A pos \in Int : pos % size \in Places(h) /\ Explicit!EntryAt(h, pos) = Slot(h, pos % size)
<1>1. h \in DOMAIN e_headers /\ h \in Nat \ {0} /\ DOMAIN e_headers = 1 .. h
  <2>1. h \in Nat /\ DOMAIN e_headers = 1 .. h /\ h # 0
    BY LenProperties, EmptySeq DEF RingTypes, HeaderTypes
  <2> QED BY <2>1
<1>2. Room(h) = size /\ size \in Nat \ {0} /\ front \in 0 .. size - 1 /\ slotsUsed \in 0 .. size /\ e_tailIndex \in Nat /\ Oldest >= 0
  BY DEF RingTypes, HeaderTypes, ProducerTypes
<1>3. Entered \in Nat /\ Oldest = Entered - slotsUsed /\ Window = Oldest .. Entered - 1
  BY <1>2, EnteredIs DEF Oldest, Window
<1>4. Places(h) = 0 .. size - 1 /\ Oldest \in Nat
  BY <1>2, <1>3 DEF Places
<1>5. \A pos \in Int : pos % size \in Places(h) /\ Explicit!EntryAt(h, pos) = Slot(h, pos % size)
  BY <1>1, <1>2, HeaderIs DEF RingTypes
<1>6. /\ \A p \in Used(h) : Turn(h, p) = (front - Displayed) % size
      /\ \A k \in Oldest .. Recorded - 1 :
           Explicit!EntryAt(h, front - Displayed + k) = [base |-> ElementAt(k, 0), block |-> blk[k]]
  BY DEF Arranged, Displays
<1> QED BY <1>1, <1>2, <1>3, <1>4, <1>5, <1>6

\* The index takes the entry of the block that was entered.
LEMMA StoreEntryStep ==
    ASSUME RingTypes, Claims, LinedUp, NEW blk, Arranged(blk), Explicit!StoreEntry
    PROVE  RingTypes' /\ Claims' /\ LinedUp' /\ Arranged(blk)'
<1> DEFINE new == [base |-> e_tailIndex, block |-> e_tailBlock]
<1>1. /\ e_ppc = "entry" /\ e_ppc' = "front"
      /\ e_headers' = [e_headers EXCEPT ![Len(e_headers)].entries[front + 1] = new]
      /\ UNCHANGED <<e_tailIndex, e_headIndex, slotsUsed, size, front, ring, e_tailBlock, e_cells, emptyFlags, e_pc, e_local>>
  BY DEF Explicit!StoreEntry, Explicit!indices, Explicit!blocks, Explicit!memory
<1>2. e_headers # <<>> /\ e_tailIndex \in Nat /\ e_tailIndex % BLOCK_SIZE = 0
  BY <1>1 DEF RingTypes, ProducerTypes
<1>3. PICK h : h = Len(e_headers)
  OBVIOUS
<1>4. /\ h \in DOMAIN e_headers /\ h \in Nat \ {0} /\ DOMAIN e_headers = 1 .. h /\ Room(h) = size
      /\ size \in Nat \ {0} /\ front \in 0 .. size - 1 /\ Places(h) = 0 .. size - 1
      /\ Entered \in Nat /\ Oldest \in Nat /\ Oldest = Entered - slotsUsed /\ slotsUsed \in 0 .. size
      /\ Window = Oldest .. Entered - 1
      /\ \A p \in Used(h) : Turn(h, p) = (front - Displayed) % size
      /\ \A k \in Oldest .. Recorded - 1 :
           Explicit!EntryAt(h, front - Displayed + k) = [base |-> ElementAt(k, 0), block |-> blk[k]]
      /\ \A pos \in Int : pos % size \in Places(h) /\ Explicit!EntryAt(h, pos) = Slot(h, pos % size)
  BY <1>2, <1>3, IndexIs
<1>5. /\ Entered = Number(e_tailIndex) + 1 /\ Number(e_tailIndex) \in Nat /\ Entered' = Entered
      /\ Displayed = Number(e_tailIndex) /\ Displayed' = Displayed /\ Recorded = Displayed /\ Recorded' = Entered
      /\ e_tailIndex = ElementAt(Number(e_tailIndex), 0)
  <2>1. Entered = Number(e_tailIndex) + 1 /\ Entered' = Number(e_tailIndex)' + 1 /\ Number(e_tailIndex)' = Number(e_tailIndex)
    BY <1>1 DEF Entered, Number
  <2>2. Displayed = Entered - 1 /\ Displayed' = Entered' - 1 /\ Recorded = Entered - 1 /\ Recorded' = Entered'
    BY <1>1 DEF Displayed, Recorded
  <2>3. Number(e_tailIndex) \in Nat /\ e_tailIndex = ElementAt(Number(e_tailIndex), 0)
    BY <1>2, EnteredIs
  <2> QED BY <2>1, <2>2, <2>3
<1>6. PICK t \in Nat : t = Number(e_tailIndex)
  BY <1>5
<1>7. slotsUsed # 0 /\ t \in Window /\ e_tailBlock = blk[t] /\ e_tailBlock \in Blocks
  <2>1. slotsUsed > 0
    BY <1>5, <1>6 DEF RingTypes, ProducerTypes
  <2>2. t \in Window /\ Entered - 1 = t
    <3>1. PICK u \in Nat : u = slotsUsed /\ u > 0
      BY <1>4, <2>1
    <3>2. Entered = t + 1 /\ Oldest = t + 1 - u /\ t + 1 - u \in Nat
      <4>1. Oldest \in Nat /\ Oldest = Entered - slotsUsed
        BY <1>4
      <4>2. Entered = t + 1
        BY <1>5, <1>6
      <4> QED BY <3>1, <4>1, <4>2
    <3>3. t \in t + 1 - u .. t + 1 - 1 /\ t + 1 - 1 = t
      BY <1>6, <3>1
    <3> QED BY <1>4, <3>2, <3>3
  <2> QED BY <2>1, <2>2, BlockIs DEF Arranged
<1>21. /\ size \in Nat \ {0} /\ front \in 0 .. size - 1 /\ slotsUsed \in Nat /\ slotsUsed <= size
      /\ Oldest \in Nat /\ Oldest = t + 1 - slotsUsed /\ Window = Oldest .. t
      /\ Displayed = t /\ Recorded = t /\ Entered = t + 1
  <2>1. size \in Nat \ {0} /\ front \in 0 .. size - 1 /\ slotsUsed \in 0 .. size /\ Oldest \in Nat
        /\ Oldest = Entered - slotsUsed /\ Window = Oldest .. Entered - 1
    BY <1>4
  <2>2. Entered = t + 1 /\ Displayed = t /\ Recorded = t
    BY <1>5, <1>6
  <2>3. slotsUsed \in Nat /\ slotsUsed <= size
    BY <2>1
  <2>4. Entered - 1 = t
    BY <1>6, <2>2
  <2> QED BY <2>1, <2>2, <2>3, <2>4
<1>8. /\ e_headers' \in Seq([front : Int, entries : Seq(Entries)]) /\ DOMAIN e_headers' = 1 .. h /\ Len(e_headers') = h
      /\ e_headers'[h].front = e_headers[h].front /\ \A g \in 1 .. h : g # h => e_headers'[g] = e_headers[g]
      /\ Room(h)' = size /\ \A p \in Places(h) : Slot(h, p)' = IF p = front THEN new ELSE Slot(h, p)
  <2> DEFINE entries2 == [e_headers[h].entries EXCEPT ![front + 1] = new]
  <2>1. e_headers[h].front \in Int /\ e_headers[h].entries \in Seq(Entries) /\ Len(e_headers[h].entries) = size
    BY <1>4, HeaderIs DEF RingTypes, Room
  <2>2. new \in Entries
    BY <1>2, <1>7 DEF Entries
  <2>3. DOMAIN e_headers[h].entries = 1 .. size /\ front + 1 \in 1 .. size
    <3>1. size \in Nat \ {0} /\ front \in 0 .. size - 1
      BY <1>4
    <3>2. front + 1 \in 1 .. size
      BY <3>1
    <3> QED BY <2>1, <3>2, LenProperties
  <2>4. entries2 \in Seq(Entries) /\ Len(entries2) = size
    BY <2>1, <2>2, <2>3, ExceptSeq
  <2>5. \A i \in 1 .. size : entries2[i] = IF i = front + 1 THEN new ELSE e_headers[h].entries[i]
    BY <2>3
  <2>6. e_headers' = [e_headers EXCEPT ![h] = [e_headers[h] EXCEPT !.entries = entries2]]
    BY <1>1, <1>3
  <2> HIDE DEF entries2
  <2>7. e_headers \in Seq([front : Int, entries : Seq(Entries)])
    BY DEF RingTypes, HeaderTypes
  <2>8. e_headers[h] \in [front : Int, entries : Seq(Entries)]
    BY <1>3, <1>4, <2>7, ElementOfSeq
  <2>9. [e_headers[h] EXCEPT !.entries = entries2] \in [front : Int, entries : Seq(Entries)]
    BY <2>4, <2>8
  <2>10. e_headers' \in Seq([front : Int, entries : Seq(Entries)]) /\ Len(e_headers') = h /\ DOMAIN e_headers' = 1 .. h
    BY <1>3, <1>4, <2>6, <2>7, <2>9, ExceptSeq, LenProperties
  <2>11. e_headers'[h] = [e_headers[h] EXCEPT !.entries = entries2] /\ \A g \in 1 .. h : g # h => e_headers'[g] = e_headers[g]
    BY <1>4, <2>6
  <2>12. e_headers'[h].front = e_headers[h].front /\ e_headers'[h].entries = entries2
    BY <2>8, <2>11
  <2>13. Room(h)' = size
    BY <2>4, <2>12 DEF Room
  <2>14. ASSUME NEW p \in Places(h) PROVE Slot(h, p)' = IF p = front THEN new ELSE Slot(h, p)
    <3>1. p + 1 \in 1 .. size /\ (p + 1 = front + 1 <=> p = front)
      <4>1. p \in 0 .. size - 1 /\ size \in Nat /\ front \in Nat
        BY <1>4
      <4> QED BY <4>1
    <3> QED BY <2>5, <2>12, <3>1 DEF Slot
  <2> QED BY <2>10, <2>11, <2>12, <2>13, <2>14
<1> HIDE DEF new
<1>9. new = [base |-> ElementAt(t, 0), block |-> blk[t]] /\ new.block # Null /\ new.base = e_tailIndex
  BY <1>5, <1>6, <1>7, RingConstants DEF new
<1>10. Places(h)' = Places(h) /\ Used(h)' = Used(h) \union {front}
  <2>1. Places(h)' = Places(h)
    BY <1>4, <1>8 DEF Places
  <2>2. front \in Places(h)
    BY <1>4
  <2> QED BY <1>8, <1>9, <2>1, <2>2 DEF Used
<1>11. \A p \in Places(h) : Turn(h, p)' = IF p = front THEN (front - t) % size ELSE Turn(h, p)
  <2> SUFFICES ASSUME NEW p \in Places(h) PROVE Turn(h, p)' = IF p = front THEN (front - t) % size ELSE Turn(h, p)
    OBVIOUS
  <2>1. Turn(h, p)' = (p - Number(Slot(h, p)'.base)) % size
    BY <1>8 DEF Turn, Number
  <2>2. CASE p = front
    BY <1>6, <1>8, <1>9, <2>1, <2>2
  <2>3. CASE p # front
    BY <1>4, <1>8, <2>1, <2>3 DEF Turn
  <2> QED BY <2>2, <2>3
<1>12. \A p \in Used(h)' : Turn(h, p)' = (front - t) % size
  <2>1. \A p \in Used(h)' : p \in Places(h) /\ (p # front => p \in Used(h))
    BY <1>10 DEF Used
  <2> QED BY <1>4, <1>5, <1>6, <1>11, <2>1
<1>13. LinedUp'
  <2> SUFFICES ASSUME NEW g \in 1 .. h
               PROVE  /\ \A p \in Used(g)' : Slot(g, p)'.base % BLOCK_SIZE = 0
                      /\ \A p, q \in Used(g)' : Turn(g, p)' = Turn(g, q)'
    BY <1>8 DEF LinedUp
  <2>1. CASE g = h
    <3>1. ASSUME NEW p \in Used(h)' PROVE Slot(h, p)'.base % BLOCK_SIZE = 0
      <4>1. p \in Places(h) /\ (p # front => p \in Used(h))
        BY <1>10 DEF Used
      <4> QED BY <1>2, <1>4, <1>8, <1>9, <4>1 DEF LinedUp
    <3> QED BY <1>12, <2>1, <3>1
  <2>2. CASE g # h
    <3>1. e_headers'[g] = e_headers[g]
      BY <1>8, <2>2
    <3> QED BY <1>4, <3>1, HeaderFrame DEF LinedUp
  <2> QED BY <2>1, <2>2
<1>22. \A k \in Window : k \in Nat /\ k <= t /\ t < k + size
  <2> SUFFICES ASSUME NEW k \in Window PROVE k \in Nat /\ k <= t /\ t < k + size
    OBVIOUS
  <2>1. PICK o \in Nat : o = Oldest
    BY <1>21
  <2>2. PICK u \in Nat : u = slotsUsed
    BY <1>21
  <2>3. k \in o .. t /\ o = t + 1 - u /\ u <= size
    BY <1>21, <2>1, <2>2
  <2>4. size \in Nat
    BY <1>21
  <2> QED BY <1>6, <2>1, <2>2, <2>3, <2>4
<1>14. \A k \in Window : k # t => (front - t + k) % size # front
  <2> SUFFICES ASSUME NEW k \in Window, k # t, (front - t + k) % size = front PROVE FALSE
    OBVIOUS
  <2>1. k \in Nat /\ k < t /\ t < k + size
    BY <1>6, <1>22
  <2>2. front - t + k \in Int /\ front \in Int /\ front - t + k <= front /\ front < front - t + k + size /\ front % size = front
    <3>1. front % size = front
      BY <1>21, Wrap
    <3>2. front \in Nat /\ size \in Nat
      BY <1>21
    <3> QED BY <1>6, <2>1, <3>1, <3>2
  <2>3. front - t + k = front
    BY <1>21, <2>2, SameRemainder
  <2>4. front \in Nat
    BY <1>21
  <2> QED BY <1>6, <2>1, <2>3, <2>4
<1>15. Displays(blk)'
  <2>1. ASSUME NEW k \in Window
        PROVE  Explicit!EntryAt(h, front - t + k)' = [base |-> ElementAt(k, 0), block |-> blk[k]]
    <3>1. k \in Int /\ front - t + k \in Int
      BY <1>4
    <3>2. PICK p \in Places(h) : p = (front - t + k) % size
      BY <1>4, <3>1
    <3>3. Explicit!EntryAt(h, front - t + k)' = Slot(h, p)'
      BY <1>1, <1>8, <3>2 DEF Explicit!EntryAt, Slot, Room
    <3>4. CASE k = t
      <4>1. front - t + k = front /\ front % size = front
        <5>1. front % size = front
          BY <1>21, Wrap
        <5> QED BY <1>6, <1>21, <3>4, <5>1
      <4> QED BY <1>8, <1>9, <3>2, <3>3, <3>4, <4>1
    <3>5. CASE k # t
      <4>1. p # front
        BY <1>14, <3>2, <3>5
      <4>2. k \in Oldest .. Recorded - 1
        BY <1>6, <1>21, <3>5
      <4>3. Explicit!EntryAt(h, front - t + k) = Slot(h, p)
        BY <1>4, <3>1, <3>2
      <4> QED BY <1>4, <1>5, <1>6, <1>8, <3>3, <4>1, <4>2, <4>3
    <3> QED BY <3>4, <3>5
  <2>2. Displayed' > 0 => e_headers'[h].front \in Used(h)'
    BY <1>2, <1>3, <1>5, <1>8, <1>10 DEF Arranged, Displays
  <2>3. Oldest' = Oldest /\ Oldest' .. Recorded' - 1 = Window
    <3>1. Oldest' = Oldest
      BY <1>1, <1>5 DEF Oldest
    <3> QED BY <1>4, <1>5, <3>1
  <2>4. \A p \in Used(h)' : Turn(h, p)' = (front - Displayed)' % size'
    BY <1>1, <1>5, <1>6, <1>12
  <2>5. \A k \in Oldest' .. Recorded' - 1 : Explicit!EntryAt(h, front - Displayed + k)' = [base |-> ElementAt(k, 0), block |-> blk[k]]
    <3>1. \A k : Explicit!EntryAt(h, front - Displayed + k)' = Explicit!EntryAt(h, front - t + k)'
      BY <1>5, <1>6 DEF Explicit!EntryAt
    <3> QED BY <2>1, <2>3, <3>1
  <2> QED BY <1>8, <2>2, <2>4, <2>5 DEF Displays, ElementAt
<1>16. \A k \in Window : (\E p \in Places(h) : Slot(h, p) = [base |-> ElementAt(k, 0), block |-> blk[k]])
                           => (\E p \in Places(h) : Slot(h, p)' = [base |-> ElementAt(k, 0), block |-> blk[k]])
  <2> SUFFICES ASSUME NEW k \in Window, NEW p \in Places(h), Slot(h, p) = [base |-> ElementAt(k, 0), block |-> blk[k]]
               PROVE  \E q \in Places(h) : Slot(h, q)' = [base |-> ElementAt(k, 0), block |-> blk[k]]
    OBVIOUS
  <2>1. CASE p # front
    BY <1>8, <2>1
  <2>2. CASE p = front
    <3>1. k \in Nat /\ blk[k] \in Blocks
      BY BlockIs DEF Arranged
    <3>2. front \in Used(h) /\ Number(Slot(h, front).base) = k
      <4>1. Number(ElementAt(k, 0)) = k
        BY <3>1, RingConstants, NumberOfElement
      <4>2. Slot(h, p).base = ElementAt(k, 0) /\ Slot(h, p).block = blk[k]
        OBVIOUS
      <4> QED BY <2>2, <3>1, <4>1, <4>2, RingConstants DEF Used
    <3>3. (front - k) % size = (front - t) % size
      BY <1>4, <1>5, <1>6, <3>2 DEF Turn
    <3>4. k <= t /\ t < k + size
      BY <1>22
    <3>5. front - t \in Int /\ front - k \in Int /\ front - t <= front - k /\ front - k < front - t + size
      <4>1. front \in Nat /\ size \in Nat
        BY <1>21
      <4> QED BY <1>6, <3>1, <3>4, <4>1
    <3>6. front - t = front - k
      BY <1>21, <3>3, <3>5, SameRemainder
    <3>7. k = t
      BY <1>6, <1>21, <3>1, <3>6
    <3> QED BY <1>8, <1>9, <2>2, <3>7
  <2> QED BY <2>1, <2>2
<1>17. HeaderTypes'
  <2>1. ASSUME NEW g \in 1 .. h PROVE Room(g)' \in Nat \ {0}
    <3>1. CASE g = h
      BY <1>4, <1>8, <3>1
    <3>2. CASE g # h
      <4>1. e_headers'[g] = e_headers[g]
        BY <1>8, <3>2
      <4> QED BY <1>4, <4>1, HeaderFrame DEF RingTypes, HeaderTypes
    <3> QED BY <3>1, <3>2
  <2> QED BY <1>1, <1>8, <2>1 DEF HeaderTypes, Entries
<1>18. ProducerTypes'
  <2>1. Oldest' = Oldest
    BY <1>1, <1>5 DEF Oldest
  <2>2. e_headers' # <<>>
    BY <1>4, <1>8, EmptySeq
  <2> QED BY <1>1, <1>2, <1>5, <2>1, <2>2 DEF RingTypes, ProducerTypes
<1>19. \A g \in DOMAIN e_headers : /\ g \in DOMAIN e_headers' /\ Places(g)' = Places(g) /\ Used(g) \subseteq Used(g)'
                                 /\ (e_headers[g].front \in Used(g) => e_headers'[g].front \in Used(g)')
  <2> SUFFICES ASSUME NEW g \in 1 .. h
               PROVE  /\ g \in DOMAIN e_headers' /\ Places(g)' = Places(g) /\ Used(g) \subseteq Used(g)'
                      /\ (e_headers[g].front \in Used(g) => e_headers'[g].front \in Used(g)')
    BY <1>4
  <2>1. CASE g = h
    BY <1>8, <1>10, <2>1
  <2>2. CASE g # h
    <3>1. e_headers'[g] = e_headers[g]
      BY <1>8, <2>2
    <3> QED BY <1>8, <3>1, HeaderFrame
  <2> QED BY <2>1, <2>2
<1>20. \A g \in DOMAIN e_headers, k \in Window :
         (\E p \in Places(g) : Slot(g, p) = [base |-> ElementAt(k, 0), block |-> blk[k]])
           => (\E p \in Places(g) : Slot(g, p)' = [base |-> ElementAt(k, 0), block |-> blk[k]])
  <2> SUFFICES ASSUME NEW g \in 1 .. h, NEW k \in Window, NEW p \in Places(g), Slot(g, p) = [base |-> ElementAt(k, 0), block |-> blk[k]]
               PROVE  \E q \in Places(g) : Slot(g, q)' = [base |-> ElementAt(k, 0), block |-> blk[k]]
    BY <1>4
  <2>1. CASE g = h
    BY <1>16, <2>1
  <2>2. CASE g # h
    <3>1. e_headers'[g] = e_headers[g]
      BY <1>8, <2>2
    <3> QED BY <3>1, HeaderFrame
  <2> QED BY <2>1, <2>2
<1> QED BY <1>1, <1>5, <1>13, <1>15, <1>17, <1>18, <1>19, <1>20, IndexStep

\* The front of the index moves to the entry just stored.
LEMMA StoreFrontStep ==
    ASSUME RingTypes, Claims, LinedUp, NEW blk, Arranged(blk), Explicit!StoreFront
    PROVE  RingTypes' /\ Claims' /\ LinedUp' /\ Arranged(blk)'
<1>1. /\ e_ppc = "front" /\ e_ppc' = "construct"
      /\ e_headers' = [e_headers EXCEPT ![Len(e_headers)].front = front] /\ front' = (front + 1) % size
      /\ UNCHANGED <<e_tailIndex, e_headIndex, slotsUsed, size, ring, e_tailBlock, e_cells, emptyFlags, e_pc, e_local>>
  BY DEF Explicit!StoreFront, Explicit!indices, Explicit!blocks, Explicit!memory
<1>2. e_headers # <<>> /\ e_tailIndex \in Nat /\ e_headers \in Seq([front : Int, entries : Seq(Entries)])
  BY <1>1 DEF RingTypes, ProducerTypes, HeaderTypes
<1>3. PICK h : h = Len(e_headers)
  OBVIOUS
<1>4. /\ h \in DOMAIN e_headers /\ h \in Nat \ {0} /\ DOMAIN e_headers = 1 .. h /\ Room(h) = size
      /\ Places(h) = 0 .. size - 1
      /\ \A p \in Used(h) : Turn(h, p) = (front - Displayed) % size
      /\ \A k \in Oldest .. Recorded - 1 :
           Explicit!EntryAt(h, front - Displayed + k) = [base |-> ElementAt(k, 0), block |-> blk[k]]
      /\ \A pos \in Int : pos % size \in Places(h) /\ Explicit!EntryAt(h, pos) = Slot(h, pos % size)
  BY <1>2, <1>3, IndexIs
<1>5. /\ size \in Nat \ {0} /\ front \in 0 .. size - 1 /\ front \in Nat /\ Entered \in Nat /\ Oldest \in Nat
      /\ Oldest = Entered - slotsUsed /\ slotsUsed \in 0 .. size /\ Window = Oldest .. Entered - 1
  <2>1. /\ size \in Nat \ {0} /\ front \in 0 .. size - 1 /\ Entered \in Nat /\ Oldest \in Nat
        /\ Oldest = Entered - slotsUsed /\ slotsUsed \in 0 .. size /\ Window = Oldest .. Entered - 1
    BY <1>2, <1>3, IndexIs
  <2> QED BY <2>1
<1>6. PICK t \in Nat : t = Number(e_tailIndex)
  BY <1>2, EnteredIs
<1>7. /\ Entered = t + 1 /\ Entered' = Entered /\ Displayed = t /\ Displayed' = t + 1 /\ Recorded = t + 1 /\ Recorded' = t + 1
  <2>1. Entered = t + 1 /\ Entered' = Number(e_tailIndex)' + 1 /\ Number(e_tailIndex)' = t
    BY <1>1, <1>6 DEF Entered, Number
  <2>2. Displayed = Entered - 1 /\ Displayed' = Entered' /\ Recorded = Entered /\ Recorded' = Entered'
    BY <1>1 DEF Displayed, Recorded
  <2> QED BY <1>6, <2>1, <2>2
<1>8. t \in Window /\ blk[t] \in Blocks /\ Oldest .. Recorded - 1 = Window
  <2>1. slotsUsed > 0 /\ slotsUsed \in Nat
    BY <1>5, <1>6, <1>7 DEF RingTypes, ProducerTypes
  <2>2. Entered - 1 = t /\ Recorded - 1 = t /\ Oldest <= t
    <3>1. Entered - 1 = t /\ Recorded - 1 = t
      BY <1>6, <1>7
    <3>2. Oldest = t + 1 - slotsUsed
      BY <1>5, <1>7
    <3> QED BY <1>6, <2>1, <3>1, <3>2
  <2>3. t \in Window /\ Oldest .. Recorded - 1 = Window
    BY <1>5, <1>6, <2>2
  <2> QED BY <2>3, BlockIs DEF Arranged
<1>9. /\ e_headers' \in Seq([front : Int, entries : Seq(Entries)]) /\ DOMAIN e_headers' = 1 .. h /\ Len(e_headers') = h
      /\ e_headers'[h].front = front
      /\ \A g \in 1 .. h : e_headers'[g].entries = e_headers[g].entries /\ (g # h => e_headers'[g] = e_headers[g])
  <2>1. e_headers' = [e_headers EXCEPT ![h] = [e_headers[h] EXCEPT !.front = front]]
    BY <1>1, <1>3
  <2>2. e_headers[h] \in [front : Int, entries : Seq(Entries)]
    BY <1>2, <1>3, <1>4, ElementOfSeq
  <2>3. [e_headers[h] EXCEPT !.front = front] \in [front : Int, entries : Seq(Entries)]
    BY <1>5, <2>2
  <2>4. e_headers' \in Seq([front : Int, entries : Seq(Entries)]) /\ Len(e_headers') = h /\ DOMAIN e_headers' = 1 .. h
    BY <1>2, <1>3, <1>4, <2>1, <2>3, ExceptSeq, LenProperties
  <2>5. e_headers'[h] = [e_headers[h] EXCEPT !.front = front] /\ \A g \in 1 .. h : g # h => e_headers'[g] = e_headers[g]
    BY <1>4, <2>1
  <2> QED BY <2>2, <2>4, <2>5
<1>10. /\ \A g \in 1 .. h : Room(g)' = Room(g) /\ Places(g)' = Places(g) /\ Used(g)' = Used(g)
       /\ \A g \in 1 .. h : \A p : Slot(g, p)' = Slot(g, p) /\ Turn(g, p)' = Turn(g, p) /\ Explicit!EntryAt(g, p)' = Explicit!EntryAt(g, p)
  <2>1. \A g \in 1 .. h : Room(g)' = Room(g) /\ Places(g)' = Places(g)
    BY <1>9 DEF Room, Places
  <2>2. \A g \in 1 .. h : \A p : Slot(g, p)' = Slot(g, p) /\ Explicit!EntryAt(g, p)' = Explicit!EntryAt(g, p)
    BY <1>9 DEF Slot, Explicit!EntryAt
  <2>3. \A g \in 1 .. h : \A p : Turn(g, p)' = Turn(g, p)
    BY <2>1, <2>2 DEF Turn
  <2> QED BY <2>1, <2>2, <2>3 DEF Used
<1>11. front \in Used(h)
  <2>1. Explicit!EntryAt(h, front - t + t) = [base |-> ElementAt(t, 0), block |-> blk[t]]
    BY <1>4, <1>7, <1>8
  <2>2. front - t + t = front /\ front % size = front /\ front \in Int
    <3>1. front % size = front
      BY <1>5, Wrap
    <3> QED BY <1>5, <1>6, <3>1
  <2>3. Slot(h, front).block = blk[t] /\ front \in Places(h)
    BY <1>4, <2>1, <2>2
  <2> QED BY <1>8, <2>3, RingConstants DEF Used
<1>12. \A k \in Int : (front' - (t + 1) + k) % size = (front - t + k) % size
  <2> SUFFICES ASSUME NEW k \in Int PROVE (front' - (t + 1) + k) % size = (front - t + k) % size
    OBVIOUS
  <2>1. k - (t + 1) \in Int /\ front + 1 \in Int
    BY <1>5, <1>6
  <2>2. (((front + 1) % size) + (k - (t + 1))) % size = ((front + 1) + (k - (t + 1))) % size
    BY <1>5, <2>1, ModSum
  <2>3. (front + 1) + (k - (t + 1)) = front - t + k
    BY <1>5, <1>6
  <2>4. front' \in Int
    BY <1>1, <1>5, <2>1, DivMod
  <2>5. front' + (k - (t + 1)) = front' - (t + 1) + k
    BY <1>6, <2>4
  <2> QED BY <1>1, <2>2, <2>3, <2>5
<1>13. front' \in 0 .. size - 1
  <2>1. front + 1 \in Int
    BY <1>5
  <2> QED BY <1>1, <1>5, <2>1, DivMod
<1>14. LinedUp'
  <2>1. DOMAIN e_headers' = DOMAIN e_headers /\ DOMAIN e_headers = 1 .. h
    BY <1>4, <1>9
  <2>2. ASSUME NEW g \in 1 .. h
        PROVE  /\ \A p \in Used(g)' : Slot(g, p)'.base % BLOCK_SIZE = 0
               /\ \A p, q \in Used(g)' : Turn(g, p)' = Turn(g, q)'
    BY <1>10, <2>1 DEF LinedUp
  <2> QED BY <2>1, <2>2 DEF LinedUp
<1>15. Oldest' = Oldest
  BY <1>1, <1>7 DEF Oldest
<1>16. Displays(blk)'
  <2>1. \A p \in Used(h)' : Turn(h, p)' = (front - Displayed)' % size'
    <3>1. (front' - (t + 1) + 0) % size = (front - t + 0) % size
      BY <1>12
    <3>2. front' - (t + 1) + 0 = front' - (t + 1) /\ front - t + 0 = front - t
      BY <1>5, <1>6, <1>13
    <3> QED BY <1>1, <1>4, <1>7, <1>10, <3>1, <3>2
  <2>2. ASSUME NEW k \in Window
        PROVE  Explicit!EntryAt(h, front' - (t + 1) + k) = [base |-> ElementAt(k, 0), block |-> blk[k]]
    <3>1. k \in Int
      BY <1>5
    <3>2. front' - (t + 1) + k \in Int /\ front - t + k \in Int
      BY <1>5, <1>6, <1>13, <3>1
    <3>3. Explicit!EntryAt(h, front' - (t + 1) + k) = Explicit!EntryAt(h, front - t + k)
      BY <1>4, <1>12, <3>1, <3>2
    <3> QED BY <1>4, <1>7, <1>8, <3>3
  <2>3. \A k : Explicit!EntryAt(h, front - Displayed + k)' = Explicit!EntryAt(h, front' - (t + 1) + k)
    BY <1>4, <1>7, <1>9 DEF Explicit!EntryAt
  <2>4. \A k \in Oldest' .. Recorded' - 1 : Explicit!EntryAt(h, front - Displayed + k)' = [base |-> ElementAt(k, 0), block |-> blk[k]]
    BY <1>7, <1>8, <1>15, <2>2, <2>3
  <2>5. e_headers'[h].front \in Used(h)'
    BY <1>4, <1>9, <1>10, <1>11
  <2> QED BY <1>9, <2>1, <2>4, <2>5 DEF Displays, ElementAt
<1>17. HeaderTypes'
  BY <1>1, <1>4, <1>9, <1>10 DEF RingTypes, HeaderTypes, Entries
<1>18. ProducerTypes'
  <2>1. e_headers' # <<>>
    BY <1>4, <1>9, EmptySeq
  <2> QED BY <1>1, <1>2, <1>7, <1>13, <1>15, <2>1 DEF RingTypes, ProducerTypes
<1>19. \A g \in DOMAIN e_headers : /\ g \in DOMAIN e_headers' /\ Places(g)' = Places(g) /\ Used(g) \subseteq Used(g)'
                                 /\ (e_headers[g].front \in Used(g) => e_headers'[g].front \in Used(g)')
  BY <1>4, <1>9, <1>10, <1>11
<1>20. \A g \in DOMAIN e_headers, k \in Window :
         (\E p \in Places(g) : Slot(g, p) = [base |-> ElementAt(k, 0), block |-> blk[k]])
           => (\E p \in Places(g) : Slot(g, p)' = [base |-> ElementAt(k, 0), block |-> blk[k]])
  BY <1>4, <1>10
<1> QED BY <1>1, <1>7, <1>14, <1>16, <1>17, <1>18, <1>19, <1>20, IndexStep

\* A larger index has the blocks of the ring, the oldest first.
LEMMA GrowStep ==
    ASSUME RingTypes, Claims, LinedUp, NEW blk, Arranged(blk), Explicit!new_block_index
    PROVE  RingTypes' /\ Claims' /\ LinedUp' /\ Arranged(blk)'
<1>1. /\ e_ppc = "grow" /\ e_ppc' = "requisition"
      /\ e_headers' = Append(e_headers, Explicit!Header(slotsUsed - 1, Explicit!Copied, 2 * size))
      /\ size' = 2 * size /\ front' = slotsUsed
      /\ UNCHANGED <<e_tailIndex, e_headIndex, slotsUsed, ring, e_tailBlock, e_cells, emptyFlags, e_pc, e_local>>
  BY DEF Explicit!new_block_index, Explicit!indices, Explicit!blocks, Explicit!memory
<1>2. /\ e_headers \in Seq([front : Int, entries : Seq(Entries)]) /\ e_tailIndex \in Nat
      /\ size \in Nat \ {0} /\ slotsUsed \in Nat /\ slotsUsed <= size /\ front \in 0 .. size - 1
      /\ e_tailIndex % BLOCK_SIZE = 0 /\ Oldest >= 0 /\ (e_headers = <<>> => slotsUsed = 0)
  BY <1>1 DEF RingTypes, ProducerTypes, HeaderTypes
<1>3. /\ Entered \in Nat /\ Displayed = Entered /\ Recorded = Entered
      /\ Entered' = Entered /\ Displayed' = Entered /\ Recorded' = Entered
  <2>1. Entered \in Nat
    BY <1>2, EnteredIs
  <2>2. Entered' = Entered
    BY <1>1 DEF Entered, Number
  <2> QED BY <1>1, <2>1, <2>2 DEF Displayed, Recorded
<1>4. /\ Oldest \in Nat /\ Oldest = Entered - slotsUsed /\ Entered = Oldest + slotsUsed /\ Oldest' = Oldest
      /\ Window = Oldest .. Entered - 1
  <2>1. Oldest = Entered - slotsUsed /\ Oldest' = Oldest
    BY <1>1, <1>3 DEF Oldest
  <2> QED BY <1>2, <1>3, <2>1 DEF Window
<1>5. \A p \in 0 .. slotsUsed - 1 : Oldest + p \in Window /\ Oldest + p \in Nat
  BY <1>2, <1>4
<1>6. PICK L : L = Len(e_headers)
  OBVIOUS
<1>7. L \in Nat /\ DOMAIN e_headers = 1 .. L
  BY <1>2, <1>6, LenProperties
<1>8. ASSUME NEW p \in 0 .. slotsUsed - 1
      PROVE  /\ Explicit!EntryAt(L, front - slotsUsed + p) = [base |-> ElementAt(Oldest + p, 0), block |-> blk[Oldest + p]]
             /\ ElementAt(Oldest + p, 0) \in Nat /\ blk[Oldest + p] \in Blocks
  <2>1. e_headers # <<>>
    BY <1>2
  <2>2. Oldest + p \in Oldest .. Recorded - 1
    BY <1>3, <1>4, <1>5
  <2>3. Explicit!EntryAt(L, front - Displayed + (Oldest + p)) = [base |-> ElementAt(Oldest + p, 0), block |-> blk[Oldest + p]]
    BY <1>6, <2>1, <2>2, IndexIs
  <2>4. front - Displayed + (Oldest + p) = front - slotsUsed + p
    <3>1. p \in Int /\ front \in Int
      BY <1>2
    <3> QED BY <1>2, <1>3, <1>4, <3>1
  <2>5. ElementAt(Oldest + p, 0) \in Nat
    <3>1. PICK k \in Nat : k = Oldest + p
      BY <1>5
    <3>2. ElementAt(k, 0) \in Nat
      BY FirstOfNumber
    <3> QED BY <3>1, <3>2
  <2>6. blk[Oldest + p] \in Blocks
    BY <1>5, BlockIs DEF Arranged
  <2> QED BY <2>3, <2>4, <2>5, <2>6
<1>9. /\ Explicit!Copied \in Seq(Entries) /\ Len(Explicit!Copied) = slotsUsed
      /\ \A p \in 0 .. slotsUsed - 1 : Explicit!Copied[p + 1] = [base |-> ElementAt(Oldest + p, 0), block |-> blk[Oldest + p]]
  <2>1. Explicit!Copied = [i \in 1 .. slotsUsed |-> Explicit!EntryAt(L, front - slotsUsed + i - 1)]
    BY <1>6 DEF Explicit!Copied
  <2>2. ASSUME NEW i \in 1 .. slotsUsed
        PROVE  /\ Explicit!EntryAt(L, front - slotsUsed + i - 1) = Explicit!EntryAt(L, front - slotsUsed + (i - 1))
               /\ i - 1 \in 0 .. slotsUsed - 1 /\ i - 1 + 1 = i
    <3>1. front - slotsUsed + i - 1 = front - slotsUsed + (i - 1) /\ i - 1 \in 0 .. slotsUsed - 1 /\ i - 1 + 1 = i
      <4>1. i \in Nat /\ front \in Int
        BY <1>2
      <4> QED BY <1>2, <2>2, <4>1
    <3> QED BY <3>1
  <2>3. \A i \in 1 .. slotsUsed : Explicit!Copied[i] \in Entries
    <3> SUFFICES ASSUME NEW i \in 1 .. slotsUsed PROVE Explicit!Copied[i] \in Entries
      OBVIOUS
    <3>1. PICK p \in 0 .. slotsUsed - 1 : p = i - 1
      BY <2>2
    <3>2. Explicit!Copied[i] = Explicit!EntryAt(L, front - slotsUsed + p)
      BY <2>1, <2>2, <3>1
    <3>3. /\ Explicit!EntryAt(L, front - slotsUsed + p) = [base |-> ElementAt(Oldest + p, 0), block |-> blk[Oldest + p]]
          /\ ElementAt(Oldest + p, 0) \in Nat /\ blk[Oldest + p] \in Blocks
      BY <1>8
    <3> QED BY <3>2, <3>3 DEF Entries
  <2>4. Explicit!Copied \in [1 .. slotsUsed -> Entries]
    BY <2>1, <2>3
  <2>5. Explicit!Copied \in Seq(Entries) /\ Len(Explicit!Copied) = slotsUsed
    <3>1. PICK u \in Nat : u = slotsUsed
      BY <1>2
    <3>2. Explicit!Copied \in [1 .. u -> Entries]
      BY <2>4, <3>1
    <3>3. Explicit!Copied \in Seq(Entries) /\ Len(Explicit!Copied) = u
      BY <3>1, <3>2
    <3> QED BY <3>1, <3>3
  <2>6. ASSUME NEW p \in 0 .. slotsUsed - 1
        PROVE  Explicit!Copied[p + 1] = [base |-> ElementAt(Oldest + p, 0), block |-> blk[Oldest + p]]
    <3>1. p + 1 \in 1 .. slotsUsed /\ p + 1 - 1 = p
      BY <1>2
    <3>2. Explicit!Copied[p + 1] = Explicit!EntryAt(L, front - slotsUsed + p)
      BY <2>1, <2>2, <3>1
    <3> QED BY <1>8, <3>2
  <2> QED BY <2>5, <2>6
<1>10. PICK n \in Nat \ {0} : n = 2 * size /\ n > size
  BY <1>2
<1>11. PICK new : new = Explicit!Header(slotsUsed - 1, Explicit!Copied, n)
  OBVIOUS
<1>12. /\ new \in [front : Int, entries : Seq(Entries)] /\ Len(new.entries) = n /\ new.front = slotsUsed - 1
       /\ \A i \in 1 .. n : new.entries[i] = IF i <= slotsUsed THEN Explicit!Copied[i] ELSE Explicit!NoEntry
  <2>1. slotsUsed - 1 \in Int /\ slotsUsed <= n
    BY <1>2, <1>10
  <2> QED BY <1>9, <1>10, <1>11, <2>1, HeaderOf
<1>13. PICK h \in Nat \ {0} : h = L + 1
  BY <1>7
<1>14. /\ e_headers' \in Seq([front : Int, entries : Seq(Entries)]) /\ DOMAIN e_headers' = 1 .. h /\ Len(e_headers') = h
       /\ e_headers'[h] = new /\ \A g \in DOMAIN e_headers : e_headers'[g] = e_headers[g] /\ g # h /\ g \in 1 .. h
       /\ \A g \in 1 .. h : g # h => g \in DOMAIN e_headers
  <2>1. e_headers' = Append(e_headers, new)
    BY <1>1, <1>10, <1>11
  <2>2. /\ e_headers' \in Seq([front : Int, entries : Seq(Entries)]) /\ Len(e_headers') = h /\ DOMAIN e_headers' = 1 .. h
        /\ e_headers'[h] = new /\ \A g \in 1 .. L : e_headers'[g] = e_headers[g]
    BY <1>2, <1>6, <1>12, <1>13, <2>1, AppendProperties, LenProperties
  <2>3. (\A g \in 1 .. L : g # h /\ g \in 1 .. h) /\ \A g \in 1 .. h : g # h => g \in 1 .. L
    BY <1>7, <1>13
  <2> QED BY <1>7, <2>2, <2>3
<1>15. /\ Room(h)' = n /\ Places(h)' = 0 .. n - 1
       /\ \A p \in 0 .. n - 1 : Slot(h, p)' = IF p < slotsUsed THEN [base |-> ElementAt(Oldest + p, 0), block |-> blk[Oldest + p]]
                                                               ELSE Explicit!NoEntry
  <2>1. Room(h)' = n
    BY <1>12, <1>14 DEF Room
  <2>2. Places(h)' = 0 .. n - 1
    BY <2>1 DEF Places
  <2>3. ASSUME NEW p \in 0 .. n - 1
        PROVE  Slot(h, p)' = IF p < slotsUsed THEN [base |-> ElementAt(Oldest + p, 0), block |-> blk[Oldest + p]] ELSE Explicit!NoEntry
    <3>1. p + 1 \in 1 .. n /\ (p + 1 <= slotsUsed <=> p < slotsUsed) /\ (p < slotsUsed => p \in 0 .. slotsUsed - 1)
      BY <1>2, <1>10
    <3>2. Slot(h, p)' = new.entries[p + 1]
      BY <1>14 DEF Slot
    <3> QED BY <1>9, <1>12, <3>1, <3>2
  <2> QED BY <2>1, <2>2, <2>3
<1>16. Used(h)' = 0 .. slotsUsed - 1 /\ \A p \in 0 .. slotsUsed - 1 : p \in 0 .. n - 1 /\ p < slotsUsed
  <2>1. \A p \in 0 .. slotsUsed - 1 : p \in 0 .. n - 1 /\ p < slotsUsed
    BY <1>2, <1>10
  <2>2. \A p \in 0 .. n - 1 : p < slotsUsed => p \in 0 .. slotsUsed - 1
    BY <1>2, <1>10
  <2>3. ASSUME NEW p \in 0 .. n - 1 PROVE Slot(h, p)'.block # Null <=> p < slotsUsed
    <3>1. p < slotsUsed => Slot(h, p)'.block = blk[Oldest + p] /\ blk[Oldest + p] \in Blocks
      BY <1>8, <1>15, <2>2
    <3>2. ~(p < slotsUsed) => Slot(h, p)'.block = Null
      BY <1>15 DEF Explicit!NoEntry
    <3> QED BY <3>1, <3>2, RingConstants
  <2>4. Used(h)' = {p \in 0 .. n - 1 : Slot(h, p)'.block # Null}
    BY <1>15 DEF Used
  <2> QED BY <2>1, <2>2, <2>3, <2>4
<1>17. \A p \in 0 .. slotsUsed - 1 : Turn(h, p)' = (slotsUsed - Entered) % n /\ Slot(h, p)'.base % BLOCK_SIZE = 0
  <2> SUFFICES ASSUME NEW p \in 0 .. slotsUsed - 1
               PROVE  Turn(h, p)' = (slotsUsed - Entered) % n /\ Slot(h, p)'.base % BLOCK_SIZE = 0
    OBVIOUS
  <2>1. Slot(h, p)'.base = ElementAt(Oldest + p, 0)
    BY <1>15, <1>16
  <2>2. Number(ElementAt(Oldest + p, 0)) = Oldest + p /\ ElementAt(Oldest + p, 0) % BLOCK_SIZE = 0
    <3>1. PICK k \in Nat : k = Oldest + p
      BY <1>5
    <3>2. Number(ElementAt(k, 0)) = k /\ ElementAt(k, 0) % BLOCK_SIZE = 0
      BY FirstOfNumber
    <3> QED BY <3>1, <3>2
  <2>3. p - (Oldest + p) = slotsUsed - Entered
    <3>1. p \in Int
      OBVIOUS
    <3> QED BY <1>2, <1>4, <3>1
  <2>4. Turn(h, p)' = (p - Number(Slot(h, p)'.base)) % n
    BY <1>15 DEF Turn, Number
  <2> QED BY <2>1, <2>2, <2>3, <2>4
<1>18. \A g \in DOMAIN e_headers :
         /\ Room(g)' = Room(g) /\ Places(g)' = Places(g) /\ Used(g)' = Used(g)
         /\ \A p : Slot(g, p)' = Slot(g, p) /\ Turn(g, p)' = Turn(g, p)
  BY <1>14, HeaderFrame
<1>19. LinedUp'
  <2> SUFFICES ASSUME NEW g \in 1 .. h
               PROVE  /\ \A p \in Used(g)' : Slot(g, p)'.base % BLOCK_SIZE = 0
                      /\ \A p, q \in Used(g)' : Turn(g, p)' = Turn(g, q)'
    BY <1>14 DEF LinedUp
  <2>1. CASE g = h
    BY <1>16, <1>17, <2>1
  <2>2. CASE g # h
    <3>1. g \in DOMAIN e_headers
      BY <1>14, <2>2
    <3> QED BY <1>18, <3>1 DEF LinedUp
  <2> QED BY <2>1, <2>2
<1>20. Displays(blk)'
  <2>1. \A p \in Used(h)' : Turn(h, p)' = (front - Displayed)' % size'
    BY <1>1, <1>3, <1>10, <1>16, <1>17
  <2>2. ASSUME NEW k \in Window
        PROVE  Explicit!EntryAt(h, slotsUsed - Entered + k)' = [base |-> ElementAt(k, 0), block |-> blk[k]]
    <3>1. PICK p \in 0 .. slotsUsed - 1 : p = slotsUsed - Entered + k /\ k = Oldest + p
      <4>1. k \in Int /\ k - Oldest \in 0 .. slotsUsed - 1 /\ slotsUsed - Entered + k = k - Oldest /\ k = Oldest + (k - Oldest)
        BY <1>2, <1>4
      <4> QED BY <4>1
    <3>2. p % n = p /\ p \in 0 .. n - 1 /\ p < slotsUsed
      BY <1>10, <1>16, Wrap
    <3>3. Explicit!EntryAt(h, slotsUsed - Entered + k)' = e_headers'[h].entries[(p % n) + 1]
      BY <1>1, <1>3, <1>12, <1>14, <3>1 DEF Explicit!EntryAt
    <3>4. Explicit!EntryAt(h, slotsUsed - Entered + k)' = Slot(h, p)'
      BY <3>2, <3>3 DEF Slot
    <3> QED BY <1>15, <3>1, <3>2, <3>4
  <2>3. \A k : Explicit!EntryAt(h, front - Displayed + k)' = Explicit!EntryAt(h, slotsUsed - Entered + k)'
    BY <1>1, <1>3 DEF Explicit!EntryAt
  <2>4. Oldest' .. Recorded' - 1 = Window
    BY <1>3, <1>4
  <2>5. \A k \in Oldest' .. Recorded' - 1 : Explicit!EntryAt(h, front - Displayed + k)' = [base |-> ElementAt(k, 0), block |-> blk[k]]
    BY <2>2, <2>3, <2>4
  <2>6. Displayed' > 0 => e_headers'[h].front \in Used(h)'
    <3>1. Entered > 0 => slotsUsed > 0
      BY DEF RingTypes, ProducerTypes
    <3>2. slotsUsed > 0 => slotsUsed - 1 \in 0 .. slotsUsed - 1
      BY <1>2
    <3> QED BY <1>3, <1>12, <1>14, <1>16, <3>1, <3>2
  <2> QED BY <1>14, <2>1, <2>5, <2>6 DEF Displays, ElementAt
<1>21. HeaderTypes'
  <2>1. ASSUME NEW g \in 1 .. h PROVE Room(g)' \in Nat \ {0}
    <3>1. CASE g = h
      BY <1>10, <1>15, <3>1
    <3>2. CASE g # h
      <4>1. g \in DOMAIN e_headers
        BY <1>14, <3>2
      <4> QED BY <1>18, <4>1 DEF RingTypes, HeaderTypes
    <3> QED BY <3>1, <3>2
  <2> QED BY <1>1, <1>10, <1>14, <1>15, <2>1 DEF HeaderTypes, Entries
<1>22. ProducerTypes'
  <2>1. size' \in Nat \ {0} /\ slotsUsed \in 0 .. size' /\ slotsUsed \in 0 .. size' - 1 /\ slotsUsed < size'
    BY <1>1, <1>2, <1>10
  <2>2. e_headers' # <<>>
    BY <1>13, <1>14, EmptySeq
  <2> QED BY <1>1, <1>2, <1>3, <1>4, <2>1, <2>2 DEF RingTypes, ProducerTypes
<1>23. \A g \in DOMAIN e_headers : /\ g \in DOMAIN e_headers' /\ Places(g)' = Places(g) /\ Used(g) \subseteq Used(g)'
                                 /\ (e_headers[g].front \in Used(g) => e_headers'[g].front \in Used(g)')
  BY <1>14, <1>18
<1>24. \A g \in DOMAIN e_headers, k \in Window :
         (\E p \in Places(g) : Slot(g, p) = [base |-> ElementAt(k, 0), block |-> blk[k]])
           => (\E p \in Places(g) : Slot(g, p)' = [base |-> ElementAt(k, 0), block |-> blk[k]])
  BY <1>18
<1> QED BY <1>1, <1>3, <1>19, <1>20, <1>21, <1>22, <1>23, <1>24, IndexStep

-----------------------------------------------------------------------------
(* The ring: steps of the consumers.                                       *)

\* The block of an element that is not the producer's any more is in the ring and in the
\* index.
LEMMA BlockOfElement ==
    ASSUME RingTypes, NEW i \in Nat, i < e_tailIndex, Number(i) >= Oldest
    PROVE  /\ Number(i) \in Window /\ Number(i) \in Nat /\ i % BLOCK_SIZE \in Explicit!Cells
           /\ i = ElementAt(Number(i), i % BLOCK_SIZE)
           /\ e_headers # <<>> /\ Number(i) < Displayed /\ Displayed \in Nat
           /\ Number(i) \in Oldest .. Recorded - 1
<1>1. Number(i) \in Nat /\ i % BLOCK_SIZE \in Explicit!Cells /\ i = ElementAt(Number(i), i % BLOCK_SIZE)
  BY ElementOfNumber
<1>2. /\ e_tailIndex \in Nat /\ slotsUsed \in Nat /\ Oldest >= 0 /\ (e_headers = <<>> => e_tailIndex = 0)
      /\ e_ppc \in {"entry", "front"} => e_tailIndex % BLOCK_SIZE = 0
  BY DEF RingTypes, ProducerTypes
<1>3. /\ Entered \in Nat /\ Number(i) < Entered /\ Number(e_tailIndex) \in Nat
      /\ e_tailIndex % BLOCK_SIZE = 0 => Number(i) < Number(e_tailIndex)
  BY <1>2, EnteredIs
<1>4. Oldest = Entered - slotsUsed /\ Window = Oldest .. Entered - 1
  BY DEF Oldest, Window
<1>5. Oldest \in Nat /\ Number(i) \in Window
  BY <1>1, <1>2, <1>3, <1>4
<1>6. Displayed \in Nat /\ Number(i) < Displayed /\ Displayed <= Recorded /\ Recorded \in Nat
  <2>1. CASE e_ppc \in {"entry", "front"}
    <3>1. Entered = Number(e_tailIndex) + 1
      BY <2>1 DEF Entered
    <3>2. Displayed = Number(e_tailIndex) /\ (Recorded = Number(e_tailIndex) \/ Recorded = Number(e_tailIndex) + 1)
      BY <1>3, <2>1, <3>1 DEF Displayed, Recorded
    <3> QED BY <1>2, <1>3, <2>1, <3>2
  <2>2. CASE e_ppc \notin {"entry", "front"}
    BY <1>3, <2>2 DEF Displayed, Recorded
  <2> QED BY <2>1, <2>2
<1>7. Number(i) \in Oldest .. Recorded - 1
  BY <1>1, <1>5, <1>6
<1>8. e_headers # <<>>
  BY <1>2
<1> QED BY <1>1, <1>5, <1>6, <1>7, <1>8

\* The same of an element that is claimed.
LEMMA ClaimIs ==
    ASSUME RingTypes, Claims, NEW c \in Consumers, e_pc[c] # "idle", NEW i, i = e_local[c].index
    PROVE  /\ i \in Nat /\ i < e_headIndex /\ i < e_tailIndex /\ Number(i) >= Oldest
           /\ Number(i) \in Window /\ Number(i) \in Nat /\ i % BLOCK_SIZE \in Explicit!Cells
           /\ i = ElementAt(Number(i), i % BLOCK_SIZE)
           /\ e_headers # <<>> /\ Number(i) < Displayed /\ Displayed \in Nat
           /\ Number(i) \in Oldest .. Recorded - 1
<1>1. i \in Nat /\ i < e_headIndex /\ Number(i) >= Oldest
  BY DEF RingTypes, ConsumerTypes, Claims
<1>2. i < e_tailIndex
  <2>1. e_headIndex \in 0 .. e_tailIndex /\ e_tailIndex \in Nat
    BY DEF RingTypes, ProducerTypes
  <2> QED BY <1>1, <2>1
<1> QED BY <1>1, <1>2, BlockOfElement

\* From any entry in use, the difference of the numbers leads to the element's.
LEMMA LookupFinds ==
    ASSUME HeaderTypes, LinedUp, NEW h \in DOMAIN e_headers, NEW shown \in Used(h), NEW i \in Nat,
           NEW p \in Places(h), NEW b \in Blocks,
           Slot(h, p) = [base |-> ElementAt(Number(i), 0), block |-> b]
    PROVE  Explicit!Lookup(h, shown, i).block = b
<1>1. Room(h) \in Nat \ {0} /\ \A pos \in Int : Explicit!EntryAt(h, pos) = Slot(h, pos % Room(h))
  BY HeaderIs
<1>2. PICK n \in Nat \ {0} : n = Room(h)
  BY <1>1
<1>3. Places(h) = 0 .. n - 1 /\ shown \in 0 .. n - 1 /\ p \in 0 .. n - 1 /\ Slot(h, shown) \in Entries
  BY <1>2, HeaderIs DEF Places, Used
<1>4. PICK k \in Nat : k = Number(i)
  BY ElementOfNumber
<1>5. Explicit!EntryAt(h, shown) = Slot(h, shown)
  <2>1. shown \in Int /\ shown % n = shown
    BY <1>3, Wrap
  <2> QED BY <1>1, <1>2, <2>1
<1>6. PICK m \in Nat : m = Number(Slot(h, shown).base) /\ Slot(h, shown).base = ElementAt(m, 0)
  <2>1. Slot(h, shown).base \in Nat
    BY <1>3 DEF Entries
  <2>2. Slot(h, shown).base % BLOCK_SIZE = 0
    BY DEF LinedUp
  <2> QED BY <2>1, <2>2, ElementOfNumber
<1>7. (Explicit!Base(i) - Explicit!EntryAt(h, shown).base) \div BLOCK_SIZE = k - m
  <2>1. Explicit!Base(i) = ElementAt(k, 0)
    BY <1>4, ElementOfNumber
  <2>2. BLOCK_SIZE \in Nat \ {0} /\ 0 \in 0 .. BLOCK_SIZE - 1 /\ k - m \in Int
    BY RingConstants
  <2>3. ((k - m) * BLOCK_SIZE + 0) \div BLOCK_SIZE = k - m
    BY <2>2, DivModUnique
  <2>4. (k * BLOCK_SIZE + 0) - (m * BLOCK_SIZE + 0) = (k - m) * BLOCK_SIZE + 0
    BY <2>2
  <2> QED BY <1>5, <1>6, <2>1, <2>3, <2>4 DEF ElementAt
<1>8. Explicit!Lookup(h, shown, i) = Slot(h, (shown + (k - m)) % n)
  <2>1. shown + (k - m) \in Int
    BY <1>3
  <2> QED BY <1>1, <1>2, <1>7, <2>1 DEF Explicit!Lookup
<1>9. Number(Slot(h, p).base) = k /\ p \in Used(h)
  <2>1. Slot(h, p).base = ElementAt(k, 0) /\ Slot(h, p).block = b
    BY <1>4
  <2>2. Number(ElementAt(k, 0)) = k
    BY FirstOfNumber
  <2> QED BY <2>1, <2>2, RingConstants DEF Used
<1>10. (p - k) % n = (shown - m) % n
  <2>1. Turn(h, p) = Turn(h, shown)
    BY <1>9 DEF LinedUp
  <2> QED BY <1>2, <1>6, <1>9, <2>1 DEF Turn
<1>11. (shown + (k - m)) % n = p
  <2>1. shown - m \in Int /\ p - k \in Int /\ k \in Int
    BY <1>3
  <2>2. (((shown - m) % n) + k) % n = ((shown - m) + k) % n /\ (((p - k) % n) + k) % n = ((p - k) + k) % n
    BY <2>1, ModSum
  <2>3. (shown - m) + k = shown + (k - m) /\ (p - k) + k = p
    BY <1>3
  <2>4. p % n = p
    BY <1>3, Wrap
  <2> QED BY <1>10, <2>2, <2>3, <2>4
<1> QED BY <1>8, <1>11

\* A step of a consumer: what it has to show.
LEMMA ConsumerStep ==
    ASSUME RingTypes, LinedUp, NEW blk, Arranged(blk),
           UNCHANGED <<e_tailIndex, e_headers, slotsUsed, size, front, ring, e_tailBlock, e_ppc>>,
           e_headIndex' \in 0 .. e_tailIndex, MemoryTypes', ConsumerTypes', Contents(blk)', Led(blk)'
    PROVE  RingTypes' /\ LinedUp' /\ Arranged(blk)'
<1>1. UNCHANGED <<Entered, Displayed, Recorded>>
  <2>1. Entered' = Entered
    BY DEF Entered, Number
  <2> QED BY <2>1 DEF Displayed, Recorded
<1>2. Still
  BY <1>1 DEF Still
<1>3. LinedUp' /\ HeaderTypes' /\ OwnedTypes' /\ InRing(blk)' /\ Displays(blk)' /\ Oldest' = Oldest
  BY <1>2, StillFrame DEF RingTypes, Arranged
<1>4. ProducerTypes'
  BY <1>1, <1>3 DEF RingTypes, ProducerTypes
<1> QED BY <1>3, <1>4 DEF RingTypes, Arranged

\* What the others know, if the ring stays as it is.
LEMMA OthersLed ==
    ASSUME NEW blk, Led(blk), UNCHANGED e_headers, NEW c,
           \A d \in Consumers \ {c} : e_pc'[d] = e_pc[d] /\ e_local'[d] = e_local[d],
           c \in Consumers =>
               LET h == e_local'[c].header
                   k == Number(e_local'[c].index)
               IN  /\ e_pc'[c] \in {"front", "find"} =>
                        /\ h \in DOMAIN e_headers /\ e_headers[h].front \in Used(h)
                        /\ \E p \in Places(h) : Slot(h, p) = [base |-> ElementAt(k, 0), block |-> blk[k]]
                   /\ e_pc'[c] = "find" => e_local'[c].front \in Used(h)
                   /\ e_pc'[c] \in {"move", "flag"} => e_local'[c].block = blk[k]
    PROVE  Led(blk)'
<1>1. /\ \A h : Places(h)' = Places(h) /\ Used(h)' = Used(h)
      /\ \A h, p : Slot(h, p)' = Slot(h, p)
  <2>1. \A h : Places(h)' = Places(h)
    BY DEF Places, Room
  <2>2. \A h, p : Slot(h, p)' = Slot(h, p)
    BY DEF Slot
  <2> QED BY <2>1, <2>2 DEF Used
<1>2. ASSUME NEW d \in Consumers, NEW h, h = e_local'[d].header, NEW k, k = Number(e_local'[d].index)
      PROVE  /\ e_pc'[d] \in {"front", "find"} =>
                  /\ h \in DOMAIN e_headers /\ e_headers[h].front \in Used(h)
                  /\ \E p \in Places(h) : Slot(h, p) = [base |-> ElementAt(k, 0), block |-> blk[k]]
             /\ e_pc'[d] = "find" => e_local'[d].front \in Used(h)
             /\ e_pc'[d] \in {"move", "flag"} => e_local'[d].block = blk[k]
  <2>1. CASE d = c
    BY <1>2, <2>1
  <2>2. CASE d # c
    <3>1. e_pc'[d] = e_pc[d] /\ e_local'[d] = e_local[d]
      BY <2>2
    <3> QED BY <1>2, <3>1 DEF Led
  <2> QED BY <2>1, <2>2
<1> QED BY <1>1, <1>2 DEF Led, Number, ElementAt

\* A consumer claims the element at the head.
LEMMA ClaimStep ==
    ASSUME RingTypes, Claims, LinedUp, NEW blk, Arranged(blk), NEW c \in Consumers, Explicit!Claim(c)
    PROVE  RingTypes' /\ Claims' /\ LinedUp' /\ Arranged(blk)'
<1> DEFINE new == [Explicit!Fresh EXCEPT !.index = e_headIndex]
<1>1. /\ e_headIndex < e_tailIndex /\ e_pc[c] = "idle" /\ e_pc' = [e_pc EXCEPT ![c] = "header"]
      /\ e_headIndex' = e_headIndex + 1 /\ e_local' = [e_local EXCEPT ![c] = new]
      /\ UNCHANGED <<e_tailIndex, e_headers, slotsUsed, size, front, ring, e_tailBlock, e_cells, emptyFlags, e_ppc>>
  BY DEF Explicit!Claim, Explicit!Step, Explicit!Set, Explicit!index, Explicit!blocks, Explicit!memory
<1>2. e_headIndex \in Nat /\ e_tailIndex \in Nat /\ e_headIndex' \in Nat /\ e_headIndex' \in 0 .. e_tailIndex
  BY <1>1 DEF RingTypes, ProducerTypes
<1>3. /\ e_pc \in [Consumers -> {"idle", "header", "front", "find", "move", "flag"}]
      /\ e_local \in [Consumers -> [index : Nat, header : Nat, front : Int, block : Blocks \union {Null}]]
  BY DEF RingTypes, ConsumerTypes
<1>4. new \in [index : Nat, header : Nat, front : Int, block : Blocks \union {Null}] /\ new.index = e_headIndex
  BY <1>2 DEF Explicit!Fresh
<1> HIDE DEF new
<1>5. ConsumerTypes'
  BY <1>1, <1>3, <1>4 DEF ConsumerTypes
<1>6. /\ e_pc'[c] = "header" /\ e_local'[c] = new
      /\ \A d \in Consumers \ {c} : e_pc'[d] = e_pc[d] /\ e_local'[d] = e_local[d]
  BY <1>1, <1>3
<1>7. Claims'
  <2>1. Oldest' = Oldest
    BY <1>1 DEF Oldest, Entered, Number
  <2>2. Number(e_headIndex) \in Nat /\ Number(e_headIndex + 1) \in Nat /\ Number(e_headIndex) <= Number(e_headIndex + 1)
    <3>1. e_headIndex + 1 \in Nat /\ e_headIndex <= e_headIndex + 1
      BY <1>2
    <3> QED BY <1>2, <3>1, NumberOrder, ElementOfNumber
  <2>3. Oldest \in Int
    <3>1. Entered \in Nat /\ slotsUsed \in Nat
      BY <1>2, EnteredIs DEF RingTypes, ProducerTypes
    <3> QED BY <3>1 DEF Oldest
  <2>4. Number(e_headIndex)' >= Oldest
    <3>1. Number(e_headIndex)' = Number(e_headIndex + 1)
      BY <1>1 DEF Number
    <3> QED BY <2>2, <2>3, <3>1 DEF Claims
  <2>5. ASSUME NEW d \in Consumers, e_pc'[d] # "idle"
        PROVE  e_local'[d].index < e_headIndex' /\ Number(e_local'[d].index) >= Oldest /\ (d # c => e_local'[d].index # e_headIndex)
    <3>1. CASE d = c
      BY <1>1, <1>2, <1>4, <1>6, <3>1 DEF Claims
    <3>2. CASE d # c
      <4>1. e_local'[d].index < e_headIndex /\ Number(e_local'[d].index) >= Oldest /\ e_local'[d].index \in Nat
        BY <1>3, <1>6, <2>5, <3>2 DEF Claims
      <4> QED BY <1>1, <1>2, <4>1
    <3> QED BY <3>1, <3>2
  <2>6. ASSUME NEW d \in Consumers, NEW e \in Consumers, e_pc'[d] # "idle", e_pc'[e] # "idle", e_local'[d].index = e_local'[e].index
        PROVE  d = e
    <3>1. CASE d = c \/ e = c
      BY <1>4, <1>6, <2>5, <2>6, <3>1
    <3>2. CASE d # c /\ e # c
      BY <1>6, <2>6, <3>2 DEF Claims
    <3> QED BY <3>1, <3>2
  <2>7. \A d \in Consumers : Number(e_local[d].index)' = Number(e_local'[d].index)
    BY DEF Number
  <2> QED BY <2>1, <2>4, <2>5, <2>6, <2>7 DEF Claims
<1>8. ASSUME NEW e \in Int PROVE (InCell(e)' <=> InCell(e)) /\ (Finished(e)' <=> Finished(e))
  <2>1. \A d \in Consumers : e_pc[d] # "idle" => e_local[d].index < e_headIndex /\ e_local[d].index # e_headIndex
    BY <1>2, <1>3 DEF Claims
  <2>2. CASE e = e_headIndex
    <3>1. InCell(e)
      BY <1>1, <1>2, <2>2 DEF InCell
    <3>2. InCell(e)'
      BY <1>1, <1>4, <1>6, <2>2 DEF InCell, Reading
    <3>3. ~Finished(e) /\ ~Finished(e)'
      BY <1>2, <1>4, <1>6, <2>2 DEF Finished
    <3> QED BY <3>1, <3>2, <3>3
  <2>3. CASE e # e_headIndex
    <3>1. (e >= e_headIndex <=> e >= e_headIndex') /\ (e < e_headIndex <=> e < e_headIndex')
      BY <1>1, <1>2, <2>3
    <3>2. (\E d \in Consumers : e_pc[d] \in Reading \union {"move"} /\ e_local[d].index = e)
            <=> (\E d \in Consumers : e_pc'[d] \in Reading \union {"move"} /\ e_local'[d].index = e)
      BY <1>1, <1>4, <1>6, <2>3 DEF Reading
    <3>3. (\A d \in Consumers : e_pc[d] # "idle" => e_local[d].index # e)
            <=> (\A d \in Consumers : e_pc'[d] # "idle" => e_local'[d].index # e)
      BY <1>1, <1>4, <1>6, <2>3
    <3> QED BY <1>1, <3>1, <3>2, <3>3 DEF InCell, Finished
  <2> QED BY <2>2, <2>3
<1>9. Contents(blk)'
  <2>1. Still
    BY <1>1 DEF Still, Entered, Displayed, Recorded, Number
  <2> QED BY <1>1, <1>8, <2>1, ContentsFrame DEF Arranged
<1>10. Led(blk)'
  BY <1>1, <1>6, OthersLed DEF Arranged
<1>11. MemoryTypes'
  BY <1>1 DEF RingTypes, MemoryTypes, Explicit!Cells
<1> QED BY <1>1, <1>2, <1>5, <1>7, <1>9, <1>10, <1>11, ConsumerStep

\* A consumer reads the index, its front or an entry.
LEMMA ReadStep ==
    ASSUME RingTypes, Claims, LinedUp, NEW blk, Arranged(blk), NEW c \in Consumers,
           Explicit!LoadHeader(c) \/ Explicit!LoadFront(c) \/ Explicit!Find(c)
    PROVE  RingTypes' /\ Claims' /\ LinedUp' /\ Arranged(blk)'
<1> DEFINE i == e_local[c].index
           k == Number(i)
<1>1. /\ UNCHANGED <<e_tailIndex, e_headIndex, e_headers, slotsUsed, size, front, ring, e_tailBlock, e_cells, emptyFlags, e_ppc>>
      /\ e_pc[c] \in Reading
  BY DEF Explicit!LoadHeader, Explicit!LoadFront, Explicit!Find, Explicit!Step, Explicit!indices, Explicit!index, Explicit!blocks, Explicit!memory, Reading
<1>2. /\ e_pc \in [Consumers -> {"idle", "header", "front", "find", "move", "flag"}]
      /\ e_local \in [Consumers -> [index : Nat, header : Nat, front : Int, block : Blocks \union {Null}]]
      /\ HeaderTypes
  BY DEF RingTypes, ConsumerTypes
<1>3. /\ i \in Nat /\ k \in Window /\ k \in Nat /\ e_headers # <<>> /\ k < Displayed /\ Displayed \in Nat
      /\ k \in Oldest .. Recorded - 1
  <2>1. e_pc[c] # "idle"
    BY <1>1 DEF Reading
  <2> QED BY <2>1, ClaimIs
<1>4. blk[k] \in Blocks
  BY <1>3, BlockIs DEF Arranged
<1>5. PICK to, new :
        /\ e_pc' = [e_pc EXCEPT ![c] = to] /\ e_local' = [e_local EXCEPT ![c] = new]
        /\ to \in {"front", "find", "move"}
        /\ new \in [index : Nat, header : Nat, front : Int, block : Blocks \union {Null}] /\ new.index = i
        /\ LET h == new.header IN
           /\ to \in {"front", "find"} =>
                /\ h \in DOMAIN e_headers /\ e_headers[h].front \in Used(h)
                /\ \E p \in Places(h) : Slot(h, p) = [base |-> ElementAt(k, 0), block |-> blk[k]]
           /\ to = "find" => new.front \in Used(h)
           /\ to = "move" => new.block = blk[k]
  <2> DEFINE old == e_local[c]
  <2>1. old \in [index : Nat, header : Nat, front : Int, block : Blocks \union {Null}] /\ old.index = i
    BY <1>2
  <2> HIDE DEF i, k
  <2>2. CASE Explicit!LoadHeader(c)
    <3>1. PICK h : h = Len(e_headers)
      OBVIOUS
    <3>2. /\ h \in DOMAIN e_headers /\ h \in Nat
          /\ Explicit!EntryAt(h, front - Displayed + k) = [base |-> ElementAt(k, 0), block |-> blk[k]]
          /\ \A pos \in Int : pos % size \in Places(h) /\ Explicit!EntryAt(h, pos) = Slot(h, pos % size)
          /\ front \in Nat
      <4>1. /\ h \in DOMAIN e_headers /\ h \in Nat \ {0} /\ size \in Nat \ {0} /\ front \in 0 .. size - 1
            /\ \A l \in Oldest .. Recorded - 1 :
                 Explicit!EntryAt(h, front - Displayed + l) = [base |-> ElementAt(l, 0), block |-> blk[l]]
            /\ \A pos \in Int : pos % size \in Places(h) /\ Explicit!EntryAt(h, pos) = Slot(h, pos % size)
        BY <1>3, <3>1, IndexIs
      <4>2. front \in Nat
        BY <4>1
      <4> QED BY <1>3, <4>1, <4>2
    <3>3. e_headers[h].front \in Used(h)
      BY <1>3, <3>1 DEF Arranged, Displays
    <3>4. \E p \in Places(h) : Slot(h, p) = [base |-> ElementAt(k, 0), block |-> blk[k]]
      <4>1. front - Displayed + k \in Int
        BY <1>3, <3>2
      <4> QED BY <3>2, <4>1
    <3>5. PICK new : new = [old EXCEPT !.header = h]
      OBVIOUS
    <3>6. new \in [index : Nat, header : Nat, front : Int, block : Blocks \union {Null}] /\ new.index = i /\ new.header = h
      BY <2>1, <3>2, <3>5
    <3>7. e_pc' = [e_pc EXCEPT ![c] = "front"] /\ e_local' = [e_local EXCEPT ![c] = new]
      BY <2>2, <3>1, <3>5 DEF Explicit!LoadHeader, Explicit!Step, Explicit!Set
    <3> QED BY <3>2, <3>3, <3>4, <3>6, <3>7
  <2>3. CASE Explicit!LoadFront(c)
    <3>1. PICK h : h = old.header
      OBVIOUS
    <3>2. e_pc[c] = "front" /\ e_pc' = [e_pc EXCEPT ![c] = "find"] /\ e_local' = [e_local EXCEPT ![c] = [old EXCEPT !.front = e_headers[h].front]]
      BY <2>3, <3>1 DEF Explicit!LoadFront, Explicit!Step, Explicit!Set
    <3>3. /\ h \in DOMAIN e_headers /\ e_headers[h].front \in Used(h)
          /\ \E p \in Places(h) : Slot(h, p) = [base |-> ElementAt(k, 0), block |-> blk[k]]
      BY <3>1, <3>2 DEF Arranged, Led, i, k
    <3>4. e_headers[h].front \in Int
      BY <1>2, <3>3, HeaderIs
    <3>5. PICK new : new = [old EXCEPT !.front = e_headers[h].front]
      OBVIOUS
    <3>6. /\ new \in [index : Nat, header : Nat, front : Int, block : Blocks \union {Null}] /\ new.index = i
          /\ new.header = h /\ new.front = e_headers[h].front
      BY <2>1, <3>1, <3>4, <3>5
    <3>7. e_local' = [e_local EXCEPT ![c] = new]
      BY <3>2, <3>5
    <3>8. LET g == new.header IN
            /\ g \in DOMAIN e_headers /\ e_headers[g].front \in Used(g) /\ new.front \in Used(g)
            /\ \E p \in Places(g) : Slot(g, p) = [base |-> ElementAt(k, 0), block |-> blk[k]]
      BY <3>3, <3>6
    <3>9. LET g == new.header
              to == "find"
          IN  /\ to \in {"front", "find"} =>
                   /\ g \in DOMAIN e_headers /\ e_headers[g].front \in Used(g)
                   /\ \E p \in Places(g) : Slot(g, p) = [base |-> ElementAt(k, 0), block |-> blk[k]]
              /\ to = "find" => new.front \in Used(g)
              /\ to = "move" => new.block = blk[k]
      BY <3>8
    <3> HIDE DEF old
    <3> WITNESS "find", new
    <3> QED BY <3>2, <3>6, <3>7, <3>9
  <2>4. CASE Explicit!Find(c)
    <3>1. PICK h : h = old.header
      OBVIOUS
    <3>2. PICK b : b = Explicit!Lookup(h, old.front, i).block
      OBVIOUS
    <3>3. e_pc[c] = "find" /\ e_pc' = [e_pc EXCEPT ![c] = "move"] /\ e_local' = [e_local EXCEPT ![c] = [old EXCEPT !.block = b]]
      BY <2>4, <3>1, <3>2 DEF Explicit!Find, Explicit!Step, Explicit!Set, i
    <3>4. /\ h \in DOMAIN e_headers /\ old.front \in Used(h)
          /\ \E p \in Places(h) : Slot(h, p) = [base |-> ElementAt(k, 0), block |-> blk[k]]
      BY <3>1, <3>3 DEF Arranged, Led, i, k
    <3>5. b = blk[k]
      <4>1. k = Number(i)
        BY DEF k
      <4> QED BY <1>2, <1>3, <1>4, <3>2, <3>4, <4>1, LookupFinds
    <3>6. PICK new : new = [old EXCEPT !.block = b]
      OBVIOUS
    <3>7. new \in [index : Nat, header : Nat, front : Int, block : Blocks \union {Null}] /\ new.index = i /\ new.block = blk[k]
      BY <1>4, <2>1, <3>5, <3>6
    <3> QED BY <3>3, <3>6, <3>7
  <2> QED BY <2>2, <2>3, <2>4
<1> HIDE DEF i
<1>6. /\ e_pc'[c] = to /\ e_local'[c] = new
      /\ \A d \in Consumers \ {c} : e_pc'[d] = e_pc[d] /\ e_local'[d] = e_local[d]
  BY <1>2, <1>5
<1>7. ConsumerTypes'
  BY <1>2, <1>5 DEF ConsumerTypes
<1>8. \A d \in Consumers : /\ e_local'[d].index = e_local[d].index /\ (e_pc'[d] # "idle" <=> e_pc[d] # "idle")
                           /\ (e_pc'[d] \in Reading \union {"move"} <=> e_pc[d] \in Reading \union {"move"})
  <2> SUFFICES ASSUME NEW d \in Consumers
               PROVE  /\ e_local'[d].index = e_local[d].index /\ (e_pc'[d] # "idle" <=> e_pc[d] # "idle")
                      /\ (e_pc'[d] \in Reading \union {"move"} <=> e_pc[d] \in Reading \union {"move"})
    OBVIOUS
  <2>1. CASE d = c
    BY <1>1, <1>5, <1>6, <2>1 DEF Reading, i
  <2>2. CASE d # c
    BY <1>6, <2>2
  <2> QED BY <2>1, <2>2
<1>9. Claims'
  <2>1. Oldest' = Oldest /\ Number(e_headIndex)' = Number(e_headIndex)
    BY <1>1 DEF Oldest, Entered, Number
  <2>2. \A d \in Consumers : Number(e_local[d].index)' = Number(e_local[d].index)
    BY <1>8 DEF Number
  <2> QED BY <1>1, <1>8, <2>1, <2>2 DEF Claims
<1>10. Contents(blk)'
  <2>1. Still
    BY <1>1 DEF Still, Entered, Displayed, Recorded, Number
  <2>2. \A e \in Int : (InCell(e)' <=> InCell(e)) /\ (Finished(e)' <=> Finished(e))
    BY <1>1, <1>8 DEF InCell, Finished
  <2> QED BY <1>1, <2>1, <2>2, ContentsFrame DEF Arranged
<1>11. Led(blk)'
  <2>1. Number(e_local'[c].index) = k
    BY <1>5, <1>6
  <2>2. LET h == e_local'[c].header
            l == Number(e_local'[c].index)
        IN  /\ e_pc'[c] \in {"front", "find"} =>
                 /\ h \in DOMAIN e_headers /\ e_headers[h].front \in Used(h)
                 /\ \E p \in Places(h) : Slot(h, p) = [base |-> ElementAt(l, 0), block |-> blk[l]]
            /\ e_pc'[c] = "find" => e_local'[c].front \in Used(h)
            /\ e_pc'[c] \in {"move", "flag"} => e_local'[c].block = blk[l]
    BY <1>5, <1>6, <2>1
  <2>3. UNCHANGED e_headers /\ Led(blk)
    BY <1>1 DEF Arranged
  <2> QED BY <1>6, <2>2, <2>3, OthersLed
<1>12. MemoryTypes' /\ e_headIndex' \in 0 .. e_tailIndex
  BY <1>1 DEF RingTypes, MemoryTypes, ProducerTypes, Explicit!Cells
<1> QED BY <1>1, <1>7, <1>9, <1>10, <1>11, <1>12, ConsumerStep

\* A consumer moves its element out of the cell.
LEMMA MoveStep ==
    ASSUME RingTypes, Claims, LinedUp, NEW blk, Arranged(blk), NEW c \in Consumers, Explicit!Move(c)
    PROVE  RingTypes' /\ Claims' /\ LinedUp' /\ Arranged(blk)'
<1>1. /\ UNCHANGED <<e_tailIndex, e_headIndex, e_headers, slotsUsed, size, front, ring, e_tailBlock, emptyFlags, e_ppc, e_local>>
      /\ e_pc[c] = "move" /\ e_pc' = [e_pc EXCEPT ![c] = "flag"]
      /\ e_cells' = [e_cells EXCEPT ![e_local[c].block][e_local[c].index % BLOCK_SIZE] = Null]
  BY DEF Explicit!Move, Explicit!Step, Explicit!Cell, Explicit!indices, Explicit!index, Explicit!blocks
<1>2. /\ e_pc \in [Consumers -> {"idle", "header", "front", "find", "move", "flag"}]
      /\ e_local \in [Consumers -> [index : Nat, header : Nat, front : Int, block : Blocks \union {Null}]]
      /\ e_cells \in [Blocks -> [Explicit!Cells -> Nat \union {Null}]]
      /\ e_headIndex \in 0 .. e_tailIndex /\ e_tailIndex \in Nat
  BY DEF RingTypes, ConsumerTypes, MemoryTypes, ProducerTypes
<1>3. PICK i : i = e_local[c].index
  OBVIOUS
<1>4. /\ i \in Nat /\ i < e_headIndex /\ i < e_tailIndex /\ Number(i) \in Window /\ Number(i) \in Nat
      /\ i % BLOCK_SIZE \in Explicit!Cells /\ i = ElementAt(Number(i), i % BLOCK_SIZE)
  BY <1>1, <1>3, ClaimIs
<1>5. PICK k \in Window, x \in Explicit!Cells : k = Number(i) /\ x = i % BLOCK_SIZE /\ i = ElementAt(k, x)
  BY <1>4
<1>6. e_local[c].block = blk[k] /\ blk[k] \in Blocks /\ blk[k] \in Explicit!Owned
  BY <1>1, <1>3, <1>5, BlockIs DEF Arranged, Led
<1>7. e_cells' = [e_cells EXCEPT ![blk[k]][x] = Null]
  BY <1>1, <1>3, <1>5, <1>6
<1>8. e_pc'[c] = "flag" /\ \A d \in Consumers \ {c} : e_pc'[d] = e_pc[d]
  BY <1>1, <1>2
<1>9. ConsumerTypes'
  BY <1>1, <1>2 DEF ConsumerTypes
<1>10. MemoryTypes'
  <2>1. e_cells' \in [Blocks -> [Explicit!Cells -> Nat \union {Null}]]
    BY <1>2, <1>5, <1>6, <1>7
  <2> QED BY <1>1, <2>1 DEF RingTypes, MemoryTypes, Explicit!Cells
<1>11. Claims'
  <2>1. Oldest' = Oldest /\ Number(e_headIndex)' = Number(e_headIndex)
    BY <1>1 DEF Oldest, Entered, Number
  <2>2. \A d \in Consumers : Number(e_local[d].index)' = Number(e_local[d].index) /\ (e_pc'[d] # "idle" <=> e_pc[d] # "idle")
    BY <1>1, <1>8 DEF Number
  <2> QED BY <1>1, <2>1, <2>2 DEF Claims
<1>12. ASSUME NEW e \in Int
       PROVE  /\ Finished(e)' <=> Finished(e)
              /\ e # i => (InCell(e)' <=> InCell(e))
              /\ ~InCell(i)'
  <2>1. Finished(e)' <=> Finished(e)
    BY <1>1, <1>8 DEF Finished
  <2>2. e # i => (InCell(e)' <=> InCell(e))
    BY <1>1, <1>3, <1>8 DEF InCell
  <2>3. ~InCell(i)'
    <3>1. ~(i >= e_headIndex)
      BY <1>2, <1>4
    <3>2. \A d \in Consumers : e_pc'[d] \in Reading \union {"move"} => e_local[d].index # i
      BY <1>1, <1>3, <1>8 DEF Claims, Reading
    <3> QED BY <1>1, <3>1, <3>2 DEF InCell
  <2> QED BY <2>1, <2>2, <2>3
<1>13. Contents(blk)'
  <2>1. Window' = Window /\ Explicit!Owned' = Explicit!Owned
    BY <1>1 DEF Window, Oldest, Entered, Number, Explicit!Owned
  <2>2. ASSUME NEW l \in Window, NEW y \in Explicit!Cells
        PROVE  /\ e_cells'[blk[l]][y] = IF InCell(ElementAt(l, y))' THEN ElementAt(l, y) ELSE Null
               /\ y \in emptyFlags'[blk[l]] <=> Finished(ElementAt(l, y))'
    <3>1. l \in Int /\ k \in Int /\ blk[l] \in Blocks /\ (blk[l] = blk[k] => l = k)
      BY BlockIs DEF Arranged
    <3>2. ElementAt(l, y) \in Int /\ (ElementAt(l, y) = i => l = k /\ y = x)
      BY <1>5, <3>1, NumberOfElement
    <3>3. /\ e_cells[blk[l]][y] = IF InCell(ElementAt(l, y)) THEN ElementAt(l, y) ELSE Null
          /\ y \in emptyFlags[blk[l]] <=> Finished(ElementAt(l, y))
      BY DEF Arranged, Contents
    <3>4. CASE l = k /\ y = x
      <4>1. e_cells'[blk[l]][y] = Null
        BY <1>2, <1>6, <1>7, <3>4
      <4> QED BY <1>1, <1>5, <1>12, <3>2, <3>3, <3>4, <4>1
    <3>5. CASE ~(l = k /\ y = x)
      <4>1. e_cells'[blk[l]][y] = e_cells[blk[l]][y]
        BY <1>2, <1>6, <1>7, <3>1, <3>5
      <4> QED BY <1>1, <1>12, <3>2, <3>3, <3>5, <4>1
    <3> QED BY <3>4, <3>5
  <2>3. ASSUME NEW b \in Blocks \ Explicit!Owned, NEW y \in Explicit!Cells PROVE e_cells'[b][y] = Null
    <3>1. e_cells'[b] = e_cells[b]
      BY <1>2, <1>6, <1>7
    <3> QED BY <3>1 DEF Arranged, Contents
  <2> QED BY <2>1, <2>2, <2>3 DEF Contents, Explicit!Cells, ElementAt
<1>14. Led(blk)'
  <2>1. e_local'[c].block = blk[Number(e_local'[c].index)] /\ \A d \in Consumers \ {c} : e_pc'[d] = e_pc[d] /\ e_local'[d] = e_local[d]
    BY <1>1, <1>3, <1>5, <1>6, <1>8
  <2>2. UNCHANGED e_headers /\ Led(blk)
    BY <1>1 DEF Arranged
  <2> QED BY <1>8, <2>1, <2>2, OthersLed
<1> QED BY <1>1, <1>2, <1>9, <1>10, <1>11, <1>13, <1>14, ConsumerStep

\* A consumer flags the cell of its element, and is done.
LEMMA FlagStep ==
    ASSUME RingTypes, Claims, LinedUp, NEW blk, Arranged(blk), NEW c \in Consumers, Explicit!set_empty(c)
    PROVE  RingTypes' /\ Claims' /\ LinedUp' /\ Arranged(blk)'
<1>1. /\ UNCHANGED <<e_tailIndex, e_headIndex, e_headers, slotsUsed, size, front, ring, e_tailBlock, e_cells, e_ppc>>
      /\ e_pc[c] = "flag" /\ e_pc' = [e_pc EXCEPT ![c] = "idle"] /\ e_local' = [e_local EXCEPT ![c] = Explicit!Fresh]
      /\ emptyFlags' = [emptyFlags EXCEPT ![e_local[c].block] = emptyFlags[e_local[c].block] \union {e_local[c].index % BLOCK_SIZE}]
  BY DEF Explicit!set_empty, Explicit!Step, Explicit!Set, Explicit!Cell, Explicit!indices, Explicit!index, Explicit!blocks
<1>2. /\ e_pc \in [Consumers -> {"idle", "header", "front", "find", "move", "flag"}]
      /\ e_local \in [Consumers -> [index : Nat, header : Nat, front : Int, block : Blocks \union {Null}]]
      /\ emptyFlags \in [Blocks -> SUBSET Explicit!Cells]
      /\ e_headIndex \in 0 .. e_tailIndex /\ e_tailIndex \in Nat
  BY DEF RingTypes, ConsumerTypes, MemoryTypes, ProducerTypes
<1>3. PICK i : i = e_local[c].index
  OBVIOUS
<1>4. /\ i \in Nat /\ i < e_headIndex /\ i < e_tailIndex /\ Number(i) \in Window /\ Number(i) \in Nat
      /\ i % BLOCK_SIZE \in Explicit!Cells /\ i = ElementAt(Number(i), i % BLOCK_SIZE)
  BY <1>1, <1>3, ClaimIs
<1>5. PICK k \in Window, x \in Explicit!Cells : k = Number(i) /\ x = i % BLOCK_SIZE /\ i = ElementAt(k, x)
  BY <1>4
<1>6. e_local[c].block = blk[k] /\ blk[k] \in Blocks /\ blk[k] \in Explicit!Owned
  BY <1>1, <1>3, <1>5, BlockIs DEF Arranged, Led
<1>7. emptyFlags' = [emptyFlags EXCEPT ![blk[k]] = emptyFlags[blk[k]] \union {x}]
  BY <1>1, <1>3, <1>5, <1>6
<1>8. e_pc'[c] = "idle" /\ \A d \in Consumers \ {c} : e_pc'[d] = e_pc[d] /\ e_local'[d] = e_local[d]
  BY <1>1, <1>2
<1>9. ConsumerTypes'
  <2>1. Explicit!Fresh \in [index : Nat, header : Nat, front : Int, block : Blocks \union {Null}]
    BY DEF Explicit!Fresh
  <2> QED BY <1>1, <1>2, <2>1 DEF ConsumerTypes
<1>10. MemoryTypes'
  <2>1. emptyFlags' \in [Blocks -> SUBSET Explicit!Cells]
    BY <1>2, <1>5, <1>6, <1>7
  <2> QED BY <1>1, <2>1 DEF RingTypes, MemoryTypes, Explicit!Cells
<1>11. Claims'
  <2>1. Oldest' = Oldest /\ Number(e_headIndex)' = Number(e_headIndex)
    BY <1>1 DEF Oldest, Entered, Number
  <2>2. \A d \in Consumers : e_pc'[d] # "idle" => d # c /\ e_pc[d] # "idle" /\ e_local'[d] = e_local[d]
    BY <1>8
  <2>3. \A d \in Consumers : Number(e_local[d].index)' = Number(e_local'[d].index)
    BY DEF Number
  <2> QED BY <1>1, <2>1, <2>2, <2>3 DEF Claims
<1>12. ASSUME NEW e \in Int
       PROVE  /\ InCell(e)' <=> InCell(e)
              /\ e # i => (Finished(e)' <=> Finished(e))
              /\ Finished(i)'
  <2>1. InCell(e)' <=> InCell(e)
    <3>1. e_pc[c] \notin Reading \union {"move"} /\ e_pc'[c] \notin Reading \union {"move"}
      BY <1>1, <1>8 DEF Reading
    <3>2. (\E d \in Consumers : e_pc[d] \in Reading \union {"move"} /\ e_local[d].index = e)
            <=> (\E d \in Consumers : e_pc'[d] \in Reading \union {"move"} /\ e_local'[d].index = e)
      BY <1>8, <3>1
    <3> QED BY <1>1, <3>2 DEF InCell, Reading
  <2>2. e # i => (Finished(e)' <=> Finished(e))
    <3>1. e # i => ((\A d \in Consumers : e_pc[d] # "idle" => e_local[d].index # e)
                      <=> (\A d \in Consumers : e_pc'[d] # "idle" => e_local'[d].index # e))
      BY <1>3, <1>8
    <3> QED BY <1>1, <3>1 DEF Finished
  <2>3. Finished(i)'
    <3>1. \A d \in Consumers : e_pc'[d] # "idle" => e_local'[d].index # i
      BY <1>1, <1>3, <1>8 DEF Claims
    <3> QED BY <1>1, <1>4, <3>1 DEF Finished
  <2> QED BY <2>1, <2>2, <2>3
<1>13. Contents(blk)'
  <2>1. Window' = Window /\ Explicit!Owned' = Explicit!Owned
    BY <1>1 DEF Window, Oldest, Entered, Number, Explicit!Owned
  <2>2. ASSUME NEW l \in Window, NEW y \in Explicit!Cells
        PROVE  /\ e_cells'[blk[l]][y] = IF InCell(ElementAt(l, y))' THEN ElementAt(l, y) ELSE Null
               /\ y \in emptyFlags'[blk[l]] <=> Finished(ElementAt(l, y))'
    <3>1. l \in Int /\ k \in Int /\ blk[l] \in Blocks /\ (blk[l] = blk[k] => l = k)
      BY BlockIs DEF Arranged
    <3>2. ElementAt(l, y) \in Int /\ (ElementAt(l, y) = i <=> l = k /\ y = x)
      BY <1>5, <3>1, NumberOfElement
    <3>3. /\ e_cells[blk[l]][y] = IF InCell(ElementAt(l, y)) THEN ElementAt(l, y) ELSE Null
          /\ y \in emptyFlags[blk[l]] <=> Finished(ElementAt(l, y))
      BY DEF Arranged, Contents
    <3>4. y \in emptyFlags'[blk[l]] <=> y \in emptyFlags[blk[l]] \/ (l = k /\ y = x)
      BY <1>2, <1>6, <1>7, <3>1
    <3>5. e_cells'[blk[l]][y] = IF InCell(ElementAt(l, y))' THEN ElementAt(l, y) ELSE Null
      BY <1>1, <1>12, <3>2, <3>3
    <3>6. y \in emptyFlags'[blk[l]] <=> Finished(ElementAt(l, y))'
      <4>1. CASE l = k /\ y = x
        BY <1>5, <1>12, <3>2, <3>4, <4>1
      <4>2. CASE ~(l = k /\ y = x)
        BY <1>12, <3>2, <3>3, <3>4, <4>2
      <4> QED BY <4>1, <4>2
    <3> QED BY <3>5, <3>6
  <2> QED BY <1>1, <2>1, <2>2 DEF Arranged, Contents, Explicit!Cells, ElementAt
<1>14. Led(blk)'
  <2>1. UNCHANGED e_headers /\ Led(blk)
    BY <1>1 DEF Arranged
  <2> QED BY <1>8, <2>1, OthersLed
<1> QED BY <1>1, <1>2, <1>9, <1>10, <1>11, <1>13, <1>14, ConsumerStep

-----------------------------------------------------------------------------
(* The ring is invariant.                                                  *)

\* There are no blocks at first.
LEMMA RingInit == Explicit!Init => RingInv
<1> SUFFICES ASSUME Explicit!Init PROVE RingInv
  OBVIOUS
<1>1. /\ e_tailIndex = 0 /\ e_headIndex = 0 /\ slotsUsed = 0 /\ front = 0 /\ e_ppc = "idle" /\ e_tailBlock = Null
      /\ ring = [b \in {} |-> Null] /\ e_cells = [b \in Blocks |-> [i \in Explicit!Cells |-> Null]]
      /\ emptyFlags = [b \in Blocks |-> Explicit!Cells] /\ e_pc = [c \in Consumers |-> "idle"] /\ e_local = [c \in Consumers |-> Explicit!Fresh]
  BY DEF Explicit!Init
<1>2. Number(0) = 0 /\ 0 % BLOCK_SIZE = 0
  <2>1. BLOCK_SIZE \in Nat \ {0} /\ 0 \in 0 .. BLOCK_SIZE - 1 /\ 0 * BLOCK_SIZE + 0 = 0
    BY RingConstants
  <2>2. (0 * BLOCK_SIZE + 0) % BLOCK_SIZE = 0 /\ (0 * BLOCK_SIZE + 0) \div BLOCK_SIZE = 0
    BY <2>1, DivModUnique
  <2> QED BY <2>1, <2>2 DEF Number
<1>3. Entered = 0 /\ Displayed = 0 /\ Recorded = 0 /\ Oldest = 0 /\ Window = {}
  <2>1. Entered = 0
    BY <1>1, <1>2 DEF Entered
  <2>2. Displayed = 0 /\ Recorded = 0 /\ Oldest = 0
    BY <1>1, <2>1 DEF Displayed, Recorded, Oldest
  <2> QED BY <2>1, <2>2 DEF Window
<1>4. \/ e_headers = <<>> /\ size \in Nat \ {0}
      \/ size \in Nat \ {0} /\ e_headers = <<Explicit!Header(-1, <<>>, size)>>
  <2>1. EXPLICIT_INITIAL_INDEX_SIZE \in Nat \ {0} /\ EXPLICIT_INITIAL_INDEX_SIZE % 2 = 0
    BY ExplicitAssumption DEF Explicit!ExplicitAssumption
  <2>2. EXPLICIT_INITIAL_INDEX_SIZE \div 2 \in Nat \ {0}
    BY <2>1
  <2> QED BY <2>1, <2>2 DEF Explicit!Init
<1>5. size \in Nat \ {0} /\ ProducerTypes
  BY <1>1, <1>2, <1>3, <1>4 DEF ProducerTypes
<1>6. /\ e_headers \in Seq([front : Int, entries : Seq(Entries)])
      /\ e_headers # <<>> => Len(e_headers) = 1 /\ 1 \in DOMAIN e_headers
      /\ \A h \in DOMAIN e_headers : h = 1 /\ Room(h) = size /\ Used(h) = {}
  <2>1. CASE e_headers = <<>>
    BY <2>1
  <2>2. CASE e_headers # <<>>
    <3>1. PICK new : new = Explicit!Header(-1, <<>>, size)
      OBVIOUS
    <3>2. /\ new \in [front : Int, entries : Seq(Entries)] /\ Len(new.entries) = size
          /\ \A i \in 1 .. size : new.entries[i] = Explicit!NoEntry
      <4>1. <<>> \in Seq(Entries) /\ Len(<<>>) = 0 /\ 0 <= size /\ -1 \in Int
        BY <1>5
      <4>2. /\ new \in [front : Int, entries : Seq(Entries)] /\ Len(new.entries) = size
            /\ \A i \in 1 .. size : new.entries[i] = IF i <= Len(<<>>) THEN <<>>[i] ELSE Explicit!NoEntry
        <5>1. PICK s \in Seq(Entries) : s = <<>> /\ Len(s) <= size
          BY <4>1
        <5>2. PICK f \in Int : f = -1
          BY <4>1
        <5>3. /\ Explicit!Header(f, s, size) \in [front : Int, entries : Seq(Entries)]
              /\ Len(Explicit!Header(f, s, size).entries) = size
              /\ \A i \in 1 .. size : Explicit!Header(f, s, size).entries[i] = IF i <= Len(s) THEN s[i] ELSE Explicit!NoEntry
          BY <1>5, <5>1, HeaderOf
        <5>4. new = Explicit!Header(f, s, size)
          BY <3>1, <5>1, <5>2
        <5> QED BY <5>1, <5>3, <5>4
      <4>3. \A i \in 1 .. size : ~(i <= 0)
        BY <1>5
      <4> QED BY <4>1, <4>2, <4>3
    <3>3. e_headers = <<new>>
      BY <1>4, <2>2, <3>1
    <3>4. e_headers \in Seq([front : Int, entries : Seq(Entries)]) /\ Len(e_headers) = 1 /\ DOMAIN e_headers = 1 .. 1 /\ e_headers[1] = new
      BY <3>2, <3>3
    <3>5. Room(1) = size /\ Places(1) = 0 .. size - 1
      BY <3>2, <3>4 DEF Room, Places
    <3>6. ASSUME NEW p \in 0 .. size - 1 PROVE Slot(1, p).block = Null
      <4>1. p + 1 \in 1 .. size
        BY <1>5
      <4> QED BY <3>2, <3>4, <4>1 DEF Slot, Explicit!NoEntry
    <3>7. Used(1) = {}
      BY <3>5, <3>6 DEF Used
    <3>8. \A h \in DOMAIN e_headers : h = 1
      BY <3>4
    <3> QED BY <3>4, <3>5, <3>7, <3>8
  <2> QED BY <2>1, <2>2
<1>7. HeaderTypes
  <2>1. \A h \in DOMAIN e_headers : Room(h) \in Nat \ {0}
    BY <1>5, <1>6
  <2>2. e_headers # <<>> => Room(Len(e_headers)) = size
    BY <1>6
  <2> QED BY <1>6, <2>1, <2>2 DEF HeaderTypes
<1>8. LinedUp
  BY <1>6 DEF LinedUp
<1>9. OwnedTypes
  <2>1. Explicit!Owned = {} /\ ring \in [{} -> {}]
    BY <1>1 DEF Explicit!Owned
  <2> QED BY <1>1, <2>1, FS_EmptySet DEF OwnedTypes
<1>10. MemoryTypes /\ ConsumerTypes
  BY <1>1 DEF MemoryTypes, ConsumerTypes, Explicit!Fresh
<1>11. Claims
  BY <1>1, <1>2, <1>3 DEF Claims
<1>12. PICK blk \in [Window -> Blocks] : TRUE
  <2>1. [k \in {} |-> Null] \in [{} -> Blocks]
    OBVIOUS
  <2> QED BY <1>3, <2>1
<1>13. InRing(blk)
  BY <1>1, <1>3 DEF InRing, Explicit!Owned
<1>14. Contents(blk)
  BY <1>1, <1>3 DEF Contents
<1>15. Displays(blk)
  <2>1. e_headers # <<>> => Used(Len(e_headers)) = {}
    BY <1>6
  <2>2. Oldest .. Recorded - 1 = {} /\ ~(Displayed > 0)
    BY <1>3
  <2> QED BY <2>1, <2>2 DEF Displays
<1>16. Led(blk)
  BY <1>1 DEF Led
<1> QED BY <1>1, <1>5, <1>7, <1>8, <1>9, <1>10, <1>11, <1>13, <1>14, <1>15, <1>16 DEF RingInv, RingTypes, Arranged

\* Every step leaves the ring in order.
LEMMA RingStep == RingInv /\ [Explicit!Next]_(Explicit!vars) => RingInv'
<1> SUFFICES ASSUME RingInv, [Explicit!Next]_(Explicit!vars) PROVE RingInv'
  OBVIOUS
<1>1. CASE UNCHANGED Explicit!vars
  <2>1. UNCHANGED <<e_tailIndex, e_headIndex, e_headers, slotsUsed, size, front, ring, e_tailBlock, e_cells, emptyFlags, e_ppc, e_pc, e_local>>
    BY <1>1 DEF Explicit!vars, Explicit!indices, Explicit!index, Explicit!blocks, Explicit!memory, Explicit!threads
  <2>2. CASE e_ppc = "gone"
    BY <2>1, <2>2 DEF RingInv, Explicit!Owned
  <2>3. CASE e_ppc # "gone"
    <3>1. PICK blk \in [Window -> Blocks] : RingTypes /\ Claims /\ LinedUp /\ Arranged(blk)
      BY <2>3 DEF RingInv
    <3>2. UNCHANGED <<Entered, Displayed, Recorded>>
      <4>1. Entered' = Entered
        BY <2>1 DEF Entered, Number
      <4> QED BY <2>1, <4>1 DEF Displayed, Recorded
    <3>3. Still
      BY <2>1, <3>2 DEF Still
    <3>4. Oldest' = Oldest /\ Window' = Window
      BY <3>3, StillFrame
    <3>5. ProducerTypes'
      BY <2>1, <3>1, <3>2, <3>4 DEF RingTypes, ProducerTypes
    <3>6. \A e \in Int : (InCell(e)' <=> InCell(e)) /\ (Finished(e)' <=> Finished(e))
      BY <2>1 DEF InCell, Finished
    <3>7. RingTypes' /\ Claims' /\ LinedUp' /\ Arranged(blk)'
      BY <2>1, <3>1, <3>3, <3>5, <3>6, StillStep
    <3> QED BY <2>1, <2>3, <3>1, <3>4, <3>7 DEF RingInv
  <2> QED BY <2>2, <2>3
<1>2. CASE Explicit!Next
  <2>1. CASE e_ppc = "gone"
    <3>1. e_pc = [c \in Consumers |-> "idle"]
      BY <2>1 DEF RingInv
    <3>2. UNCHANGED Explicit!vars
      BY <1>2, <2>1, <3>1 DEF Explicit!Next, Explicit!Enqueue, Explicit!Reuse, Explicit!NewBlock, Explicit!new_block_index, Explicit!Fail, Explicit!Requisition, Explicit!StoreEntry, Explicit!StoreFront,
                              Explicit!Construct, Explicit!Publish, Explicit!Claim, Explicit!LoadHeader, Explicit!LoadFront, Explicit!Find, Explicit!Move, Explicit!set_empty, Explicit!Step, Explicit!Destroy, Explicit!Quiet
    <3> QED BY <1>1, <3>2
  <2>2. CASE e_ppc # "gone"
    <3>1. PICK blk \in [Window -> Blocks] : RingTypes /\ Claims /\ LinedUp /\ Arranged(blk)
      BY <2>2 DEF RingInv
    <3>2. CASE Explicit!Destroy
      <4>1. e_ppc' = "gone" /\ ring' = [b \in {} |-> Null] /\ e_pc' = e_pc /\ \A c \in Consumers : e_pc[c] = "idle"
        BY <3>2 DEF Explicit!Destroy, Explicit!Quiet
      <4>2. e_pc = [c \in Consumers |-> "idle"]
        BY <3>1, <4>1 DEF RingTypes, ConsumerTypes
      <4> QED BY <4>1, <4>2 DEF RingInv
    <3>3. CASE ~Explicit!Destroy
      <4>1. RingTypes' /\ Claims' /\ LinedUp' /\ \E blk2 \in [Window' -> Blocks] : Arranged(blk2)'
        <5>1. ASSUME RingTypes' /\ Claims' /\ LinedUp' /\ Arranged(blk)' /\ UNCHANGED slotsUsed /\ Entered' = Entered
              PROVE  RingTypes' /\ Claims' /\ LinedUp' /\ \E blk2 \in [Window' -> Blocks] : Arranged(blk2)'
          <6>1. Window' = Window
            BY <5>1 DEF Window, Oldest
          <6> QED BY <3>1, <5>1, <6>1
        <5>2. ASSUME UNCHANGED <<e_tailIndex, e_ppc>> PROVE Entered' = Entered
          BY <5>2 DEF Entered, Number
        <5>3. CASE Explicit!Reuse
          BY <3>1, <5>3, ReuseStep
        <5>4. CASE \E b \in Blocks : Explicit!Requisition(b)
          BY <3>1, <5>4, RequisitionStep
        <5>5. CASE Explicit!Enqueue \/ Explicit!NewBlock \/ Explicit!Fail \/ Explicit!Publish
          <6>1. RingTypes' /\ Claims' /\ LinedUp' /\ Arranged(blk)' /\ UNCHANGED slotsUsed
            BY <3>1, <5>5, SimpleStep DEF Explicit!Enqueue, Explicit!NewBlock, Explicit!Fail, Explicit!Publish, Explicit!index
          <6>2. Entered' = Entered
            BY <3>1, <5>5, EnteredKept
          <6> QED BY <5>1, <6>1, <6>2
        <5>6. CASE Explicit!new_block_index \/ Explicit!StoreEntry \/ Explicit!StoreFront \/ Explicit!Construct
          <6>1. RingTypes' /\ Claims' /\ LinedUp' /\ Arranged(blk)' /\ UNCHANGED slotsUsed
            BY <3>1, <5>6, GrowStep, StoreEntryStep, StoreFrontStep, ConstructStep
               DEF Explicit!new_block_index, Explicit!StoreEntry, Explicit!StoreFront, Explicit!Construct, Explicit!index
          <6>2. Entered' = Entered
            BY <5>6 DEF Explicit!new_block_index, Explicit!StoreEntry, Explicit!StoreFront, Explicit!Construct, Explicit!indices, Entered, Number
          <6> QED BY <5>1, <6>1, <6>2
        <5>7. CASE \E c \in Consumers : Explicit!Claim(c) \/ Explicit!LoadHeader(c) \/ Explicit!LoadFront(c) \/ Explicit!Find(c) \/ Explicit!Move(c) \/ Explicit!set_empty(c)
          <6>1. PICK c \in Consumers : Explicit!Claim(c) \/ Explicit!LoadHeader(c) \/ Explicit!LoadFront(c) \/ Explicit!Find(c) \/ Explicit!Move(c) \/ Explicit!set_empty(c)
            BY <5>7
          <6>2. RingTypes' /\ Claims' /\ LinedUp' /\ Arranged(blk)'
            BY <3>1, <6>1, ClaimStep, ReadStep, MoveStep, FlagStep
          <6>3. UNCHANGED <<slotsUsed, e_tailIndex, e_ppc>>
            BY <6>1 DEF Explicit!Claim, Explicit!LoadHeader, Explicit!LoadFront, Explicit!Find, Explicit!Move, Explicit!set_empty, Explicit!Step, Explicit!indices, Explicit!index
          <6> QED BY <5>1, <5>2, <6>2, <6>3
        <5> QED BY <1>2, <2>2, <3>3, <5>3, <5>4, <5>5, <5>6, <5>7 DEF Explicit!Next
      <4>2. e_ppc' # "gone"
        BY <4>1 DEF RingTypes, ProducerTypes
      <4> QED BY <4>1, <4>2 DEF RingInv
    <3> QED BY <3>2, <3>3
  <2> QED BY <2>1, <2>2
<1> QED BY <1>1, <1>2

-----------------------------------------------------------------------------
(* What the ring in order gives.                                           *)

\* Whoever looks for its element finds it, and so would whoever starts now.
LEMMA RingFinds == RingInv => Explicit!FindsElement
<1> SUFFICES ASSUME RingInv PROVE Explicit!FindsElement
  OBVIOUS
<1>1. CASE e_ppc = "gone"
  BY <1>1 DEF RingInv, Explicit!FindsElement
<1>2. CASE e_ppc # "gone"
  <2>1. PICK blk \in [Window -> Blocks] : RingTypes /\ Claims /\ LinedUp /\ Arranged(blk)
    BY <1>2 DEF RingInv
  <2>2. ASSUME NEW c \in Consumers, e_pc[c] = "move"
        PROVE  e_cells[e_local[c].block][Explicit!Cell(c)] = e_local[c].index
    <3>1. PICK i : i = e_local[c].index
      OBVIOUS
    <3>2. /\ i \in Nat /\ i < e_headIndex /\ i < e_tailIndex /\ Number(i) \in Window
          /\ i % BLOCK_SIZE \in Explicit!Cells /\ i = ElementAt(Number(i), i % BLOCK_SIZE)
      BY <2>1, <2>2, <3>1, ClaimIs
    <3>3. e_local[c].block = blk[Number(i)]
      BY <2>1, <2>2, <3>1 DEF Arranged, Led
    <3>4. InCell(i)
      BY <2>2, <3>1, <3>2 DEF InCell, Reading
    <3>5. e_cells[blk[Number(i)]][i % BLOCK_SIZE] = i
      BY <2>1, <3>2, <3>4 DEF Arranged, Contents
    <3> QED BY <3>1, <3>3, <3>5 DEF Explicit!Cell
  <2>3. ASSUME NEW i \in e_headIndex .. e_tailIndex - 1, NEW h, h = Len(e_headers), NEW b, b = Explicit!Lookup(h, e_headers[h].front, i).block
        PROVE  b \in Explicit!Owned /\ e_cells[b][i % BLOCK_SIZE] = i
    <3>1. e_headIndex \in Nat /\ e_tailIndex \in Nat /\ i \in Nat /\ i < e_tailIndex /\ e_headIndex <= i
      <4>1. e_headIndex \in 0 .. e_tailIndex /\ e_tailIndex \in Nat
        BY <2>1 DEF RingTypes, ProducerTypes
      <4> QED BY <2>3, <4>1
    <3>2. Number(i) >= Oldest
      <4>1. Number(e_headIndex) <= Number(i) /\ Number(e_headIndex) \in Nat /\ Number(i) \in Nat
        BY <3>1, NumberOrder, ElementOfNumber
      <4>2. Number(e_headIndex) >= Oldest
        BY <2>1 DEF Claims
      <4>3. Oldest \in Int
        <5>1. Entered \in Nat /\ slotsUsed \in Nat
          BY <2>1, <3>1, EnteredIs DEF RingTypes, ProducerTypes
        <5> QED BY <5>1 DEF Oldest
      <4> QED BY <4>1, <4>2, <4>3
    <3>3. PICK k : k = Number(i)
      OBVIOUS
    <3>4. /\ k \in Window /\ k \in Nat /\ i % BLOCK_SIZE \in Explicit!Cells /\ i = ElementAt(k, i % BLOCK_SIZE)
          /\ e_headers # <<>> /\ k < Displayed /\ Displayed \in Nat /\ k \in Oldest .. Recorded - 1
      BY <2>1, <3>1, <3>2, <3>3, BlockOfElement
    <3>5. /\ h \in DOMAIN e_headers /\ front \in 0 .. size - 1 /\ size \in Nat \ {0}
          /\ Explicit!EntryAt(h, front - Displayed + k) = [base |-> ElementAt(k, 0), block |-> blk[k]]
          /\ \A pos \in Int : pos % size \in Places(h) /\ Explicit!EntryAt(h, pos) = Slot(h, pos % size)
      BY <2>1, <2>3, <3>4, IndexIs
    <3>6. e_headers[h].front \in Used(h)
      <4>1. Displayed > 0
        BY <3>4
      <4> QED BY <2>1, <2>3, <3>4, <4>1 DEF Arranged, Displays
    <3>7. PICK p \in Places(h) : Slot(h, p) = [base |-> ElementAt(k, 0), block |-> blk[k]]
      <4>1. front \in Nat
        BY <3>5
      <4>2. front - Displayed + k \in Int
        BY <3>4, <4>1
      <4> QED BY <3>5, <4>2
    <3>8. blk[k] \in Explicit!Owned /\ blk[k] \in Blocks
      BY <2>1, <3>4, BlockIs DEF Arranged
    <3>9. b = blk[k]
      <4>1. HeaderTypes
        BY <2>1 DEF RingTypes
      <4>2. PICK shown \in Used(h) : shown = e_headers[h].front
        BY <3>6
      <4>3. PICK d \in Blocks : d = blk[k]
        BY <3>8
      <4>4. Slot(h, p) = [base |-> ElementAt(Number(i), 0), block |-> d]
        BY <3>3, <3>7, <4>3
      <4>5. Explicit!Lookup(h, shown, i).block = d
        BY <2>1, <3>1, <3>5, <4>1, <4>4, LookupFinds
      <4> QED BY <2>3, <4>2, <4>3, <4>5
    <3>10. InCell(i)
      BY <3>1 DEF InCell
    <3> QED BY <2>1, <3>4, <3>8, <3>9, <3>10 DEF Arranged, Contents
  <2> QED BY <2>2, <2>3 DEF Explicit!FindsElement
<1> QED BY <1>1, <1>2

\* The flag a consumer is about to set is not set.
LEMMA RingFlags == RingInv => Explicit!FlaggedOnce
<1> SUFFICES ASSUME RingInv, NEW c \in Consumers, e_pc[c] = "flag"
             PROVE  Explicit!Cell(c) \notin emptyFlags[e_local[c].block]
  BY DEF Explicit!FlaggedOnce
<1>1. PICK blk \in [Window -> Blocks] : RingTypes /\ Claims /\ LinedUp /\ Arranged(blk)
  BY DEF RingInv
<1>2. PICK i : i = e_local[c].index
  OBVIOUS
<1>3. i \in Nat /\ Number(i) \in Window /\ i % BLOCK_SIZE \in Explicit!Cells /\ i = ElementAt(Number(i), i % BLOCK_SIZE)
  BY <1>1, <1>2, ClaimIs
<1>4. e_local[c].block = blk[Number(i)]
  BY <1>1, <1>2 DEF Arranged, Led
<1>5. ~Finished(i)
  BY <1>2 DEF Finished
<1>6. i % BLOCK_SIZE \notin emptyFlags[blk[Number(i)]]
  BY <1>1, <1>3, <1>5 DEF Arranged, Contents
<1> QED BY <1>2, <1>4, <1>6 DEF Explicit!Cell

\* A set of numbers that is not empty has a least one.
LEMMA Smallest ==
    ASSUME NEW T \in SUBSET Nat, T # {}
    PROVE  \E n \in T : \A m \in T : n <= m
<1>1. IsWellFoundedOn({ss \in Nat \X Nat : ss[1] < ss[2]}, Nat)
  BY NatLessThanWellFounded DEF OpToRel
<1>2. PICK n \in T : \A m \in T : ~(<<m, n>> \in {ss \in Nat \X Nat : ss[1] < ss[2]})
  BY <1>1, WFMin
<1>3. ASSUME NEW m \in T, m < n PROVE FALSE
  <2>1. <<m, n>> \in {ss \in Nat \X Nat : ss[1] < ss[2]}
    BY <1>3
  <2> QED BY <1>2, <2>1
<1> QED BY <1>3

\* From any block of the ring one comes to all of them.
LEMMA RingCloses ==
    ASSUME RingTypes, NEW blk, InRing(blk), NEW G \in SUBSET Explicit!Owned, G # {}, \A b \in G : ring[b] \in G
    PROVE  G = Explicit!Owned
<1>1. Explicit!Owned = {blk[k] : k \in Window} /\ \A k \in Window : ring[blk[k]] = blk[IF k = Entered - 1 THEN Oldest ELSE k + 1]
  BY DEF InRing
<1>2. PICK j \in Window : blk[j] \in G
  BY <1>1
<1>3. Window = Oldest .. Entered - 1 /\ Oldest \in Nat /\ Entered \in Nat /\ j \in Nat /\ Entered - 1 \in Window /\ Oldest \in Window
  <2>1. Oldest \in Nat /\ Entered \in Nat /\ j \in Nat /\ Entered - 1 \in Window /\ Window = Oldest .. Entered - 1
    BY BlockIs DEF Window
  <2> QED BY <2>1
<1>4. blk[Entered - 1] \in G
  <2> DEFINE T == {n \in Nat : Entered - 1 - n \in Window /\ blk[Entered - 1 - n] \in G}
  <2>1. T # {}
    <3>1. Entered - 1 - j \in Nat /\ Entered - 1 - (Entered - 1 - j) = j
      BY <1>3
    <3> QED BY <1>2, <3>1
  <2>2. PICK n \in T : \A m \in T : n <= m
    BY <2>1, Smallest
  <2>3. CASE n # 0
    <3>1. PICK k \in Window : k = Entered - 1 - n /\ blk[k] \in G
      BY <2>2
    <3>2. k \in Nat /\ n \in Nat /\ k # Entered - 1 /\ k + 1 = Entered - 1 - (n - 1) /\ n - 1 \in Nat /\ k + 1 \in Window
      BY <1>3, <2>2, <2>3, <3>1
    <3>3. blk[k + 1] \in G
      BY <1>1, <3>1, <3>2
    <3>4. n - 1 \in T
      BY <3>2, <3>3
    <3> QED BY <2>2, <3>2, <3>4
  <2>4. CASE n = 0
    <3>1. Entered - 1 - 0 = Entered - 1
      BY <1>3
    <3> QED BY <2>2, <2>4, <3>1
  <2> QED BY <2>3, <2>4
<1>5. blk[Oldest] \in G
  BY <1>1, <1>3, <1>4
<1>6. ASSUME NEW k \in Window, blk[k] \notin G PROVE FALSE
  <2> DEFINE T == {n \in Nat : n \in Window /\ blk[n] \notin G}
  <2>1. k \in T
    BY <1>3, <1>6
  <2>2. PICK n \in T : \A m \in T : n <= m
    BY <2>1, Smallest
  <2>3. n # Oldest
    BY <1>5
  <2>4. n - 1 \in Nat /\ n - 1 \in Window /\ n - 1 # Entered - 1 /\ n - 1 + 1 = n /\ ~(n <= n - 1)
    BY <1>3, <2>3
  <2>5. blk[n - 1] \in G
    BY <2>2, <2>4
  <2> QED BY <1>1, <2>4, <2>5
<1> QED BY <1>1, <1>6

\* The index has a slot for every block of the ring, and the ring closes over them.
LEMMA RingHasRoom == RingInv => Explicit!RoomForRing
<1> SUFFICES ASSUME RingInv PROVE Explicit!RoomForRing
  OBVIOUS
<1>1. \A G : Explicit!Cardinality(G) = Cardinality(G)
  BY DEF Cardinality, Explicit!Cardinality
<1>2. CASE e_ppc = "gone"
  <2>1. Explicit!Owned = {}
    BY <1>2 DEF RingInv, Explicit!Owned
  <2> QED BY <1>2, <2>1 DEF Explicit!RoomForRing
<1>3. CASE e_ppc # "gone"
  <2>1. PICK blk \in [Window -> Blocks] : RingTypes /\ Claims /\ LinedUp /\ Arranged(blk)
    BY <1>3 DEF RingInv
  <2>2. slotsUsed = Cardinality(Explicit!Owned) /\ slotsUsed <= size
    BY <2>1 DEF RingTypes, OwnedTypes, ProducerTypes
  <2>3. \A G \in SUBSET Explicit!Owned : G # {} /\ (\A b \in G : ring[b] \in G) => G = Explicit!Owned
    BY <2>1, RingCloses DEF Arranged
  <2> QED BY <1>1, <2>2, <2>3 DEF Explicit!RoomForRing
<1> QED BY <1>2, <1>3

\* Without a call there are the elements between head and tail; the head is in the block the
\* destructor takes for the half dequeued one.
LEMMA HalfDequeuedIs ==
    ASSUME RingTypes, Claims, NEW blk, Arranged(blk), Explicit!Quiet, e_headIndex % BLOCK_SIZE # 0
    PROVE  Number(e_headIndex) \in Window /\ Explicit!HalfDequeued = blk[Number(e_headIndex)]
<1> DEFINE r == e_headIndex % BLOCK_SIZE
           L == Len(e_headers)
<1>1. /\ e_headIndex \in Nat /\ e_tailIndex \in Nat /\ e_headIndex <= e_tailIndex /\ slotsUsed \in Nat /\ slotsUsed <= size
      /\ size \in Nat /\ Oldest >= 0 /\ (e_headers = <<>> => e_tailIndex = 0) /\ front \in 0 .. size - 1
  BY DEF RingTypes, ProducerTypes
<1>2. PICK H \in Nat : H = Number(e_headIndex) /\ r \in Explicit!Cells /\ e_headIndex = ElementAt(H, r) /\ r # 0
  BY <1>1, ElementOfNumber
<1>3. r \in Nat /\ r > 0
  BY <1>2, RingConstants
<1> HIDE DEF r
<1>4. Displayed = Entered /\ Recorded = Entered /\ Entered \in Nat
  BY <1>1, EnteredIs DEF Explicit!Quiet, Displayed, Recorded
<1>5. H < Entered /\ H >= Oldest
  <2>1. CASE e_headIndex < e_tailIndex
    BY <1>1, <1>2, <2>1, EnteredIs DEF Claims
  <2>2. CASE e_headIndex = e_tailIndex
    <3>1. Entered = H + 1
      BY <1>1, <1>2, <2>2, EnteredIs DEF r
    <3>2. H >= Oldest
      BY <1>2 DEF Claims
    <3> QED BY <3>1, <3>2
  <2> QED BY <1>1, <2>1, <2>2
<1>6. Oldest \in Nat /\ Oldest = Entered - slotsUsed /\ Window = Oldest .. Entered - 1
  <2>1. Oldest = Entered - slotsUsed
    BY DEF Oldest
  <2> QED BY <1>1, <1>4, <2>1 DEF Window
<1>7. H \in Window /\ e_headers # <<>>
  <2>1. e_headers # <<>>
    <3>1. e_tailIndex # 0
      <4>1. 0 % BLOCK_SIZE = 0
        BY RingConstants
      <4> QED BY <1>1, <4>1
    <3> QED BY <1>1, <3>1
  <2> QED BY <1>2, <1>4, <1>5, <1>6, <2>1
<1> DEFINE entry(i) == Explicit!EntryAt(L, front - slotsUsed + i)
           past(i) == entry(i).base + BLOCK_SIZE < e_headIndex
           found(i) == ~past(i) /\ \A j \in 0 .. i - 1 : past(j)
<1>8. PICK n \in 0 .. size : n = H - Oldest
  <2>1. H - Oldest \in 0 .. size
    BY <1>1, <1>2, <1>4, <1>5, <1>6
  <2> QED BY <2>1
<1>9. ASSUME NEW i \in 0 .. slotsUsed - 1
      PROVE  entry(i) = [base |-> ElementAt(Oldest + i, 0), block |-> blk[Oldest + i]] /\ (past(i) <=> i < n)
  <2>1. PICK k \in Nat : k = Oldest + i /\ k \in Oldest .. Recorded - 1 /\ front - slotsUsed + i = front - Displayed + k
    <3>1. front \in Int
      BY <1>1
    <3>2. i \in Nat
      OBVIOUS
    <3> QED BY <1>1, <1>4, <1>6, <1>9, <3>1, <3>2
  <2>2. Explicit!EntryAt(L, front - Displayed + k) = [base |-> ElementAt(k, 0), block |-> blk[k]]
    BY <1>7, <2>1, IndexIs
  <2>3. entry(i) = [base |-> ElementAt(k, 0), block |-> blk[k]]
    BY <2>1, <2>2
  <2>4. ElementAt(k, 0) + BLOCK_SIZE = ElementAt(k + 1, 0)
    <3>1. BLOCK_SIZE \in Nat /\ (k + 1) * BLOCK_SIZE = k * BLOCK_SIZE + BLOCK_SIZE /\ k * BLOCK_SIZE \in Int
      BY RingConstants
    <3> QED BY <3>1 DEF ElementAt
  <2>5. ElementAt(k + 1, 0) < ElementAt(H, r) <=> k + 1 <= H
    <3>1. k + 1 \in Int /\ H \in Int /\ 0 \in Explicit!Cells /\ r \in Explicit!Cells
      BY <1>2, FirstOfNumber
    <3>2. k + 1 < H => ElementAt(k + 1, 0) < ElementAt(H, r)
      BY <3>1, ElementOrder
    <3>3. k + 1 = H => ElementAt(k + 1, 0) < ElementAt(H, r)
      BY <1>3, <3>1, ElementOrder
    <3>4. H < k + 1 => ElementAt(H, r) < ElementAt(k + 1, 0)
      BY <3>1, ElementOrder
    <3>5. ElementAt(k + 1, 0) \in Int /\ ElementAt(H, r) \in Int
      BY <3>1, NumberOfElement
    <3>6. (k + 1 <= H <=> k + 1 < H \/ k + 1 = H) /\ (~(k + 1 <= H) => H < k + 1)
      OBVIOUS
    <3> QED BY <3>2, <3>3, <3>4, <3>5, <3>6
  <2>6. i < n <=> k + 1 <= H
    BY <1>6, <1>8, <2>1
  <2>7. entry(i).base = ElementAt(k, 0)
    BY <2>3
  <2> QED BY <1>2, <2>1, <2>3, <2>4, <2>5, <2>6, <2>7
<1>10. slotsUsed \in Nat /\ n \in Nat /\ n < slotsUsed /\ n \in 0 .. slotsUsed - 1 /\ Oldest + n = H
  <2>1. PICK o \in Nat, m \in Nat, u \in Nat : o = Oldest /\ m = Entered /\ u = slotsUsed
    BY <1>1, <1>4, <1>6
  <2>2. o = m - u /\ H < m /\ H >= o /\ n = H - o
    BY <1>5, <1>6, <1>8, <2>1
  <2>3. n \in Nat /\ n < u /\ o + n = H /\ n \in 0 .. u - 1
    BY <2>1, <2>2
  <2> QED BY <2>1, <2>3
<1> HIDE DEF L
<1>11. found(n)
  <2>1. ~past(n)
    <3>1. ~(n < n)
      BY <1>10
    <3> QED BY <1>9, <1>10, <3>1
  <2>2. ASSUME NEW j \in 0 .. n - 1 PROVE past(j)
    <3>1. j \in 0 .. slotsUsed - 1 /\ j < n
      BY <1>10
    <3> QED BY <1>9, <3>1
  <2> QED BY <2>1, <2>2
<1>12. ASSUME NEW i \in 0 .. size, found(i) PROVE i = n
  <2>1. i < n => past(i)
    <3>1. i < n => i \in 0 .. slotsUsed - 1
      <4>1. i \in Nat
        OBVIOUS
      <4> QED BY <1>10, <4>1
    <3> QED BY <1>9, <3>1
  <2>2. n < i => n \in 0 .. i - 1
    BY <1>8
  <2>3. ~past(n)
    BY <1>11
  <2>4. ~(i < n) /\ ~(n < i)
    BY <1>12, <2>1, <2>2, <2>3
  <2> QED BY <1>8, <2>4
<1>13. (CHOOSE i \in 0 .. size : found(i)) = n
  <2> HIDE DEF found
  <2> QED BY <1>11, <1>12
<1>14. Explicit!HalfDequeued = entry(CHOOSE i \in 0 .. size : found(i)).block
  BY DEF Explicit!HalfDequeued, L
<1>15. entry(n).block = blk[H]
  <2>1. entry(n) = [base |-> ElementAt(Oldest + n, 0), block |-> blk[Oldest + n]]
    BY <1>9, <1>10
  <2> QED BY <1>10, <2>1
<1> QED BY <1>2, <1>7, <1>13, <1>14, <1>15

\* The destructor destructs what is left.
LEMMA RingDestructs == RingInv => Explicit!DestructsAll
<1> SUFFICES ASSUME RingInv, Explicit!Quiet PROVE Explicit!Destructed = {x \in Explicit!Owned \X Explicit!Cells : e_cells[x[1]][x[2]] # Null}
  BY DEF Explicit!DestructsAll
<1>1. PICK blk \in [Window -> Blocks] : RingTypes /\ Claims /\ LinedUp /\ Arranged(blk)
  BY DEF RingInv, Explicit!Quiet
<1>2. e_headIndex \in Nat /\ e_tailIndex \in Nat /\ e_headIndex <= e_tailIndex
  BY <1>1 DEF RingTypes, ProducerTypes
<1> DEFINE r == e_headIndex % BLOCK_SIZE
           s == e_tailIndex % BLOCK_SIZE
           H == Number(e_headIndex)
<1>3. H \in Nat /\ r \in Explicit!Cells /\ r \in Nat /\ e_headIndex = ElementAt(H, r)
  BY <1>2, ElementOfNumber, NumberOfElement
<1>4. s \in Explicit!Cells /\ s \in Nat /\ Number(e_tailIndex) \in Nat /\ e_tailIndex = ElementAt(Number(e_tailIndex), s)
  BY <1>2, ElementOfNumber, NumberOfElement
<1>5. /\ \A e \in Int : InCell(e) <=> e_headIndex <= e /\ e < e_tailIndex
      /\ \A e \in Int : Finished(e) <=> e < e_headIndex
  BY <1>2 DEF InCell, Finished, Explicit!Quiet, Reading
<1>6. Explicit!HalfDequeued = IF r = 0 THEN Null ELSE blk[H]
  <2>1. CASE r = 0
    BY <2>1 DEF Explicit!HalfDequeued
  <2>2. CASE r # 0
    BY <1>1, <2>2, HalfDequeuedIs
  <2> QED BY <2>1, <2>2
<1>7. r # 0 => H \in Window
  BY <1>1, HalfDequeuedIs
<1>8. Entered = (IF s # 0 THEN Number(e_tailIndex) + 1 ELSE Number(e_tailIndex)) /\ Entered \in Nat
  BY <1>2, <1>4 DEF Entered, Explicit!Quiet
<1> HIDE DEF r, s, H
<1>9. ASSUME NEW k \in Window, NEW j \in Explicit!Cells
      PROVE  <<blk[k], j>> \in Explicit!Destructed <=> e_cells[blk[k]][j] # Null
  <2> DEFINE e == ElementAt(k, j)
  <2>1. /\ blk[k] \in Explicit!Owned /\ blk[k] \in Blocks /\ k \in Nat /\ e_tailBlock = blk[Entered - 1] /\ Entered - 1 \in Window
        /\ \A l \in Window : blk[l] = blk[k] => l = k
    BY <1>1, BlockIs DEF Arranged
  <2>2. e \in Int /\ e \in Nat /\ j \in Nat
    BY <2>1, NumberOfElement
  <2>3. e_cells[blk[k]][j] = (IF InCell(e) THEN e ELSE Null) /\ emptyFlags[blk[k]] \subseteq Explicit!Cells
        /\ \A y \in Explicit!Cells : y \in emptyFlags[blk[k]] <=> Finished(ElementAt(k, y))
    <3>1. emptyFlags[blk[k]] \subseteq Explicit!Cells
      BY <1>1, <2>1 DEF RingTypes, MemoryTypes
    <3> QED BY <1>1, <3>1 DEF Arranged, Contents
  <2> HIDE DEF e
  <2>4. e_cells[blk[k]][j] # Null <=> e_headIndex <= e /\ e < e_tailIndex
    BY <1>5, <2>2, <2>3, RingConstants
  <2>5. <<blk[k], j>> \in Explicit!Destructed <=>
          /\ ~Explicit!is_empty(blk[k])
          /\ blk[k] = Explicit!HalfDequeued => j >= r
          /\ blk[k] = e_tailBlock /\ s # 0 => j < s
    BY <2>1 DEF Explicit!Destructed, r, s
  <2>6. blk[k] = Explicit!HalfDequeued <=> r # 0 /\ k = H
    BY <1>6, <1>7, <2>1, RingConstants
  <2>7. blk[k] = e_tailBlock <=> k = Entered - 1
    BY <2>1
  <2>8. e_headIndex <= e <=> H < k \/ (k = H /\ j >= r)
    <3>1. H < k => e_headIndex < e
      BY <1>3, <2>1, ElementOrder DEF e
    <3>2. k < H => e < e_headIndex
      BY <1>3, <2>1, ElementOrder DEF e
    <3>3. k = H => (e < e_headIndex <=> j < r)
      BY <1>3, <2>1, ElementOrder DEF e
    <3> QED BY <1>2, <1>3, <2>1, <2>2, <3>1, <3>2, <3>3
  <2>9. e < e_tailIndex <=> (k = Entered - 1 /\ s # 0 => j < s)
    <3>1. CASE s # 0
      <4>1. Entered - 1 \in Nat /\ e_tailIndex = ElementAt(Entered - 1, s) /\ k <= Entered - 1
        <5>1. Entered - 1 = Number(e_tailIndex)
          BY <1>4, <1>8, <3>1
        <5>2. k \in Oldest .. Entered - 1
          BY DEF Window
        <5>3. k <= Entered - 1
          BY <1>8, <2>1, <5>2
        <5> QED BY <1>4, <5>1, <5>3
      <4>2. k < Entered - 1 => e < e_tailIndex
        BY <1>4, <2>1, <4>1, ElementOrder DEF e
      <4>3. k = Entered - 1 => (e < e_tailIndex <=> j < s)
        BY <1>4, <2>1, <4>1, ElementOrder DEF e
      <4>4. k < Entered - 1 \/ k = Entered - 1
        BY <2>1, <4>1
      <4>5. k < Entered - 1 => k # Entered - 1
        BY <2>1, <4>1
      <4> QED BY <3>1, <4>2, <4>3, <4>4, <4>5
    <3>2. CASE s = 0
      <4>1. e_tailIndex = ElementAt(Entered, s)
        BY <1>4, <1>8, <3>2
      <4>2. k < Entered
        <5>1. k \in Oldest .. Entered - 1
          BY DEF Window
        <5> QED BY <1>8, <2>1, <5>1
      <4>3. e < e_tailIndex
        BY <1>4, <1>8, <2>1, <4>1, <4>2, ElementOrder DEF e
      <4> QED BY <3>2, <4>3
    <3> QED BY <3>1, <3>2
  <2>10. k >= H => (e_headIndex <= e => ~Explicit!is_empty(blk[k]))
    <3>1. e_headIndex <= e => ~Finished(e)
      BY <1>2, <1>5, <2>2
    <3> QED BY <2>3, <3>1 DEF Explicit!is_empty, e
  <2>11. ~Explicit!is_empty(blk[k]) => k >= H
    <3> SUFFICES ASSUME k < H PROVE Explicit!is_empty(blk[k])
      BY <1>3, <2>1
    <3>1. ASSUME NEW y \in Explicit!Cells PROVE y \in emptyFlags[blk[k]]
      <4>1. ElementAt(k, y) < e_headIndex /\ ElementAt(k, y) \in Int
        BY <1>3, <2>1, ElementOrder, NumberOfElement
      <4> QED BY <1>5, <2>3, <4>1
    <3> QED BY <2>3, <3>1 DEF Explicit!is_empty
  <2>12. (k >= H <=> H < k \/ k = H) /\ (r = 0 => j >= r) /\ (H < k => k # H)
    BY <1>3, <2>1, <2>2
  <2> QED BY <2>4, <2>5, <2>6, <2>7, <2>8, <2>9, <2>10, <2>11, <2>12
<1>10. Explicit!Owned = {blk[k] : k \in Window}
  BY <1>1 DEF Arranged, InRing
<1>11. ASSUME NEW b \in Explicit!Owned, NEW j \in Explicit!Cells PROVE <<b, j>> \in Explicit!Destructed <=> e_cells[b][j] # Null
  BY <1>9, <1>10
<1>12. Explicit!Destructed \subseteq Explicit!Owned \X Explicit!Cells
  BY DEF Explicit!Destructed
<1>13. ASSUME NEW x \in Explicit!Owned \X Explicit!Cells PROVE x \in Explicit!Destructed <=> e_cells[x[1]][x[2]] # Null
  <2>1. x = <<x[1], x[2]>> /\ x[1] \in Explicit!Owned /\ x[2] \in Explicit!Cells
    OBVIOUS
  <2>2. <<x[1], x[2]>> \in Explicit!Destructed <=> e_cells[x[1]][x[2]] # Null
    BY <1>11, <2>1
  <2> QED BY <2>1, <2>2
<1> QED BY <1>12, <1>13

\* The blocks of the ring are those that were entered last, in the order of their numbers;
\* the index has their entries, and leads every consumer to the block of its element.
THEOREM RingInvariance == Explicit!Spec => []RingInv
<1>1. RingInv /\ [Explicit!Next]_(Explicit!vars) => RingInv'
  BY RingStep
<1> QED BY RingInit, <1>1, PTL DEF Explicit!Spec

\* Every dequeue of an explicit producer finds its element and flags it once, the index has
\* room for the ring, and the destructor destructs what is left, for any size of the blocks
\* and of the first index and any number of consumers.
THEOREM FindsInRingCorrect == Explicit!Spec => []FindsInRing
<1>1. RingInv => FindsInRing
  BY RingFinds, RingFlags, RingHasRoom, RingDestructs DEF FindsInRing, Explicit!FindsInRing
<1> QED BY RingInvariance, <1>1, PTL
=============================================================================
