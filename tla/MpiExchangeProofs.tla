-------------------------- MODULE MpiExchangeProofs --------------------------
(***************************************************************************)
(* Theorems about the exchange of messages between nodes, for any nodes,   *)
(* calls and keys.                                                         *)
(*                                                                         *)
(* All messages of a pair of nodes, over all calls, form one stream.  A    *)
(* position in the sender's script gives how much of it has been sent, a   *)
(* position in the receiver's how much has been received, and the wire     *)
(* holds what is between the two.  The number of a message in the stream   *)
(* tells its call, phase and place, so that both sides agree on it.        *)
(***************************************************************************)
EXTENDS MpiExchange, StreamLemmas

-----------------------------------------------------------------------------
(* Sequences of pairs.                                                     *)

\* Flattening a sequence of pairs.
Paired(s, S) ==
    /\ FlattenSeq(s) \in Seq(S) /\ Len(FlattenSeq(s)) = 2 * Len(s)
    /\ \A i \in 1 .. Len(s) : /\ FlattenSeq(s)[2 * i - 1] = s[i][1]
                              /\ FlattenSeq(s)[2 * i] = s[i][2]

\* One pair more at the end.
LEMMA FlattenPairsStep ==
    ASSUME NEW S, NEW d \in Seq(Seq(S)), NEW x \in Seq(S), Len(x) = 2, Paired(d, S)
    PROVE  Paired(Append(d, x), S)
<1> DEFINE t == Append(d, x)
           F == FlattenSeq(d)
<1>1. /\ Len(d) \in Nat /\ Len(t) = Len(d) + 1 /\ t[Len(d) + 1] = x
      /\ \A i \in 1 .. Len(d) : t[i] = d[i]
  BY AppendProperties, LenProperties
<1>2. /\ F \in Seq(S) /\ Len(F) = 2 * Len(d)
      /\ \A i \in 1 .. Len(d) : F[2 * i - 1] = d[i][1] /\ F[2 * i] = d[i][2]
  BY DEF Paired
<1>3. FlattenSeq(t) = F \o x
  BY FlattenAppend
<1> HIDE DEF t, F
<1>4. /\ F \o x \in Seq(S) /\ Len(F \o x) = 2 * Len(d) + 2
      /\ \A i \in 1 .. 2 * Len(d) + 2 :
            (F \o x)[i] = IF i <= 2 * Len(d) THEN F[i] ELSE x[i - 2 * Len(d)]
  <2>1. /\ F \o x \in Seq(S) /\ Len(F \o x) = Len(F) + Len(x)
        /\ \A i \in 1 .. Len(F) + Len(x) : (F \o x)[i] = IF i <= Len(F) THEN F[i] ELSE x[i - Len(F)]
    BY <1>2, ConcatProperties
  <2>2. Len(F) = 2 * Len(d) /\ Len(F) + Len(x) = 2 * Len(d) + 2
    BY <1>2
  <2> QED BY <2>1, <2>2
<1>5. ASSUME NEW i \in 1 .. Len(t)
      PROVE  (F \o x)[2 * i - 1] = t[i][1] /\ (F \o x)[2 * i] = t[i][2]
  <2>1. CASE i = Len(d) + 1
    <3> DEFINE L == 2 * Len(d)
    <3>1. L \in Nat /\ 2 * i - 1 = L + 1 /\ 2 * i = L + 2
      BY <1>1, <2>1
    <3>2. \A k \in 1 .. L + 2 : (F \o x)[k] = IF k <= L THEN F[k] ELSE x[k - L]
      BY <1>4
    <3>5. L \in Nat
      BY <3>1
    <3> HIDE DEF L
    <3>6. L + 1 \in 1 .. L + 2 /\ L + 2 \in 1 .. L + 2 /\ ~(L + 1 <= L) /\ ~(L + 2 <= L)
      BY <3>5
    <3>7. PICK k \in 1 .. L + 2 : k = L + 1 /\ ~(k <= L) /\ k - L = 1
      BY <3>5, <3>6
    <3>8. PICK m \in 1 .. L + 2 : m = L + 2 /\ ~(m <= L) /\ m - L = 2
      BY <3>5, <3>6
    <3>9. (F \o x)[k] = x[k - L] /\ (F \o x)[m] = x[m - L]
      BY <3>2, <3>7, <3>8
    <3>3. (F \o x)[L + 1] = x[1] /\ (F \o x)[L + 2] = x[2]
      BY <3>7, <3>8, <3>9
    <3> QED BY <1>1, <2>1, <3>1, <3>3
  <2>2. CASE i # Len(d) + 1
    <3>1. i \in 1 .. Len(d)
      BY <1>1, <2>2
    <3>2. /\ 2 * i - 1 \in 1 .. 2 * Len(d) + 2 /\ 2 * i - 1 <= 2 * Len(d)
          /\ 2 * i \in 1 .. 2 * Len(d) + 2 /\ 2 * i <= 2 * Len(d)
      BY <1>1, <3>1
    <3> QED BY <1>1, <1>2, <1>4, <3>1, <3>2
  <2> QED BY <2>1, <2>2
<1>6. 2 * Len(d) + 2 = 2 * Len(t)
  BY <1>1
<1>7. Paired(t, S)
  BY <1>3, <1>4, <1>5, <1>6 DEF Paired
<1> QED BY <1>7 DEF t

\* The elements of the pairs follow each other.
LEMMA FlattenPairs ==
    ASSUME NEW S, NEW s \in Seq(Seq(S)), \A i \in 1 .. Len(s) : Len(s[i]) = 2
    PROVE  Paired(s, S)
<1> DEFINE Pairs(t) == \A i \in 1 .. Len(t) : Len(t[i]) = 2
           T == {n \in Nat : \E t \in Seq(Seq(S)) : Pairs(t) /\ Len(t) = n /\ ~Paired(t, S)}
<1>1. ASSUME NEW n \in T PROVE n - 1 \in T
  <2>1. PICK t \in Seq(Seq(S)) : Pairs(t) /\ Len(t) = n /\ ~Paired(t, S)
    BY <1>1
  <2> HIDE DEF T
  <2>2. t # <<>>
    <3>1. <<>> \in Seq(S) /\ Len(<<>>) = 0 /\ 2 * 0 = 0 /\ 1 .. 0 = {}
      BY EmptySeq
    <3>2. Paired(<<>>, S)
      BY <3>1, FlattenEmpty, Zenon DEF Paired
    <3> QED BY <2>1, <3>2
  <2>3. PICK d \in Seq(Seq(S)), x \in Seq(S) : t = Append(d, x)
    BY <2>1, <2>2, SequenceEmptyOrAppend
  <2>4. /\ Len(d) \in Nat /\ Len(t) = Len(d) + 1 /\ Len(d) = n - 1
        /\ t[Len(d) + 1] = x /\ \A i \in 1 .. Len(d) : t[i] = d[i]
    BY <2>1, <2>3, AppendProperties, LenProperties
  <2>5. Pairs(d) /\ Len(x) = 2
    <3>1. \A i \in 1 .. Len(d) : i \in 1 .. Len(t)
      BY <2>4
    <3>2. Len(d) + 1 \in 1 .. Len(t)
      BY <2>4
    <3> QED BY <2>1, <2>4, <3>1, <3>2
  <2> HIDE DEF Pairs
  <2>6. ~Paired(d, S)
    BY <2>1, <2>3, <2>5, FlattenPairsStep
  <2> QED BY <2>3, <2>4, <2>5, <2>6 DEF T
<1>2. T = {}
  <2> HIDE DEF T
  <2>1. T \in SUBSET Nat
    BY DEF T
  <2> QED BY <1>1, <2>1, Descent
<1>3. Len(s) \in Nat
  BY LenProperties
<1> QED BY <1>2, <1>3

\* Flattening a sequence of single values.
Singles(h) == [i \in 1 .. Len(h) |-> <<h[i]>>]

\* As many single values as there are elements.
LEMMA SinglesType ==
    ASSUME NEW S, NEW h \in Seq(S)
    PROVE  Singles(h) \in Seq(Seq(S)) /\ Len(Singles(h)) = Len(h)
<1>1. Len(h) \in Nat /\ \A i \in 1 .. Len(h) : <<h[i]>> \in Seq(S)
  BY ElementOfSeq, LenProperties
<1> QED BY <1>1, IsASeq DEF Singles

\* One value more at the end.
LEMMA FlattenSinglesStep ==
    ASSUME NEW S, NEW d \in Seq(S), NEW x \in S, FlattenSeq(Singles(d)) = d
    PROVE  FlattenSeq(Singles(Append(d, x))) = Append(d, x)
<1> DEFINE h == Append(d, x)
<1>1. /\ Len(d) \in Nat /\ h \in Seq(S) /\ Len(h) = Len(d) + 1 /\ h[Len(d) + 1] = x
      /\ \A i \in 1 .. Len(d) : h[i] = d[i]
  BY AppendProperties, LenProperties
<1>2. h = d \o <<x>>
  BY AppendIsConcat
<1> HIDE DEF h
<1>3. /\ Singles(d) \in Seq(Seq(S)) /\ Len(Singles(d)) = Len(d) /\ <<x>> \in Seq(S)
      /\ Singles(h) \in Seq(Seq(S)) /\ Len(Singles(h)) = Len(h)
  BY <1>1, SinglesType
<1>4. Singles(h) = Append(Singles(d), <<x>>)
  <2>1. /\ Append(Singles(d), <<x>>) \in Seq(Seq(S))
        /\ Len(Append(Singles(d), <<x>>)) = Len(d) + 1
        /\ \A i \in 1 .. Len(d) : Append(Singles(d), <<x>>)[i] = Singles(d)[i]
        /\ Append(Singles(d), <<x>>)[Len(d) + 1] = <<x>>
    BY <1>3, AppendProperties
  <2>2. \A i \in 1 .. Len(d) : Singles(d)[i] = <<d[i]>> /\ Singles(h)[i] = <<h[i]>>
    BY <1>1 DEF Singles
  <2>3. Singles(h)[Len(d) + 1] = <<x>>
    BY <1>1 DEF Singles
  <2>4. \A i \in 1 .. Len(h) : Singles(h)[i] = Append(Singles(d), <<x>>)[i]
    <3> SUFFICES ASSUME NEW i \in 1 .. Len(h) PROVE Singles(h)[i] = Append(Singles(d), <<x>>)[i]
      OBVIOUS
    <3>1. CASE i = Len(d) + 1
      BY <2>1, <2>3, <3>1
    <3>2. CASE i \in 1 .. Len(d)
      BY <1>1, <2>1, <2>2, <3>2
    <3>3. Len(d) \in Nat /\ Len(h) = Len(d) + 1
      BY <1>1
    <3>4. i = Len(d) + 1 \/ i \in 1 .. Len(d)
      BY <3>3
    <3> QED BY <3>1, <3>2, <3>4
  <2> QED BY <1>1, <1>3, <2>1, <2>4, SeqEqual
<1>5. FlattenSeq(Singles(h)) = d \o <<x>>
  BY <1>3, <1>4, FlattenAppend
<1> QED BY <1>2, <1>5 DEF h

\* Single values flatten to the sequence of them.
LEMMA FlattenSingles ==
    ASSUME NEW S, NEW g \in Seq(S)
    PROVE  FlattenSeq(Singles(g)) = g
<1> DEFINE T == {n \in Nat : \E h \in Seq(S) : Len(h) = n /\ FlattenSeq(Singles(h)) # h}
<1>1. ASSUME NEW n \in T PROVE n - 1 \in T
  <2>1. PICK h \in Seq(S) : Len(h) = n /\ FlattenSeq(Singles(h)) # h
    BY <1>1
  <2> HIDE DEF T
  <2>2. h # <<>>
    <3>1. Singles(<<>>) = <<>>
      BY DEF Singles
    <3> QED BY <2>1, <3>1, FlattenEmpty
  <2>3. PICK d \in Seq(S), x \in S : h = Append(d, x)
    BY <2>1, <2>2, SequenceEmptyOrAppend
  <2>4. Len(d) \in Nat /\ Len(d) = n - 1
    BY <2>1, <2>3, AppendProperties, LenProperties
  <2>5. FlattenSeq(Singles(d)) # d
    BY <2>1, <2>3, FlattenSinglesStep
  <2> QED BY <2>3, <2>4, <2>5 DEF T
<1>2. T = {}
  <2> HIDE DEF T
  <2>1. T \in SUBSET Nat
    BY DEF T
  <2> QED BY <1>1, <2>1, Descent
<1>3. Len(g) \in Nat
  BY LenProperties
<1> QED BY <1>2, <1>3

-----------------------------------------------------------------------------
(* Sets of contributions and of keys.                                      *)

\* Sequence v lists the elements of C, each once.
Lists(v, C) ==
    /\ v \in Seq(C)
    /\ \A x \in C : \E i \in 1 .. Len(v) : v[i] = x
    /\ \A i, j \in 1 .. Len(v) : v[i] = v[j] => i = j

\* A list of contributions is what the property Complete asks for.
LEMMA ListsHolds == ASSUME NEW C, NEW v, Lists(v, C) PROVE Gathers(v, C)
<1>1. /\ v \in [1 .. Len(v) -> C] /\ Len(v) \in Nat /\ DOMAIN v = 1 .. Len(v)
      /\ \A x \in C : \E i \in 1 .. Len(v) : v[i] = x
      /\ \A i, j \in 1 .. Len(v) : v[i] = v[j] => i = j
  BY LenProperties DEF Lists
<1>2. v \in Bijection(1 .. Len(v), C)
  BY <1>1 DEF Bijection, Injection, Surjection, IsInjective
<1>3. Cardinality(C) = Len(v)
  BY <1>1, <1>2, FS_CountingElements DEF ExistsBijection
<1>4. ToSet(v) = C
  BY <1>1 DEF ToSet
<1> QED BY <1>3, <1>4 DEF Gathers

\* Two lists of different elements make a list of all of them.
LEMMA ListsConcat ==
    ASSUME NEW A, NEW B, A \cap B = {}, NEW a, Lists(a, A), NEW b, Lists(b, B)
    PROVE  Lists(a \o b, A \cup B)
<1>1. a \in Seq(A) /\ b \in Seq(B)
  BY DEF Lists
<1>2. /\ Len(a) \in Nat /\ \A i \in 1 .. Len(a) : a[i] \in A
      /\ Len(b) \in Nat /\ \A i \in 1 .. Len(b) : b[i] \in B
  BY <1>1, ElementOfSeq, LenProperties
<1>3. a \in Seq(A \cup B) /\ b \in Seq(A \cup B)
  BY <1>1, SeqMonotonic
<1>4. /\ a \o b \in Seq(A \cup B) /\ Len(a \o b) = Len(a) + Len(b)
      /\ \A i \in 1 .. Len(a) + Len(b) : (a \o b)[i] = IF i <= Len(a) THEN a[i] ELSE b[i - Len(a)]
  BY <1>3, ConcatProperties
<1>5. ASSUME NEW x \in A \cup B PROVE \E i \in 1 .. Len(a \o b) : (a \o b)[i] = x
  <2>1. CASE x \in A
    <3>1. PICK i \in 1 .. Len(a) : a[i] = x
      BY <2>1 DEF Lists
    <3>2. i \in 1 .. Len(a) + Len(b) /\ i <= Len(a)
      BY <1>2, <3>1
    <3> QED BY <1>4, <3>1, <3>2
  <2>2. CASE x \in B
    <3>1. PICK i \in 1 .. Len(b) : b[i] = x
      BY <2>2 DEF Lists
    <3>3. PICK k \in Nat : k = Len(a)
      BY <1>2
    <3>4. PICK l \in Nat : l = Len(b)
      BY <1>2
    <3>5. i \in 1 .. l
      BY <3>1, <3>4
    <3>6. PICK m \in 1 .. k + l : m = k + i /\ ~(m <= k) /\ m - k = i
      BY <3>5
    <3>2. m \in 1 .. Len(a) + Len(b) /\ m = Len(a) + i /\ ~(m <= Len(a)) /\ m - Len(a) = i
      BY <3>3, <3>4, <3>6
    <3> QED BY <1>4, <3>1, <3>2
  <2> QED BY <2>1, <2>2
<1>6. ASSUME NEW i \in 1 .. Len(a \o b), NEW j \in 1 .. Len(a \o b), (a \o b)[i] = (a \o b)[j]
      PROVE  i = j
  <2>1. \A m \in 1 .. Len(a) + Len(b) :
            \/ m \in 1 .. Len(a) /\ (a \o b)[m] = a[m] /\ (a \o b)[m] \in A
            \/ m - Len(a) \in 1 .. Len(b) /\ (a \o b)[m] = b[m - Len(a)] /\ (a \o b)[m] \in B
    BY <1>2, <1>4
  <2>2. CASE i \in 1 .. Len(a) /\ j \in 1 .. Len(a) /\ a[i] = a[j]
    BY <2>2 DEF Lists
  <2>3. CASE i - Len(a) \in 1 .. Len(b) /\ j - Len(a) \in 1 .. Len(b) /\ b[i - Len(a)] = b[j - Len(a)]
    <3>1. i - Len(a) = j - Len(a)
      BY <2>3 DEF Lists
    <3> QED BY <1>2, <1>4, <3>1
  <2> QED BY <1>4, <1>6, <2>1, <2>2, <2>3
<1> QED BY <1>4, <1>5, <1>6 DEF Lists

\* What the nodes emit, as the elements of a type.
Contribution == [node : Nat, call : Nat, key : Nat, value : Nat]

\* The vectors of values vals hold the contributions C, each once.
Carries(vals, C) == vals \in Seq(Seq(Contribution)) /\ Lists(FlattenSeq(vals), C)

\* Vectors that hold different contributions hold all of them together.
LEMMA CarriesConcat ==
    ASSUME NEW A, NEW B, A \cap B = {}, NEW a, Carries(a, A), NEW b, Carries(b, B)
    PROVE  Carries(a \o b, A \cup B)
<1>1. a \in Seq(Seq(Contribution)) /\ b \in Seq(Seq(Contribution))
  BY DEF Carries
<1>2. a \o b \in Seq(Seq(Contribution)) /\ FlattenSeq(a \o b) = FlattenSeq(a) \o FlattenSeq(b)
  BY <1>1, ConcatProperties, FlattenConcat
<1>3. Lists(FlattenSeq(a), A) /\ Lists(FlattenSeq(b), B)
  BY DEF Carries
<1>4. Lists(FlattenSeq(a) \o FlattenSeq(b), A \cup B)
  BY <1>3, ListsConcat
<1> QED BY <1>2, <1>4 DEF Carries

\* A reducer keeps what the vector holds.
LEMMA CarriesReduced ==
    ASSUME NEW C, NEW vals, Carries(vals, C)
    PROVE  /\ Carries(<<FlattenSeq(vals)>>, C)
           /\ FlattenSeq(vals) \in Seq(Contribution) /\ Lists(FlattenSeq(vals), C)
<1>1. vals \in Seq(Seq(Contribution)) /\ Lists(FlattenSeq(vals), C)
  BY DEF Carries
<1>2. FlattenSeq(vals) \in Seq(Contribution)
  BY <1>1, FlattenAppend, EmptySeq
<1>3. FlattenSeq(<<FlattenSeq(vals)>>) = FlattenSeq(vals) /\ <<FlattenSeq(vals)>> \in Seq(Seq(Contribution))
  BY <1>2, FlattenOne
<1> QED BY <1>1, <1>2, <1>3 DEF Carries

\* A single value that lists contributions.
LEMMA CarriesOne ==
    ASSUME NEW C, NEW v \in Seq(Contribution), Lists(v, C)
    PROVE  Carries(<<v>>, C) /\ FlattenSeq(<<v>>) = v
<1>1. FlattenSeq(<<v>>) = v /\ <<v>> \in Seq(Seq(Contribution))
  BY FlattenOne
<1> QED BY <1>1 DEF Carries

\* What is a contribution of the nodes.
LEMMA ContributionsOf ==
    ASSUME NEW from, NEW c, NEW k
    PROVE  \A x : x \in Contributions(from, c, k) <=>
               \E n \in from : \E i \in 1 .. Emits[n][k] : x = [node |-> n, call |-> c, key |-> k, value |-> i]
BY DEF Contributions

\* Different nodes have different contributions.
LEMMA ContributionsUnion ==
    ASSUME NEW F, NEW G, NEW c, NEW k
    PROVE  /\ Contributions(F \cup G, c, k) = Contributions(F, c, k) \cup Contributions(G, c, k)
           /\ F \cap G = {} => Contributions(F, c, k) \cap Contributions(G, c, k) = {}
<1>1. Contributions(F \cup G, c, k) = Contributions(F, c, k) \cup Contributions(G, c, k)
  BY DEF Contributions
<1>2. ASSUME F \cap G = {}, NEW x, x \in Contributions(F, c, k), x \in Contributions(G, c, k)
      PROVE  FALSE
  <2>1. PICK n \in F : \E i \in 1 .. Emits[n][k] : x = [node |-> n, call |-> c, key |-> k, value |-> i]
    BY <1>2, ContributionsOf
  <2>2. PICK m \in G : \E i \in 1 .. Emits[m][k] : x = [node |-> m, call |-> c, key |-> k, value |-> i]
    BY <1>2, ContributionsOf
  <2>3. x.node = n /\ x.node = m
    BY <2>1, <2>2
  <2> QED BY <1>2, <2>1, <2>2, <2>3
<1> QED BY <1>1, <1>2

\* The values a node collects are its contributions.
LEMMA CarriesCollected ==
    ASSUME NEW n \in Nodes, NEW c \in Nat, NEW k \in Keys
    PROVE  /\ Carries(Collected(n, c)[k], Contributions({n}, c, k))
           /\ Len(Collected(n, c)[k]) = Emits[n][k]
<1> DEFINE g == [i \in 1 .. Emits[n][k] |-> [node |-> n, call |-> c, key |-> k, value |-> i]]
<1>1. Emits[n][k] \in Nat /\ n \in Nat /\ k \in Nat
  BY ExchangeAssumption DEF Nodes, Keys
<1>2. \A i \in 1 .. Emits[n][k] : [node |-> n, call |-> c, key |-> k, value |-> i] \in Contribution
  BY <1>1 DEF Contribution
<1>3. g \in Seq(Contribution) /\ Len(g) = Emits[n][k]
  BY <1>1, <1>2, IsASeq
<1>4. Collected(n, c)[k] = Singles(g)
  BY <1>1 DEF Collected, Singles
<1>5. \A i \in 1 .. Len(g) : g[i] = [node |-> n, call |-> c, key |-> k, value |-> i]
  BY <1>3
<1>6. Lists(g, Contributions({n}, c, k))
  <2>0. Len(g) \in Nat /\ Len(g) = Emits[n][k]
    BY <1>1, <1>3
  <2> HIDE DEF g
  <2>1. \A i \in 1 .. Len(g) : g[i] \in Contributions({n}, c, k)
    BY <1>5, <2>0, ContributionsOf
  <2>2. g \in Seq(Contributions({n}, c, k))
    <3>1. g \in [1 .. Len(g) -> Contribution]
      BY <1>3, LenProperties
    <3>2. g = [i \in 1 .. Len(g) |-> g[i]]
      BY <3>1
    <3>3. [i \in 1 .. Len(g) |-> g[i]] \in Seq(Contributions({n}, c, k))
      BY <2>0, <2>1, IsASeq
    <3> QED BY <3>2, <3>3
  <2>3. \A i, j \in 1 .. Len(g) : g[i] = g[j] => i = j
    <3>1. ASSUME NEW i \in 1 .. Len(g) PROVE g[i].value = i
      <4>1. g[i] = [node |-> n, call |-> c, key |-> k, value |-> i]
        BY <1>5, <3>1
      <4> QED BY <4>1
    <3> QED BY <3>1
  <2>4. \A x \in Contributions({n}, c, k) : \E i \in 1 .. Len(g) : g[i] = x
    BY <1>5, <2>0, ContributionsOf
  <2> QED BY <2>2, <2>3, <2>4 DEF Lists
<1> HIDE DEF g
<1>7. FlattenSeq(Singles(g)) = g /\ Singles(g) \in Seq(Seq(Contribution)) /\ Len(Singles(g)) = Len(g)
  BY <1>3, FlattenSingles, SinglesType
<1> QED BY <1>3, <1>4, <1>6, <1>7 DEF Carries

-----------------------------------------------------------------------------
(* The keys.                                                               *)

\* Keys are numbers.
LEMMA KeysAreNumbers == Keys \subseteq Nat
BY DEF Keys

\* There are finitely many keys.
LEMMA KeysFinite ==
    ASSUME NEW S \in SUBSET Keys
    PROVE  IsFiniteSet(S) /\ Cardinality(S) \in Nat /\ Cardinality(S) <= pre_size
<1>1. IsFiniteSet(Keys) /\ Cardinality(Keys) = pre_size
  <2>1. pre_size \in Nat /\ 0 \in Int /\ pre_size - 1 \in Int
    BY ExchangeAssumption
  <2>2. Cardinality(0 .. pre_size - 1) = IF 0 > pre_size - 1 THEN 0 ELSE pre_size - 1 - 0 + 1
    BY <2>1, FS_Interval
  <2>3. (IF 0 > pre_size - 1 THEN 0 ELSE pre_size - 1 - 0 + 1) = pre_size
    BY <2>1
  <2> QED BY <2>1, <2>2, <2>3, FS_Interval DEF Keys
<1>2. IsFiniteSet(S) /\ Cardinality(S) <= Cardinality(Keys)
  BY <1>1, FS_Subset
<1> QED BY <1>1, <1>2, FS_CardinalityType

\* Ascending enumerates a set of keys.
LEMMA AscendingIs ==
    ASSUME NEW S \in SUBSET Keys
    PROVE  /\ Ascending(S) \in Seq(S) /\ Ascending(S) \in Seq(Keys)
           /\ Len(Ascending(S)) = Cardinality(S) /\ Cardinality(S) \in Nat
           /\ Cardinality(S) <= pre_size
           /\ \A i \in 1 .. Cardinality(S) : Ascending(S)[i] \in S
           /\ \A i, j \in 1 .. Cardinality(S) : Ascending(S)[i] = Ascending(S)[j] => i = j
           /\ \A k \in S : \E i \in 1 .. Cardinality(S) : Ascending(S)[i] = k
<1> DEFINE s == Ascending(S)
           n == Cardinality(S)
<1>1. n \in Nat /\ n <= pre_size /\ IsFiniteSet(S)
  BY KeysFinite
<1>2. Enumerates(S, s)
  <2>1. PICK t : Enumerates(S, t)
    BY KeysFinite, KeysAreNumbers, EnumeratesExists
  <2> QED BY <2>1 DEF Enumerates, Ascending
<1> HIDE DEF s
<1>3. /\ s \in Seq(S) /\ Len(s) = n
      /\ \A i \in 1 .. n : s[i] \in S
      /\ \A i, j \in 1 .. n : s[i] = s[j] => i = j
      /\ \A k \in S : \E i \in 1 .. n : s[i] = k
  BY <1>1, <1>2, KeysAreNumbers, EnumeratesIs
<1> HIDE DEF n
<1>4. s \in Seq(Keys)
  BY <1>3, SeqMonotonic
<1> QED BY <1>1, <1>3, <1>4 DEF s, n

-----------------------------------------------------------------------------
(* Merging and reducing maps.                                              *)

Maps == UNION {[D -> Seq(Seq(Contribution))] : D \in SUBSET Keys}

\* What a map is.
LEMMA MapsType ==
    ASSUME NEW map \in Maps
    PROVE  /\ DOMAIN map \in SUBSET Keys
           /\ map = [k \in DOMAIN map |-> map[k]]
           /\ \A k \in DOMAIN map : map[k] \in Seq(Seq(Contribution))
           /\ \A k : Values(map, k) \in Seq(Seq(Contribution))
<1>1. PICK D \in SUBSET Keys : map \in [D -> Seq(Seq(Contribution))]
  BY DEF Maps
<1>2. DOMAIN map \in SUBSET Keys /\ map = [k \in DOMAIN map |-> map[k]]
      /\ \A k \in DOMAIN map : map[k] \in Seq(Seq(Contribution))
  BY <1>1
<1> QED BY <1>2, EmptySeq DEF Values

\* MergeMaps appends the vectors of the second map key by key.
LEMMA MergeType ==
    ASSUME NEW a \in Maps, NEW b \in Maps
    PROVE  /\ MergeMaps(a, b) \in Maps
           /\ DOMAIN MergeMaps(a, b) = DOMAIN a \cup DOMAIN b
           /\ \A k : Values(MergeMaps(a, b), k) = Values(a, k) \o Values(b, k)
<1> DEFINE D == DOMAIN a \cup DOMAIN b
<1>1. D \in SUBSET Keys
  BY MapsType
<1>2. \A k : Values(a, k) \in Seq(Seq(Contribution)) /\ Values(b, k) \in Seq(Seq(Contribution))
  BY MapsType
<1>3. \A k \in D : Values(a, k) \o Values(b, k) \in Seq(Seq(Contribution))
  BY <1>2, ConcatProperties
<1>4. MergeMaps(a, b) = [k \in D |-> Values(a, k) \o Values(b, k)]
  BY DEF MergeMaps
<1> HIDE DEF D
<1>5. MergeMaps(a, b) \in [D -> Seq(Seq(Contribution))]
  BY <1>3, <1>4
<1>6. MergeMaps(a, b) \in Maps /\ DOMAIN MergeMaps(a, b) = D
  BY <1>1, <1>5 DEF Maps
<1>7. ASSUME NEW k PROVE Values(MergeMaps(a, b), k) = Values(a, k) \o Values(b, k)
  <2>1. CASE k \in D
    BY <1>4, <1>6, <2>1 DEF Values
  <2>2. CASE k \notin D
    <3>1. Values(a, k) = <<>> /\ Values(b, k) = <<>> /\ Values(MergeMaps(a, b), k) = <<>>
      BY <1>6, <2>2 DEF Values, D
    <3> QED BY <3>1
  <2> QED BY <2>1, <2>2
<1> QED BY <1>6, <1>7 DEF D

\* The map has domain D, and for each key every value of the nodes in F once.
Covers(map, D, F, c) ==
    /\ map \in [D -> Seq(Seq(Contribution))]
    /\ \A k \in D : Carries(map[k], Contributions(F, c, k))

\* So reduced to one value for each key.
Answer(map, D, F, c) == Covers(map, D, F, c) /\ \A k \in D : Len(map[k]) = 1

\* Such a map is a map.
LEMMA CoversType ==
    ASSUME NEW D \in SUBSET Keys, NEW map, NEW F, NEW c, Covers(map, D, F, c)
    PROVE  map \in Maps /\ DOMAIN map = D
BY DEF Covers, Maps

\* The reducer loses nothing and leaves one value for each key.
LEMMA ReducedAnswer ==
    ASSUME NEW D \in SUBSET Keys, NEW map, NEW F, NEW c, Covers(map, D, F, c)
    PROVE  Answer(Reduced(map), D, F, c)
<1>1. DOMAIN map = D /\ \A k \in D : Carries(map[k], Contributions(F, c, k))
  BY DEF Covers
<1>2. Reduced(map) = [k \in D |-> <<FlattenSeq(map[k])>>]
  BY <1>1 DEF Reduced
<1>3. \A k \in D : /\ Carries(<<FlattenSeq(map[k])>>, Contributions(F, c, k))
                   /\ FlattenSeq(map[k]) \in Seq(Contribution)
  BY <1>1, CarriesReduced
<1>4. ASSUME NEW k \in D
      PROVE  <<FlattenSeq(map[k])>> \in Seq(Seq(Contribution)) /\ Len(<<FlattenSeq(map[k])>>) = 1
  BY <1>3, FlattenOne DEF Carries
<1> QED BY <1>2, <1>3, <1>4 DEF Answer, Covers

\* The one value of an answer.
LEMMA AnswerValue ==
    ASSUME NEW D, NEW map, NEW F, NEW c, Answer(map, D, F, c), NEW k \in D
    PROVE  /\ map[k] = <<map[k][1]>> /\ map[k][1] \in Seq(Contribution)
           /\ Head(map[k]) = map[k][1]
           /\ Lists(map[k][1], Contributions(F, c, k))
<1>1. map[k] \in Seq(Seq(Contribution)) /\ Len(map[k]) = 1 /\ Lists(FlattenSeq(map[k]), Contributions(F, c, k))
  BY DEF Answer, Covers, Carries
<1>2. map[k][1] \in Seq(Contribution)
  BY <1>1, ElementOfSeq
<1>3. map[k] = <<map[k][1]>>
  BY <1>1
<1>4. FlattenSeq(map[k]) = map[k][1]
  BY <1>2, <1>3, FlattenOne
<1> QED BY <1>1, <1>2, <1>3, <1>4

\* The maps of different nodes, merged, have the values of all of them.
LEMMA MergeCovers ==
    ASSUME NEW D \in SUBSET Keys, NEW F, NEW G, F \cap G = {}, NEW c,
           NEW a, Covers(a, D, F, c), NEW b, Covers(b, D, G, c)
    PROVE  Covers(MergeMaps(a, b), D, F \cup G, c)
<1>1. a \in Maps /\ b \in Maps /\ DOMAIN a = D /\ DOMAIN b = D
  BY CoversType
<1>2. MergeMaps(a, b) \in Maps /\ DOMAIN MergeMaps(a, b) = D
  BY <1>1, MergeType
<1>3. \A k \in D : MergeMaps(a, b)[k] = a[k] \o b[k]
  BY <1>1 DEF MergeMaps, Values
<1>4. ASSUME NEW k \in D PROVE Carries(MergeMaps(a, b)[k], Contributions(F \cup G, c, k))
  <2>1. Carries(a[k], Contributions(F, c, k)) /\ Carries(b[k], Contributions(G, c, k))
    BY DEF Covers
  <2>2. /\ Contributions(F \cup G, c, k) = Contributions(F, c, k) \cup Contributions(G, c, k)
        /\ Contributions(F, c, k) \cap Contributions(G, c, k) = {}
    BY ContributionsUnion
  <2>3. Carries(a[k] \o b[k], Contributions(F, c, k) \cup Contributions(G, c, k))
    BY <2>1, <2>2, CarriesConcat
  <2> QED BY <1>3, <2>2, <2>3
<1>5. MergeMaps(a, b) \in [D -> Seq(Seq(Contribution))]
  BY <1>2, MapsType
<1> QED BY <1>4, <1>5 DEF Covers

-----------------------------------------------------------------------------
\* What the recursive function of MergeAll computes.
Merges(maps, n, f) == f = [i \in 0 .. n |-> IF i = 0 THEN Empty ELSE MergeMaps(f[i - 1], maps[i])]

\* The function goes on for one map more.
LEMMA MergesStep ==
    ASSUME NEW maps, NEW n \in Nat, n # 0, NEW f, Merges(maps, n - 1, f)
    PROVE  \E g : Merges(maps, n, g)
<1> DEFINE g == [i \in 0 .. n |-> IF i = n THEN MergeMaps(f[n - 1], maps[n]) ELSE f[i]]
<1>1. \A i \in 0 .. n - 1 : f[i] = IF i = 0 THEN Empty ELSE MergeMaps(f[i - 1], maps[i])
  BY DEF Merges
<1>2. ASSUME NEW i \in 0 .. n PROVE g[i] = IF i = 0 THEN Empty ELSE MergeMaps(g[i - 1], maps[i])
  <2>1. CASE i = n
    <3>1. n - 1 \in 0 .. n /\ n - 1 # n
      OBVIOUS
    <3>2. g[n - 1] = f[n - 1]
      BY <3>1
    <3> QED BY <2>1, <3>2
  <2>2. CASE i # n /\ i = 0
    BY <1>1, <2>2
  <2>3. CASE i # n /\ i # 0
    <3>1. i \in 0 .. n - 1 /\ i - 1 \in 0 .. n /\ i - 1 # n
      BY <2>3
    <3>2. g[i] = f[i] /\ g[i - 1] = f[i - 1]
      BY <2>3, <3>1
    <3> HIDE DEF g
    <3> QED BY <1>1, <2>3, <3>1, <3>2
  <2> QED BY <2>1, <2>2, <2>3
<1>3. g = [i \in 0 .. n |-> g[i]]
  OBVIOUS
<1> HIDE DEF g
<1>4. g = [i \in 0 .. n |-> IF i = 0 THEN Empty ELSE MergeMaps(g[i - 1], maps[i])]
  BY <1>2, <1>3
<1> QED BY <1>4 DEF Merges

\* There is such a function.
LEMMA MergesExists ==
    ASSUME NEW maps, NEW n \in Nat
    PROVE  \E f : Merges(maps, n, f)
<1> DEFINE T == {m \in Nat : ~\E f : Merges(maps, m, f)}
<1>1. ASSUME NEW m \in T PROVE m - 1 \in T
  <2>1. m \in Nat /\ ~\E f : Merges(maps, m, f)
    BY <1>1
  <2>2. m # 0
    <3>1. Merges(maps, 0, [i \in 0 .. 0 |-> Empty])
      BY DEF Merges
    <3> QED BY <2>1, <3>1
  <2>3. ~\E f : Merges(maps, m - 1, f)
    BY <2>1, <2>2, MergesStep
  <2> QED BY <2>1, <2>2, <2>3
<1>2. T = {}
  <2> HIDE DEF T
  <2>1. T \in SUBSET Nat
    BY DEF T
  <2> QED BY <1>1, <2>1, Descent
<1> QED BY <1>2

\* MergeAll merges the maps one after the other, from the empty map on.
LEMMA MergeAllIs ==
    ASSUME NEW maps, Len(maps) \in Nat
    PROVE  \E f : /\ MergeAll(maps) = f[Len(maps)] /\ f[0] = Empty
                  /\ \A i \in 1 .. Len(maps) : f[i] = MergeMaps(f[i - 1], maps[i])
<1> DEFINE f == CHOOSE g : Merges(maps, Len(maps), g)
<1>1. Merges(maps, Len(maps), f)
  <2>1. PICK g : Merges(maps, Len(maps), g)
    BY MergesExists
  <2> QED BY <2>1
<1>2. MergeAll(maps) = f[Len(maps)]
  BY DEF MergeAll, Merges
<1> HIDE DEF f
<1>3. \A i \in 0 .. Len(maps) : f[i] = IF i = 0 THEN Empty ELSE MergeMaps(f[i - 1], maps[i])
  BY <1>1 DEF Merges
<1> QED BY <1>2, <1>3

\* The empty map has no values.
LEMMA EmptyType == Empty \in Maps /\ DOMAIN Empty = {} /\ \A k : Values(Empty, k) = <<>>
<1>1. Empty \in [{} -> Seq(Seq(Contribution))] /\ DOMAIN Empty = {}
  BY DEF Empty
<1> QED BY <1>1 DEF Maps, Values

\* The members of the sets X[i].
Among(X, A) == UNION {X[i] : i \in A}

\* What is among the sets.
LEMMA AmongIs ==
    ASSUME NEW X, NEW A
    PROVE  \A z : z \in Among(X, A) <=> \E i \in A : z \in X[i]
BY DEF Among

\* One set more, apart from the others.
LEMMA AmongStep ==
    ASSUME NEW X, NEW A, NEW b, \A i \in A : X[i] \cap X[b] = {}
    PROVE  Among(X, A \cup {b}) = Among(X, A) \cup X[b] /\ Among(X, A) \cap X[b] = {}
<1>1. \A z : z \in Among(X, A \cup {b}) <=> z \in Among(X, A) \/ z \in X[b]
  BY AmongIs
<1>2. \A z : ~(z \in Among(X, A) /\ z \in X[b])
  BY AmongIs
<1> QED BY <1>1, <1>2

\* For a key, map i holds X[i]; no contribution is in two of the maps.
LEMMA MergeAllCarries ==
    ASSUME NEW maps \in Seq(Maps), NEW k, NEW X,
           \A i \in 1 .. Len(maps) : Carries(Values(maps[i], k), X[i]),
           \A i, j \in 1 .. Len(maps) : i # j => X[i] \cap X[j] = {}
    PROVE  /\ MergeAll(maps) \in Maps
           /\ DOMAIN MergeAll(maps) = UNION {DOMAIN maps[i] : i \in 1 .. Len(maps)}
           /\ Carries(Values(MergeAll(maps), k), Among(X, 1 .. Len(maps)))
<1>1. Len(maps) \in Nat /\ \A i \in 1 .. Len(maps) : maps[i] \in Maps
  BY LenProperties, ElementOfSeq
<1>2. PICK f : /\ MergeAll(maps) = f[Len(maps)] /\ f[0] = Empty
               /\ \A i \in 1 .. Len(maps) : f[i] = MergeMaps(f[i - 1], maps[i])
  BY <1>1, MergeAllIs
<1> DEFINE Good(n) ==
             /\ f[n] \in Maps /\ DOMAIN f[n] = UNION {DOMAIN maps[i] : i \in 1 .. n}
             /\ Carries(Values(f[n], k), Among(X, 1 .. n))
           T == {n \in Nat : n <= Len(maps) /\ ~Good(n)}
<1>3. Good(0)
  <2>1. 1 .. 0 = {}
    OBVIOUS
  <2>2. UNION {DOMAIN maps[i] : i \in 1 .. 0} = {} /\ Among(X, 1 .. 0) = {}
    BY <2>1, AmongIs
  <2>3. Carries(<<>>, {})
    <3>1. Lists(<<>>, {})
      BY EmptySeq DEF Lists
    <3> QED BY <3>1, FlattenEmpty, EmptySeq DEF Carries
  <2> QED BY <1>2, <2>2, <2>3, EmptyType
<1>4. ASSUME NEW n \in Nat, n + 1 <= Len(maps), Good(n) PROVE Good(n + 1)
  <2>0. /\ f[n] \in Maps /\ DOMAIN f[n] = UNION {DOMAIN maps[i] : i \in 1 .. n}
        /\ Carries(Values(f[n], k), Among(X, 1 .. n))
    BY <1>4
  <2>1. n + 1 \in 1 .. Len(maps) /\ 1 .. n + 1 = (1 .. n) \cup {n + 1}
        /\ \A i \in 1 .. n : i \in 1 .. Len(maps) /\ i # n + 1
    BY <1>1, <1>4
  <2>2. f[n + 1] = MergeMaps(f[n], maps[n + 1]) /\ maps[n + 1] \in Maps
    BY <1>1, <1>2, <2>1
  <2>3. /\ f[n + 1] \in Maps /\ DOMAIN f[n + 1] = DOMAIN f[n] \cup DOMAIN maps[n + 1]
        /\ Values(f[n + 1], k) = Values(f[n], k) \o Values(maps[n + 1], k)
    <3>1. f[n] \in Maps
      BY <2>0
    <3>2. LET g == MergeMaps(f[n], maps[n + 1])
          IN  /\ g \in Maps /\ DOMAIN g = DOMAIN f[n] \cup DOMAIN maps[n + 1]
              /\ Values(g, k) = Values(f[n], k) \o Values(maps[n + 1], k)
      BY <2>2, <3>1, MergeType
    <3> HIDE DEF Good
    <3> QED BY <2>2, <3>2
  <2>4. DOMAIN f[n + 1] = UNION {DOMAIN maps[i] : i \in 1 .. n + 1}
    <3>1. \A z : z \in UNION {DOMAIN maps[i] : i \in 1 .. n + 1}
                   <=> z \in UNION {DOMAIN maps[i] : i \in 1 .. n} \/ z \in DOMAIN maps[n + 1]
      BY <2>1
    <3> QED BY <2>0, <2>3, <3>1
  <2>5. Among(X, 1 .. n + 1) = Among(X, 1 .. n) \cup X[n + 1] /\ Among(X, 1 .. n) \cap X[n + 1] = {}
    <3>1. \A i \in 1 .. n : X[i] \cap X[n + 1] = {}
      BY <2>1
    <3> QED BY <2>1, <3>1, AmongStep
  <2>7. Carries(Values(f[n], k), Among(X, 1 .. n))
    BY <2>0
  <2>8. Carries(Values(maps[n + 1], k), X[n + 1])
    BY <2>1
  <2>9. Carries(Values(f[n + 1], k), Among(X, 1 .. n + 1))
    <3>1. Carries(Values(f[n], k) \o Values(maps[n + 1], k), Among(X, 1 .. n) \cup X[n + 1])
      BY <2>5, <2>7, <2>8, CarriesConcat
    <3> QED BY <2>3, <2>5, <3>1
  <2> QED BY <2>3, <2>4, <2>9
<1> HIDE DEF Good
<1>5. ASSUME NEW n \in T PROVE n - 1 \in T
  <2>1. n \in Nat /\ n <= Len(maps) /\ ~Good(n)
    BY <1>5
  <2>2. n # 0
    BY <1>3, <2>1
  <2>3. n - 1 \in Nat /\ (n - 1) + 1 <= Len(maps) /\ (n - 1) + 1 = n
    BY <1>1, <2>1, <2>2
  <2>4. ~Good(n - 1)
    BY <1>4, <2>1, <2>3
  <2> QED BY <1>1, <2>1, <2>3, <2>4
<1>6. T = {}
  <2> HIDE DEF T
  <2>1. T \in SUBSET Nat
    BY DEF T
  <2> QED BY <1>5, <2>1, Descent
<1>7. Good(Len(maps))
  BY <1>1, <1>6
<1> QED BY <1>2, <1>7 DEF Good

-----------------------------------------------------------------------------
\* What the recursive function of Tree computes from n maps.
Grows(maps, n, m, f) ==
    f = [i \in 1 .. m |->
            IF i <= n THEN maps[i] ELSE Reduced(MergeMaps(f[2 * (i - n) - 1], f[2 * (i - n)]))]

\* The function goes on for one map more.
LEMMA GrowsStep ==
    ASSUME NEW maps, NEW n \in Nat, NEW m \in Nat, m # 0, m <= 2 * n - 1,
           NEW f, Grows(maps, n, m - 1, f)
    PROVE  \E g : Grows(maps, n, m, g)
<1> DEFINE g == [i \in 1 .. m |->
                    IF i # m THEN f[i]
                    ELSE IF m <= n THEN maps[m] ELSE Reduced(MergeMaps(f[2 * (m - n) - 1], f[2 * (m - n)]))]
<1>1. \A i \in 1 .. m - 1 :
        f[i] = IF i <= n THEN maps[i] ELSE Reduced(MergeMaps(f[2 * (i - n) - 1], f[2 * (i - n)]))
  BY DEF Grows
<1>2. \A i \in 1 .. m - 1 : g[i] = f[i]
  OBVIOUS
<1>3. g[m] = IF m <= n THEN maps[m] ELSE Reduced(MergeMaps(f[2 * (m - n) - 1], f[2 * (m - n)]))
  OBVIOUS
<1>4. g = [i \in 1 .. m |-> g[i]]
  OBVIOUS
<1> HIDE DEF g
<1>5. \A i \in 1 .. m : ~(i <= n) => 2 * (i - n) - 1 \in 1 .. m - 1 /\ 2 * (i - n) \in 1 .. m - 1
  OBVIOUS
<1>6. ASSUME NEW i \in 1 .. m
      PROVE  g[i] = IF i <= n THEN maps[i] ELSE Reduced(MergeMaps(g[2 * (i - n) - 1], g[2 * (i - n)]))
  <2>1. ~(i <= n) => g[2 * (i - n) - 1] = f[2 * (i - n) - 1] /\ g[2 * (i - n)] = f[2 * (i - n)]
    BY <1>2, <1>5
  <2>2. i = m \/ i \in 1 .. m - 1
    OBVIOUS
  <2>3. g[i] = IF i <= n THEN maps[i] ELSE Reduced(MergeMaps(f[2 * (i - n) - 1], f[2 * (i - n)]))
    BY <1>1, <1>2, <1>3, <2>2
  <2> QED BY <2>1, <2>3
<1>7. Grows(maps, n, m, g)
  BY <1>4, <1>6 DEF Grows
<1> QED BY <1>7

\* There is such a function.
LEMMA GrowsExists ==
    ASSUME NEW maps, NEW n \in Nat, NEW m \in Nat, m <= 2 * n - 1
    PROVE  \E f : Grows(maps, n, m, f)
<1> DEFINE T == {d \in Nat : d <= 2 * n - 1 /\ ~\E f : Grows(maps, n, d, f)}
<1>1. ASSUME NEW d \in T PROVE d - 1 \in T
  <2>1. d \in Nat /\ d <= 2 * n - 1 /\ ~\E f : Grows(maps, n, d, f)
    BY <1>1
  <2>2. d # 0
    <3>1. Grows(maps, n, 0, [i \in 1 .. 0 |-> i])
      BY DEF Grows
    <3> QED BY <2>1, <3>1
  <2>3. ~\E f : Grows(maps, n, d - 1, f)
    BY <2>1, <2>2, GrowsStep
  <2> QED BY <2>1, <2>2, <2>3
<1>2. T = {}
  <2> HIDE DEF T
  <2>1. T \in SUBSET Nat
    BY DEF T
  <2> QED BY <1>1, <2>1, Descent
<1> QED BY <1>2

\* Tree has the given maps first, and then a reduced map for every two.
LEMMA TreeIs ==
    ASSUME NEW maps, Len(maps) \in Nat \ {0}
    PROVE  \E f : /\ Tree(maps) = f[2 * Len(maps) - 1]
                  /\ \A i \in 1 .. 2 * Len(maps) - 1 :
                        f[i] = IF i <= Len(maps) THEN maps[i]
                               ELSE Reduced(MergeMaps(f[2 * (i - Len(maps)) - 1], f[2 * (i - Len(maps))]))
<1> DEFINE f == CHOOSE g : Grows(maps, Len(maps), 2 * Len(maps) - 1, g)
<1>1. Grows(maps, Len(maps), 2 * Len(maps) - 1, f)
  <2>1. 2 * Len(maps) - 1 \in Nat /\ Len(maps) \in Nat /\ 2 * Len(maps) - 1 <= 2 * Len(maps) - 1
    OBVIOUS
  <2>2. PICK g : Grows(maps, Len(maps), 2 * Len(maps) - 1, g)
    BY <2>1, GrowsExists
  <2> QED BY <2>2
<1>2. Tree(maps) = f[2 * Len(maps) - 1]
  BY DEF Tree, Grows
<1> HIDE DEF f
<1> QED BY <1>1, <1>2 DEF Grows

\* Map j of f has the values of the nodes in E[j]; maps lo .. i, which are still to
\* be paired, share the nodes among them.
Shares(f, E, c, lo, i) ==
    /\ \A j \in 1 .. i : Answer(f[j], Keys, E[j], c)
    /\ \A x \in Nodes : \E j \in lo .. i : x \in E[j]
    /\ \A j \in lo .. i : E[j] \subseteq Nodes
    /\ \A j, l \in lo .. i : j # l => E[j] \cap E[l] = {}

\* Two answers of different nodes, merged and reduced, answer for the nodes of both.
LEMMA PairAnswer ==
    ASSUME NEW F, NEW G, F \cap G = {}, NEW c, NEW a, Answer(a, Keys, F, c), NEW b, Answer(b, Keys, G, c)
    PROVE  Answer(Reduced(MergeMaps(a, b)), Keys, F \cup G, c)
<1>1. Covers(a, Keys, F, c) /\ Covers(b, Keys, G, c)
  BY DEF Answer
<1>2. Covers(MergeMaps(a, b), Keys, F \cup G, c)
  BY <1>1, MergeCovers
<1> QED BY <1>2, ReducedAnswer

\* Pairing two of the maps adds one that has their nodes.
LEMMA SharesStep ==
    ASSUME NEW f, NEW E, NEW c, NEW lo \in Nat, NEW i \in Nat, 1 <= lo, lo + 1 <= i,
           Shares(f, E, c, lo, i), f[i + 1] = Reduced(MergeMaps(f[lo], f[lo + 1]))
    PROVE  \E H : Shares(f, H, c, lo + 2, i + 1)
<1> DEFINE H == [j \in 1 .. i + 1 |-> IF j = i + 1 THEN E[lo] \cup E[lo + 1] ELSE E[j]]
<1>1. H[i + 1] = E[lo] \cup E[lo + 1] /\ \A j \in 1 .. i : H[j] = E[j]
  OBVIOUS
<1> HIDE DEF H
<1>2. lo \in 1 .. i /\ lo + 1 \in 1 .. i /\ lo \in lo .. i /\ lo + 1 \in lo .. i /\ lo # lo + 1
  OBVIOUS
<1>3. /\ \A j \in 1 .. i : Answer(f[j], Keys, E[j], c)
      /\ \A x \in Nodes : \E j \in lo .. i : x \in E[j]
      /\ \A j \in lo .. i : E[j] \subseteq Nodes
      /\ \A j, l \in lo .. i : j # l => E[j] \cap E[l] = {}
  BY DEF Shares
<1>4. Answer(f[i + 1], Keys, H[i + 1], c)
  BY <1>1, <1>2, <1>3, PairAnswer
<1>5. \A j \in 1 .. i + 1 : Answer(f[j], Keys, H[j], c)
  <2>1. \A j \in 1 .. i + 1 : j = i + 1 \/ j \in 1 .. i
    OBVIOUS
  <2> QED BY <1>1, <1>3, <1>4, <2>1
<1>6. ASSUME NEW x \in Nodes PROVE \E j \in lo + 2 .. i + 1 : x \in H[j]
  <2>1. PICK j \in lo .. i : x \in E[j]
    BY <1>3
  <2>2. CASE j = lo \/ j = lo + 1
    <3>1. x \in H[i + 1] /\ i + 1 \in lo + 2 .. i + 1
      BY <1>1, <2>1, <2>2
    <3> QED BY <3>1
  <2>3. CASE j # lo /\ j # lo + 1
    <3>1. j \in lo + 2 .. i + 1 /\ j \in 1 .. i
      BY <2>1, <2>3
    <3> QED BY <1>1, <2>1, <3>1
  <2> QED BY <2>2, <2>3
<1>7. \A j \in lo + 2 .. i + 1 : j = i + 1 \/ (j \in lo .. i /\ j \in 1 .. i /\ j # lo /\ j # lo + 1)
  OBVIOUS
<1>8. \A j \in lo + 2 .. i + 1 : H[j] \subseteq Nodes
  BY <1>1, <1>2, <1>3, <1>7
<1>9. ASSUME NEW j \in lo + 2 .. i + 1, NEW l \in lo + 2 .. i + 1, j # l PROVE H[j] \cap H[l] = {}
  <2>1. CASE j = i + 1
    <3>1. l \in lo .. i /\ l \in 1 .. i /\ l # lo /\ l # lo + 1
      BY <1>7, <1>9, <2>1
    <3>2. E[lo] \cap E[l] = {} /\ E[lo + 1] \cap E[l] = {}
      BY <1>2, <1>3, <3>1
    <3> QED BY <1>1, <2>1, <3>1, <3>2
  <2>2. CASE l = i + 1
    <3>1. j \in lo .. i /\ j \in 1 .. i /\ j # lo /\ j # lo + 1
      BY <1>7, <1>9, <2>2
    <3>2. E[lo] \cap E[j] = {} /\ E[lo + 1] \cap E[j] = {}
      BY <1>2, <1>3, <3>1
    <3> QED BY <1>1, <2>2, <3>1, <3>2
  <2>3. CASE j # i + 1 /\ l # i + 1
    <3>1. j \in lo .. i /\ j \in 1 .. i /\ l \in lo .. i /\ l \in 1 .. i
      BY <1>7, <2>3
    <3> QED BY <1>1, <1>3, <1>9, <3>1
  <2> QED BY <2>1, <2>2, <2>3
<1>10. Shares(f, H, c, lo + 2, i + 1)
  BY <1>5, <1>6, <1>8, <1>9 DEF Shares
<1> QED BY <1>10

\* LocalV: the tree over the results of the nodes has all their values.
LEMMA TreeAnswer ==
    ASSUME NEW maps, Len(maps) = mpi_nodes, NEW c,
           \A i \in 1 .. mpi_nodes : Answer(maps[i], Keys, {i - 1}, c)
    PROVE  Answer(Tree(maps), Keys, Nodes, c)
<1> DEFINE n == mpi_nodes
<1>1. n \in Nat /\ n # 0
  BY ExchangeAssumption
<1>2. PICK f : /\ Tree(maps) = f[2 * n - 1]
               /\ \A i \in 1 .. 2 * n - 1 :
                    f[i] = IF i <= n THEN maps[i] ELSE Reduced(MergeMaps(f[2 * (i - n) - 1], f[2 * (i - n)]))
  BY <1>1, TreeIs
<1> DEFINE Good(d) == \E E : Shares(f, E, c, 2 * d + 1, n + d)
           T == {d \in Nat : d <= n - 1 /\ ~Good(d)}
<1>3. Good(0)
  <2> DEFINE E == [j \in 1 .. n |-> {j - 1}]
  <2>1. \A j \in 1 .. n : E[j] = {j - 1} /\ j \in 1 .. 2 * n - 1 /\ j <= n /\ j - 1 \in Nodes
    BY <1>1 DEF Nodes
  <2>2. \A x \in Nodes : x + 1 \in 1 .. n /\ x = (x + 1) - 1
    BY <1>1 DEF Nodes
  <2> HIDE DEF E, n
  <2>3. \A j \in 1 .. n : Answer(f[j], Keys, E[j], c)
    BY <1>2, <2>1 DEF n
  <2>4. \A x \in Nodes : \E j \in 1 .. n : x \in E[j]
    BY <2>1, <2>2
  <2>5. \A j, l \in 1 .. n : j # l => E[j] \cap E[l] = {}
    <3>1. \A j, l \in 1 .. n : j # l => j - 1 # l - 1
      OBVIOUS
    <3> QED BY <2>1, <3>1
  <2>6. \A j \in 1 .. n : E[j] \subseteq Nodes
    BY <2>1
  <2>7. Shares(f, E, c, 1, n)
    BY <2>3, <2>4, <2>5, <2>6 DEF Shares
  <2>8. 2 * 0 + 1 = 1 /\ n + 0 = n
    BY <1>1 DEF n
  <2> QED BY <2>7, <2>8
<1> HIDE DEF n
<1>4. ASSUME NEW d \in Nat, d + 1 <= n - 1, Good(d) PROVE Good(d + 1)
  <2>1. PICK E : Shares(f, E, c, 2 * d + 1, n + d)
    BY <1>4
  <2>2. n + d + 1 \in 1 .. 2 * n - 1 /\ ~(n + d + 1 <= n)
        /\ 2 * (n + d + 1 - n) - 1 = 2 * d + 1 /\ 2 * (n + d + 1 - n) = (2 * d + 1) + 1
        /\ 2 * d + 1 \in Nat /\ n + d \in Nat /\ 1 <= 2 * d + 1 /\ (2 * d + 1) + 1 <= n + d
    BY <1>1, <1>4
  <2>3. f[n + d + 1] = Reduced(MergeMaps(f[2 * d + 1], f[(2 * d + 1) + 1]))
    <3>1. PICK q \in 1 .. 2 * n - 1 : q = n + d + 1
      BY <2>2
    <3>2. ~(q <= n) /\ 2 * (q - n) - 1 = 2 * d + 1 /\ 2 * (q - n) = (2 * d + 1) + 1
      BY <1>1, <3>1
    <3>3. f[q] = Reduced(MergeMaps(f[2 * (q - n) - 1], f[2 * (q - n)]))
      BY <1>2, <3>1, <3>2
    <3> QED BY <3>1, <3>2, <3>3
  <2>4. \E H : Shares(f, H, c, (2 * d + 1) + 2, (n + d) + 1)
    BY <2>1, <2>2, <2>3, SharesStep
  <2>5. (2 * d + 1) + 2 = 2 * (d + 1) + 1 /\ (n + d) + 1 = n + (d + 1)
    BY <1>1
  <2> QED BY <2>4, <2>5
<1> HIDE DEF Good
<1>5. ASSUME NEW d \in T PROVE d - 1 \in T
  <2>1. d \in Nat /\ d <= n - 1 /\ ~Good(d)
    BY <1>5
  <2>2. d # 0
    BY <1>3, <2>1
  <2>3. d - 1 \in Nat /\ (d - 1) + 1 <= n - 1 /\ (d - 1) + 1 = d /\ d - 1 <= n - 1
    BY <1>1, <2>1, <2>2
  <2>4. ~Good(d - 1)
    BY <1>4, <2>1, <2>3
  <2> QED BY <2>3, <2>4
<1>6. T = {}
  <2> HIDE DEF T
  <2>1. T \in SUBSET Nat
    BY DEF T
  <2> QED BY <1>5, <2>1, Descent
<1>7. Good(n - 1)
  <2>1. n - 1 \in Nat /\ n - 1 <= n - 1
    BY <1>1
  <2> QED BY <1>6, <2>1
<1>8. PICK E : Shares(f, E, c, 2 * (n - 1) + 1, n + (n - 1))
  BY <1>7 DEF Good
<1>9. 2 * (n - 1) + 1 = 2 * n - 1 /\ n + (n - 1) = 2 * n - 1 /\ 2 * n - 1 \in 1 .. 2 * n - 1
      /\ 2 * n - 1 \in 2 * n - 1 .. 2 * n - 1 /\ \A j \in 2 * n - 1 .. 2 * n - 1 : j = 2 * n - 1
  BY <1>1
<1>10. E[2 * n - 1] = Nodes /\ Answer(f[2 * n - 1], Keys, E[2 * n - 1], c)
  BY <1>8, <1>9 DEF Shares
<1> QED BY <1>2, <1>10

-----------------------------------------------------------------------------
\* The keys that node n reduces in a pattern, and the nodes whose values it has for them.
Home(n, kind) == IF kind = "GlobalH" THEN {k \in Keys : Distributer[k] = n} ELSE Keys

From(n, kind) == IF kind = "GlobalH" THEN Nodes ELSE {n}

\* Horizontal: the results of the nodes, merged and reduced, have all values of all nodes.
LEMMA MergeAllAnswer ==
    ASSUME NEW c, NEW kind, NEW maps \in Seq(Maps), Len(maps) = mpi_nodes,
           \A i \in 1 .. mpi_nodes : Answer(maps[i], Home(i - 1, kind), From(i - 1, kind), c)
    PROVE  Answer(Reduced(MergeAll(maps)), Keys, Nodes, c)
<1> DEFINE n == mpi_nodes
           X(k) == [i \in 1 .. n |-> IF k \in Home(i - 1, kind)
                                     THEN Contributions(From(i - 1, kind), c, k) ELSE {}]
<1>1. n \in Nat /\ n # 0 /\ Len(maps) = n
  BY ExchangeAssumption
<1>2. \A i \in 1 .. n : i - 1 \in Nodes
  BY <1>1 DEF Nodes
<1>3. \A i \in 1 .. n : /\ maps[i] \in Maps /\ DOMAIN maps[i] = Home(i - 1, kind)
                        /\ Home(i - 1, kind) \subseteq Keys
                        /\ Covers(maps[i], Home(i - 1, kind), From(i - 1, kind), c)
  <2> SUFFICES ASSUME NEW i \in 1 .. n
               PROVE  /\ maps[i] \in Maps /\ DOMAIN maps[i] = Home(i - 1, kind)
                      /\ Home(i - 1, kind) \subseteq Keys
                      /\ Covers(maps[i], Home(i - 1, kind), From(i - 1, kind), c)
    OBVIOUS
  <2>1. Home(i - 1, kind) \in SUBSET Keys
    BY DEF Home
  <2>2. Covers(maps[i], Home(i - 1, kind), From(i - 1, kind), c)
    BY DEF Answer
  <2> QED BY <2>1, <2>2, CoversType
<1> HIDE DEF n
<1>4. ASSUME NEW k, NEW i \in 1 .. n PROVE Carries(Values(maps[i], k), X(k)[i])
  <2>1. CASE k \in Home(i - 1, kind)
    <3>1. Values(maps[i], k) = maps[i][k] /\ X(k)[i] = Contributions(From(i - 1, kind), c, k)
      BY <1>3, <2>1 DEF Values
    <3> HIDE DEF X
    <3> QED BY <1>3, <2>1, <3>1 DEF Covers
  <2>2. CASE k \notin Home(i - 1, kind)
    <3>1. Values(maps[i], k) = <<>> /\ X(k)[i] = {}
      BY <1>3, <2>2 DEF Values
    <3> HIDE DEF X
    <3>2. Lists(<<>>, {})
      BY EmptySeq DEF Lists
    <3> QED BY <3>1, <3>2, FlattenEmpty, EmptySeq DEF Carries
  <2> QED BY <2>1, <2>2
<1>5. ASSUME NEW k, NEW i \in 1 .. n, NEW j \in 1 .. n, i # j PROVE X(k)[i] \cap X(k)[j] = {}
  <2>1. CASE kind = "GlobalH"
    <3>1. i - 1 # j - 1
      BY <1>5
    <3>2. k \in Home(i - 1, kind) /\ k \in Home(j - 1, kind) => FALSE
      BY <2>1, <3>1 DEF Home
    <3> QED BY <3>2
  <2>2. CASE kind # "GlobalH"
    <3>1. {i - 1} \cap {j - 1} = {}
      BY <1>5
    <3>2. Contributions({i - 1}, c, k) \cap Contributions({j - 1}, c, k) = {}
      BY <3>1, ContributionsUnion
    <3> QED BY <2>2, <3>2 DEF From
  <2> QED BY <2>1, <2>2
<1>6. ASSUME NEW k \in Keys PROVE Among(X(k), 1 .. n) = Contributions(Nodes, c, k)
  <2>1. \A z : z \in Among(X(k), 1 .. n) <=> \E i \in 1 .. n : z \in X(k)[i]
    BY AmongIs
  <2>2. \A i \in 1 .. n : X(k)[i] = IF k \in Home(i - 1, kind) THEN Contributions(From(i - 1, kind), c, k) ELSE {}
    OBVIOUS
  <2>3. \A m \in Nodes : m + 1 \in 1 .. n /\ (m + 1) - 1 = m
    BY <1>1 DEF Nodes, n
  <2> HIDE DEF X
  <2>4. CASE kind = "GlobalH"
    <3>1. PICK m \in Nodes : m = Distributer[k]
      BY ExchangeAssumption
    <3>2. k \in Home((m + 1) - 1, kind) /\ \A i \in 1 .. n : k \in Home(i - 1, kind) => i - 1 = m
      BY <2>3, <2>4, <3>1 DEF Home
    <3>3. \A i \in 1 .. n : From(i - 1, kind) = Nodes
      BY <2>4 DEF From
    <3>4. \A i \in 1 .. n : k \in Home(i - 1, kind) => X(k)[i] = Contributions(Nodes, c, k)
      BY <2>2, <3>3
    <3>5. \A i \in 1 .. n : k \notin Home(i - 1, kind) => X(k)[i] = {}
      BY <2>2
    <3>6. m + 1 \in 1 .. n
      BY <2>3
    <3> QED BY <2>1, <3>2, <3>4, <3>5, <3>6
  <2>5. CASE kind # "GlobalH"
    <3>1. \A i \in 1 .. n : X(k)[i] = Contributions({i - 1}, c, k)
      BY <2>2, <2>5 DEF Home, From
    <3>2. \A z : z \in Contributions(Nodes, c, k) <=>
               \E m \in Nodes : \E i \in 1 .. Emits[m][k] : z = [node |-> m, call |-> c, key |-> k, value |-> i]
      BY ContributionsOf
    <3>3. \A m : \A z : z \in Contributions({m}, c, k) <=>
               \E i \in 1 .. Emits[m][k] : z = [node |-> m, call |-> c, key |-> k, value |-> i]
      BY ContributionsOf
    <3>4. \A z : z \in Contributions(Nodes, c, k) <=> \E m \in Nodes : z \in Contributions({m}, c, k)
      BY <3>2, <3>3
    <3>5. \A z : (\E m \in Nodes : z \in Contributions({m}, c, k)) <=> \E i \in 1 .. n : z \in Contributions({i - 1}, c, k)
      BY <1>2, <2>3 DEF n
    <3>6. \A z : z \in Among(X(k), 1 .. n) <=> \E i \in 1 .. n : z \in Contributions({i - 1}, c, k)
      BY <2>1, <3>1
    <3>7. \A z : z \in Among(X(k), 1 .. n) <=> z \in Contributions(Nodes, c, k)
      BY <3>4, <3>5, <3>6
    <3> QED BY <3>7
  <2> QED BY <2>4, <2>5
<1> HIDE DEF X
<1>7. ASSUME NEW k
      PROVE  /\ MergeAll(maps) \in Maps
             /\ DOMAIN MergeAll(maps) = UNION {DOMAIN maps[i] : i \in 1 .. n}
             /\ Carries(Values(MergeAll(maps), k), Among(X(k), 1 .. n))
  BY <1>1, <1>4, <1>5, MergeAllCarries
<1>8. DOMAIN MergeAll(maps) = Keys
  <2>1. \A i \in 1 .. n : DOMAIN maps[i] \subseteq Keys
    BY <1>3
  <2>2. ASSUME NEW k \in Keys PROVE \E i \in 1 .. n : k \in DOMAIN maps[i]
    <3>1. CASE kind = "GlobalH"
      <4>1. PICK m \in Nodes : m = Distributer[k]
        BY ExchangeAssumption
      <4>2. m + 1 \in 1 .. n /\ (m + 1) - 1 = m
        BY <1>1 DEF Nodes, n
      <4>3. k \in Home((m + 1) - 1, kind)
        BY <3>1, <4>1, <4>2 DEF Home
      <4> QED BY <1>3, <4>2, <4>3
    <3>2. CASE kind # "GlobalH"
      <4>1. 1 \in 1 .. n
        BY <1>1
      <4>2. k \in Home(1 - 1, kind)
        BY <3>2 DEF Home
      <4> QED BY <1>3, <4>1, <4>2
    <3> QED BY <3>1, <3>2
  <2>3. DOMAIN MergeAll(maps) = UNION {DOMAIN maps[i] : i \in 1 .. n}
    BY <1>7
  <2> QED BY <2>1, <2>2, <2>3
<1>9. MergeAll(maps) \in [Keys -> Seq(Seq(Contribution))]
  BY <1>7, <1>8, MapsType
<1>10. \A k \in Keys : Carries(MergeAll(maps)[k], Contributions(Nodes, c, k))
  BY <1>6, <1>7, <1>8 DEF Values
<1>11. Covers(MergeAll(maps), Keys, Nodes, c)
  BY <1>9, <1>10 DEF Covers
<1> QED BY <1>11, ReducedAnswer

\* Rank 0 makes the answer of the call out of the answers of the nodes.
LEMMA CombinedAnswer ==
    ASSUME NEW c, Kind[c] \in Kinds, NEW maps \in Seq(Maps), Len(maps) = mpi_nodes,
           \A i \in 1 .. mpi_nodes : Answer(maps[i], Home(i - 1, Kind[c]), From(i - 1, Kind[c]), c)
    PROVE  Answer(Combined(c, maps), Keys, Nodes, c)
<1>1. CASE Kind[c] = "LocalV"
  <2>1. \A i \in 1 .. mpi_nodes : Answer(maps[i], Keys, {i - 1}, c)
    BY <1>1 DEF Home, From
  <2> QED BY <1>1, <2>1, TreeAnswer DEF Combined
<1>2. CASE Kind[c] # "LocalV"
  BY <1>2, MergeAllAnswer DEF Combined
<1> QED BY <1>1, <1>2

-----------------------------------------------------------------------------
(* Sizes.                                                                  *)

\* A small number is its own remainder.
LEMMA SmallModulo == ASSUME NEW a \in Nat, NEW b \in Nat, a < b PROVE a % b = a
OBVIOUS

\* A product divided by one factor is the other.
LEMMA ProductDivided == ASSUME NEW s \in Nat \ {0}, NEW x \in Nat PROVE s * x \in Nat /\ (s * x) \div s = x
OBVIOUS

\* A product grows with its factor.
LEMMA ProductGrows ==
    ASSUME NEW s \in Nat, NEW x \in Nat, NEW y \in Nat, x <= y
    PROVE  s * x \in Nat /\ s * y \in Nat /\ s * x <= s * y
OBVIOUS

\* A number of bytes that fits in an int is not changed.
LEMMA BytesIs ==
    ASSUME NEW count \in Nat, SizeOf * count <= INT_MAX
    PROVE  Bytes(count) = SizeOf * count
<1>1. SizeOf * count \in Nat /\ INT_MAX \in Nat
  BY ProductDivided, ExchangeAssumption
<1>2. PICK x \in Nat : x = SizeOf * count
  BY <1>1
<1>3. x + INT_MAX + 1 \in Nat /\ 2 * INT_MAX + 2 \in Nat /\ x + INT_MAX + 1 < 2 * INT_MAX + 2
  BY <1>1, <1>2
<1>4. (x + INT_MAX + 1) % (2 * INT_MAX + 2) = x + INT_MAX + 1
  BY <1>3, SmallModulo
<1>5. Bytes(count) = ((x + INT_MAX + 1) % (2 * INT_MAX + 2)) - (INT_MAX + 1)
  BY <1>2 DEF Bytes
<1> QED BY <1>1, <1>2, <1>4, <1>5

\* A message carries all elements of the buffer.
LEMMA BufferIs ==
    ASSUME NEW S, NEW seq \in Seq(S), SizeOf * Len(seq) <= INT_MAX
    PROVE  Buffer(seq) = seq
<1>1. Len(seq) \in Nat
  BY LenProperties
<1>2. Bytes(Len(seq)) \div SizeOf = Len(seq)
  BY <1>1, BytesIs, ProductDivided, ExchangeAssumption
<1>3. SubSeq(seq, 1, Len(seq)) = seq
  BY <1>1
<1> QED BY <1>2, <1>3 DEF Buffer

-----------------------------------------------------------------------------
(* The scripts, position by position.                                      *)

Operations == [do : {"send", "receive", "barrier", "reduce", "combine"}, peer : Nodes,
               what : {"shuffle", "local", "result"}]

\* The operations before the local reduction, and its position.
Width(kind) == IF kind = "GlobalH" THEN 2 * (mpi_nodes - 1) ELSE IF kind = "LocalH" THEN 1 ELSE 0

LocalAt(kind) == IF mpi_nodes > 1 THEN Width(kind) + 1 ELSE 1

\* Node m is the Turn-th of the others that node n talks to.
Turn(n, m) == IF m < n THEN m + 1 ELSE m

SendAt(n, m) == IF n < m THEN 2 * Turn(n, m) - 1 ELSE 2 * Turn(n, m)

ReceiveAt(n, m) == IF n < m THEN 2 * Turn(n, m) ELSE 2 * Turn(n, m) - 1

\* ShuffleNodes has one send and one receive for each other node, at those positions.
LEMMA ShuffleIs ==
    ASSUME NEW n \in Nodes, mpi_nodes > 1
    PROVE  /\ ShuffleNodes(n) \in Seq(Operations) /\ Len(ShuffleNodes(n)) = 2 * (mpi_nodes - 1)
           /\ \A a \in 1 .. 2 * (mpi_nodes - 1) : \E m \in Nodes \ {n} :
                \/ a = SendAt(n, m) /\ ShuffleNodes(n)[a] = Op("send", m, "shuffle")
                \/ a = ReceiveAt(n, m) /\ ShuffleNodes(n)[a] = Op("receive", m, "shuffle")
<1> DEFINE N == mpi_nodes
           s == [i \in 1 .. N - 1 |-> CommunicateWithNode(n, Others(n)[i])]
<1>1. N \in Nat /\ N > 1 /\ n \in 0 .. N - 1
  BY ExchangeAssumption DEF Nodes
<1> HIDE DEF N
<1>2. \A i \in 1 .. N - 1 : /\ Others(n)[i] = IF i <= n THEN i - 1 ELSE i
                            /\ Others(n)[i] \in Nodes \ {n} /\ Turn(n, Others(n)[i]) = i
  BY <1>1 DEF Others, Turn, Nodes, N
<1>3. \A i \in 1 .. N - 1 : /\ s[i] = CommunicateWithNode(n, Others(n)[i])
  OBVIOUS
<1> HIDE DEF s
<1>4. ASSUME NEW m \in Nodes, NEW do \in {"send", "receive"} PROVE Op(do, m, "shuffle") \in Operations
  BY DEF Op, Operations
<1>5. ASSUME NEW m \in Nodes
      PROVE  /\ CommunicateWithNode(n, m) \in Seq(Operations) /\ Len(CommunicateWithNode(n, m)) = 2
             /\ CommunicateWithNode(n, m)[1] = Op(IF n < m THEN "send" ELSE "receive", m, "shuffle")
             /\ CommunicateWithNode(n, m)[2] = Op(IF n < m THEN "receive" ELSE "send", m, "shuffle")
  <2>1. CommunicateWithNode(n, m) =
            <<Op(IF n < m THEN "send" ELSE "receive", m, "shuffle"), Op(IF n < m THEN "receive" ELSE "send", m, "shuffle")>>
    BY DEF CommunicateWithNode
  <2>2. /\ Op(IF n < m THEN "send" ELSE "receive", m, "shuffle") \in Operations
        /\ Op(IF n < m THEN "receive" ELSE "send", m, "shuffle") \in Operations
    BY <1>4
  <2> QED BY <2>1, <2>2
<1>6. s \in Seq(Seq(Operations)) /\ Len(s) = N - 1
  <2>1. \A i \in 1 .. N - 1 : CommunicateWithNode(n, Others(n)[i]) \in Seq(Operations)
    BY <1>2, <1>5
  <2>2. N - 1 \in Nat
    BY <1>1
  <2> QED BY <2>1, <2>2, IsASeq DEF s
<1>7. \A i \in 1 .. Len(s) : Len(s[i]) = 2
  BY <1>2, <1>3, <1>5, <1>6
<1>8. Paired(s, Operations)
  BY <1>6, <1>7, FlattenPairs
<1>9. ShuffleNodes(n) = FlattenSeq(s)
  BY DEF ShuffleNodes, s, N
<1>10. ShuffleNodes(n) \in Seq(Operations) /\ Len(ShuffleNodes(n)) = 2 * (N - 1)
       /\ \A i \in 1 .. N - 1 : ShuffleNodes(n)[2 * i - 1] = s[i][1] /\ ShuffleNodes(n)[2 * i] = s[i][2]
  BY <1>6, <1>8, <1>9 DEF Paired
<1>11. ASSUME NEW a \in 1 .. 2 * (N - 1)
       PROVE  \E m \in Nodes \ {n} :
                \/ a = SendAt(n, m) /\ ShuffleNodes(n)[a] = Op("send", m, "shuffle")
                \/ a = ReceiveAt(n, m) /\ ShuffleNodes(n)[a] = Op("receive", m, "shuffle")
  <2>1. PICK i \in 1 .. N - 1 : a = 2 * i - 1 \/ a = 2 * i
    <3>1. (a + 1) \div 2 \in 1 .. N - 1 /\ (a = 2 * ((a + 1) \div 2) - 1 \/ a = 2 * ((a + 1) \div 2))
      BY <1>1
    <3> QED BY <3>1
  <2>2. PICK m \in Nodes \ {n} : m = Others(n)[i] /\ Turn(n, m) = i
    BY <1>2
  <2>3. s[i][1] = Op(IF n < m THEN "send" ELSE "receive", m, "shuffle")
        /\ s[i][2] = Op(IF n < m THEN "receive" ELSE "send", m, "shuffle")
    BY <1>3, <1>5, <2>2
  <2>4. SendAt(n, m) = (IF n < m THEN 2 * i - 1 ELSE 2 * i) /\ ReceiveAt(n, m) = (IF n < m THEN 2 * i ELSE 2 * i - 1)
    BY <2>2 DEF SendAt, ReceiveAt
  <2>5. ShuffleNodes(n)[2 * i - 1] = s[i][1] /\ ShuffleNodes(n)[2 * i] = s[i][2]
    BY <1>10
  <2> QED BY <2>1, <2>3, <2>4, <2>5
<1> QED BY <1>10, <1>11 DEF N

\* No two of these positions are the same.
LEMMA TurnsApart ==
    ASSUME NEW n \in Nodes, NEW m \in Nodes \ {n}
    PROVE  /\ SendAt(n, m) \in 1 .. 2 * (mpi_nodes - 1) /\ ReceiveAt(n, m) \in 1 .. 2 * (mpi_nodes - 1)
           /\ \A p \in Nodes \ {n} : /\ SendAt(n, p) # ReceiveAt(n, m)
                                     /\ SendAt(n, p) = SendAt(n, m) => p = m
                                     /\ ReceiveAt(n, p) = ReceiveAt(n, m) => p = m
<1>1. mpi_nodes \in Nat
  BY ExchangeAssumption
<1>2. \A p \in Nodes \ {n} : Turn(n, p) \in 1 .. mpi_nodes - 1 /\ (Turn(n, p) = Turn(n, m) => p = m)
  BY <1>1 DEF Nodes, Turn
<1>3. \A p \in Nodes \ {n} : /\ SendAt(n, p) \in {2 * Turn(n, p) - 1, 2 * Turn(n, p)}
                            /\ ReceiveAt(n, p) \in {2 * Turn(n, p) - 1, 2 * Turn(n, p)}
                            /\ SendAt(n, p) # ReceiveAt(n, p)
  BY <1>2 DEF SendAt, ReceiveAt
<1>4. SendAt(n, m) \in 1 .. 2 * (mpi_nodes - 1) /\ ReceiveAt(n, m) \in 1 .. 2 * (mpi_nodes - 1)
  BY <1>1, <1>2, <1>3
<1>5. ASSUME NEW p \in Nodes \ {n}
      PROVE  /\ SendAt(n, p) # ReceiveAt(n, m)
             /\ SendAt(n, p) = SendAt(n, m) => p = m
             /\ ReceiveAt(n, p) = ReceiveAt(n, m) => p = m
  <2>1. CASE p = m
    BY <1>3, <2>1
  <2>2. CASE p # m
    <3>1. Turn(n, p) # Turn(n, m) /\ Turn(n, p) \in Nat /\ Turn(n, m) \in Nat
      BY <1>2, <2>2
    <3> QED BY <1>3, <3>1
  <2> QED BY <2>1, <2>2
<1> QED BY <1>4, <1>5

\* What the operation at position a of the script of node n can be.
OpIs(n, kind, a, o) ==
    \/ /\ kind = "GlobalH" /\ mpi_nodes > 1 /\ a < LocalAt(kind)
       /\ \E m \in Nodes \ {n} : a = SendAt(n, m) /\ o = Op("send", m, "shuffle")
    \/ /\ kind = "GlobalH" /\ mpi_nodes > 1 /\ a < LocalAt(kind)
       /\ \E m \in Nodes \ {n} : a = ReceiveAt(n, m) /\ o = Op("receive", m, "shuffle")
    \/ kind = "LocalH" /\ mpi_nodes > 1 /\ a < LocalAt(kind) /\ o = Op("barrier", n, "local")
    \/ a = LocalAt(kind) /\ o = Op("reduce", n, "local")
    \/ mpi_nodes > 1 /\ n > 0 /\ a = LocalAt(kind) + 1 /\ o = Op("send", 0, "result")
    \/ /\ mpi_nodes > 1 /\ n = 0
       /\ \E m \in Nodes \ {0} : a = LocalAt(kind) + m /\ o = Op("receive", m, "result")
    \/ mpi_nodes > 1 /\ n = 0 /\ a = LocalAt(kind) + mpi_nodes /\ o = Op("combine", 0, "result")

Size(n, kind) ==
    IF mpi_nodes > 1 THEN IF n > 0 THEN LocalAt(kind) + 1 ELSE LocalAt(kind) + mpi_nodes ELSE 1

\* What precedes the local reduction.
LEMMA OpeningIs ==
    ASSUME NEW n \in Nodes, NEW kind \in Kinds, mpi_nodes > 1
    PROVE  /\ Opening(n, kind) \in Seq(Operations) /\ Len(Opening(n, kind)) = Width(kind)
           /\ \A a \in 1 .. Width(kind) : OpIs(n, kind, a, Opening(n, kind)[a])
<1>0. mpi_nodes \in Nat /\ LocalAt(kind) = Width(kind) + 1
  BY ExchangeAssumption DEF LocalAt
<1>1. CASE kind = "GlobalH"
  <2>1. Opening(n, kind) = ShuffleNodes(n) /\ Width(kind) = 2 * (mpi_nodes - 1)
    BY <1>1 DEF Opening, Width
  <2>2. \A a \in 1 .. Width(kind) : a < LocalAt(kind)
    BY <1>0, <2>1
  <2> QED BY <1>1, <2>1, <2>2, ShuffleIs DEF OpIs
<1>2. CASE kind = "LocalH"
  <2>1. Opening(n, kind) = <<Op("barrier", n, "local")>> /\ Width(kind) = 1 /\ 1 < LocalAt(kind)
    BY <1>0, <1>2 DEF Opening, Width
  <2>2. Op("barrier", n, "local") \in Operations
    BY DEF Op, Operations
  <2>3. Opening(n, kind) \in Seq(Operations) /\ Len(Opening(n, kind)) = Width(kind)
        /\ Opening(n, kind)[1] = Op("barrier", n, "local")
    BY <2>1, <2>2
  <2>4. OpIs(n, kind, 1, Opening(n, kind)[1])
    BY <1>2, <2>1, <2>3 DEF OpIs
  <2>5. \A a \in 1 .. Width(kind) : a = 1
    BY <2>1
  <2> QED BY <2>3, <2>4, <2>5
<1>3. CASE kind = "LocalV"
  <2>1. Opening(n, kind) = <<>> /\ Width(kind) = 0
    BY <1>3 DEF Opening, Width
  <2> QED BY <2>1, EmptySeq
<1> QED BY <1>1, <1>2, <1>3 DEF Kinds

\* What ReduceAtEnd does on rank 0 and on the other nodes.
LEMMA ClosingIs ==
    ASSUME NEW n \in Nodes, mpi_nodes > 1
    PROVE  /\ ReduceAtEnd(n) \in Seq(Operations)
           /\ Len(ReduceAtEnd(n)) = IF n > 0 THEN 1 ELSE mpi_nodes
           /\ n > 0 => ReduceAtEnd(n)[1] = Op("send", 0, "result")
           /\ n = 0 => /\ \A m \in Nodes \ {0} : ReduceAtEnd(n)[m] = Op("receive", m, "result")
                       /\ ReduceAtEnd(n)[mpi_nodes] = Op("combine", 0, "result")
<1>0. mpi_nodes \in Nat /\ n \in 0 .. mpi_nodes - 1 /\ 0 \in Nodes /\ n \in Nat
  BY ExchangeAssumption DEF Nodes
<1>1. CASE n > 0
  <2>1. ReduceAtEnd(n) = <<Op("send", 0, "result")>>
    BY <1>1 DEF ReduceAtEnd
  <2>2. Op("send", 0, "result") \in Operations
    BY <1>0 DEF Op, Operations
  <2>3. ~(n = 0)
    BY <1>0, <1>1
  <2> QED BY <1>1, <2>1, <2>2, <2>3
<1>2. CASE n = 0
  <2> DEFINE r == [i \in 1 .. mpi_nodes - 1 |-> Op("receive", i, "result")]
             e == <<Op("combine", 0, "result")>>
  <2>1. ReduceAtEnd(n) = r \o e /\ ~(n > 0)
    BY <1>0, <1>2 DEF ReduceAtEnd
  <2>2. \A i \in 1 .. mpi_nodes - 1 : Op("receive", i, "result") \in Operations
    BY <1>0 DEF Op, Operations, Nodes
  <2>3. r \in Seq(Operations) /\ Len(r) = mpi_nodes - 1
    BY <1>0, <2>2, IsASeq
  <2>4. e \in Seq(Operations) /\ Len(e) = 1 /\ e[1] = Op("combine", 0, "result")
    BY <1>0 DEF Op, Operations
  <2>5. \A i \in 1 .. mpi_nodes - 1 : r[i] = Op("receive", i, "result")
    OBVIOUS
  <2> HIDE DEF r, e
  <2>6. /\ r \o e \in Seq(Operations) /\ Len(r \o e) = Len(r) + Len(e)
        /\ \A i \in 1 .. Len(r) + Len(e) : (r \o e)[i] = IF i <= Len(r) THEN r[i] ELSE e[i - Len(r)]
    BY <2>3, <2>4, ConcatProperties
  <2>7. Len(r \o e) = mpi_nodes
    BY <1>0, <2>3, <2>4, <2>6
  <2>8. ASSUME NEW m \in Nodes \ {0} PROVE (r \o e)[m] = Op("receive", m, "result")
    <3>1. m \in 1 .. mpi_nodes - 1 /\ m \in 1 .. Len(r) + Len(e) /\ m <= Len(r)
      BY <1>0, <2>3, <2>4 DEF Nodes
    <3> QED BY <2>5, <2>6, <3>1
  <2>9. (r \o e)[mpi_nodes] = e[1]
    <3>1. mpi_nodes \in 1 .. Len(r) + Len(e) /\ ~(mpi_nodes <= Len(r)) /\ mpi_nodes - Len(r) = 1
      BY <1>0, <2>3, <2>4
    <3> QED BY <2>6, <3>1
  <2> QED BY <2>1, <2>4, <2>6, <2>7, <2>8, <2>9
<1> QED BY <1>0, <1>1, <1>2

\* What every script has at each position.
LEMMA ScriptIs ==
    ASSUME NEW n \in Nodes, NEW kind \in Kinds
    PROVE  /\ Scripts[n][kind] \in Seq(Operations) /\ Len(Scripts[n][kind]) = Size(n, kind)
           /\ \A a \in 1 .. Size(n, kind) : OpIs(n, kind, a, Scripts[n][kind][a])
<1>0. mpi_nodes \in Nat /\ mpi_nodes # 0 /\ n \in Nat /\ Scripts[n][kind] = Script(n, kind)
  BY ExchangeAssumption DEF Nodes, Scripts
<1> DEFINE e == <<Op("reduce", n, "local")>>
<1>1. e \in Seq(Operations) /\ Len(e) = 1 /\ e[1] = Op("reduce", n, "local")
  BY DEF Op, Operations
<1>2. CASE mpi_nodes > 1
  <2> DEFINE o == Opening(n, kind)
             f == ReduceAtEnd(n)
             W == Width(kind)
  <2>1. Script(n, kind) = o \o e \o f
    BY <1>2 DEF Script
  <2>2. o \in Seq(Operations) /\ Len(o) = W /\ \A a \in 1 .. W : OpIs(n, kind, a, o[a])
    BY <1>2, OpeningIs
  <2>3. f \in Seq(Operations) /\ Len(f) = IF n > 0 THEN 1 ELSE mpi_nodes
    BY <1>2, ClosingIs
  <2>4. W \in Nat /\ Len(f) \in Nat
    BY <2>2, <2>3, LenProperties
  <2>5. LocalAt(kind) = W + 1 /\ Size(n, kind) = W + 1 + Len(f)
    BY <1>2, <2>3 DEF LocalAt, Size
  <2> HIDE DEF e, o, f, W
  <2> DEFINE oe == o \o e
  <2> HIDE DEF oe
  <2>6. /\ oe \in Seq(Operations) /\ Len(oe) = Len(o) + Len(e)
        /\ \A i \in 1 .. Len(o) + Len(e) : oe[i] = IF i <= Len(o) THEN o[i] ELSE e[i - Len(o)]
    BY <1>1, <2>2, ConcatProperties DEF oe
  <2>7. Len(oe) = W + 1
    BY <1>1, <2>2, <2>6
  <2>8. /\ oe \o f \in Seq(Operations) /\ Len(oe \o f) = Len(oe) + Len(f)
        /\ \A i \in 1 .. Len(oe) + Len(f) :
              (oe \o f)[i] = IF i <= Len(oe) THEN oe[i] ELSE f[i - Len(oe)]
    <3>1. oe \in Seq(Operations) /\ f \in Seq(Operations)
      BY <2>3, <2>6
    <3> QED BY <3>1, ConcatProperties
  <2>9. ASSUME NEW a \in 1 .. W + 1 + Len(f) PROVE OpIs(n, kind, a, (oe \o f)[a])
    <3>1. CASE a <= W
      <4>1. a \in 1 .. W /\ a \in 1 .. Len(o) + Len(e) /\ a <= Len(o) /\ a <= W + 1
        BY <1>1, <2>2, <2>4, <3>1
      <4>2. (oe \o f)[a] = o[a]
        BY <2>6, <2>7, <2>8, <4>1
      <4> QED BY <2>2, <4>1, <4>2
    <3>2. CASE a = W + 1
      <4>1. a \in 1 .. Len(o) + Len(e) /\ ~(a <= Len(o)) /\ a - Len(o) = 1 /\ a <= W + 1
        BY <1>1, <2>2, <2>4, <3>2
      <4>2. (oe \o f)[a] = e[1]
        BY <2>6, <2>7, <2>8, <4>1
      <4> QED BY <1>1, <2>5, <3>2, <4>2 DEF OpIs
    <3>3. CASE a > W + 1
      <4>1. PICK d \in 1 .. Len(f) : a = W + 1 + d /\ a - (W + 1) = d
        <5>1. a - (W + 1) \in 1 .. Len(f) /\ a = W + 1 + (a - (W + 1))
          BY <2>4, <3>3
        <5> QED BY <5>1
      <4>2. ~(a <= W + 1)
        BY <2>4, <3>3
      <4>3. (oe \o f)[a] = f[d]
        BY <2>7, <2>8, <4>1, <4>2
      <4>4. a = LocalAt(kind) + d
        BY <2>5, <4>1
      <4>5. CASE n > 0
        <5>1. d = 1
          BY <2>3, <4>1, <4>5
        <5>2. f[1] = Op("send", 0, "result")
          BY <1>2, <4>5, ClosingIs DEF f
        <5> QED BY <1>2, <4>3, <4>4, <4>5, <5>1, <5>2 DEF OpIs
      <4>6. CASE n = 0 /\ d = mpi_nodes
        <5>1. f[mpi_nodes] = Op("combine", 0, "result")
          BY <1>2, <4>6, ClosingIs DEF f
        <5> QED BY <1>2, <4>3, <4>4, <4>6, <5>1 DEF OpIs
      <4>7. CASE n = 0 /\ d # mpi_nodes
        <5>1. d \in Nodes \ {0}
          BY <1>0, <2>3, <4>1, <4>7 DEF Nodes
        <5>2. f[d] = Op("receive", d, "result")
          BY <1>2, <4>7, <5>1, ClosingIs DEF f
        <5>3. n = 0 /\ \E m \in Nodes \ {0} : a = LocalAt(kind) + m /\ f[d] = Op("receive", m, "result")
          BY <4>4, <4>7, <5>1, <5>2
        <5> QED BY <1>2, <4>3, <5>3 DEF OpIs
      <4>8. n > 0 \/ n = 0
        BY <1>0
      <4> QED BY <4>5, <4>6, <4>7, <4>8
    <3>4. a <= W \/ a = W + 1 \/ a > W + 1
      BY <2>4
    <3> QED BY <3>1, <3>2, <3>3, <3>4
  <2>10. Len(oe \o f) = Size(n, kind)
    BY <2>5, <2>7, <2>8
  <2>11. Scripts[n][kind] = oe \o f
    BY <1>0, <2>1 DEF oe
  <2> QED BY <2>5, <2>8, <2>9, <2>10, <2>11
<1>3. CASE ~(mpi_nodes > 1)
  <2>1. Script(n, kind) = e /\ Size(n, kind) = 1 /\ LocalAt(kind) = 1
    BY <1>3 DEF Script, Size, LocalAt
  <2>2. \A a \in 1 .. 1 : OpIs(n, kind, a, e[a])
    BY <1>1, <2>1 DEF OpIs
  <2> QED BY <1>0, <1>1, <2>1, <2>2
<1> QED BY <1>2, <1>3

-----------------------------------------------------------------------------
(* The stream of messages from one node to another, over all calls: how    *)
(* many of them precede a position of the sender, and of the receiver.     *)

\* The messages of a transfer to node m.
Count(m, what) == IF what = "shuffle" THEN 3 + Cardinality(Home(m, "GlobalH")) ELSE 3

Shuffles(c) == Cardinality({d \in 1 .. c - 1 : Kind[d] = "GlobalH"})

\* The messages that any node sends to node m before call c.
Base(m, c) == Count(m, "shuffle") * Shuffles(c) + (IF m = 0 THEN 3 * (c - 1) ELSE 0)

\* Every call is of one of the three kinds.
LEMMA CallsType == Calls \in Nat /\ \A c \in 1 .. Calls : Kind[c] \in Kinds
BY ExchangeAssumption, LenProperties, ElementOfSeq DEF Calls

\* A node reduces finitely many keys.
LEMMA HomeType ==
    ASSUME NEW n, NEW kind
    PROVE  /\ Home(n, kind) \in SUBSET Keys /\ Cardinality(Home(n, kind)) \in Nat
           /\ Cardinality(Home(n, kind)) <= pre_size /\ IsFiniteSet(Home(n, kind))
<1>1. Home(n, kind) \in SUBSET Keys
  BY DEF Home
<1> QED BY <1>1, KeysFinite

\* A transfer has at least three messages, a result has three.
LEMMA CountType ==
    ASSUME NEW m, NEW what
    PROVE  Count(m, what) \in Nat /\ Count(m, what) >= 3 /\ Count(m, what) <= 3 + pre_size /\ Count(m, "result") = 3
BY HomeType, ExchangeAssumption DEF Count

\* One call more that shuffles, or none.
LEMMA ShufflesStep ==
    ASSUME NEW c \in Nat \ {0}
    PROVE  Shuffles(c) \in Nat /\ Shuffles(c + 1) = Shuffles(c) + (IF Kind[c] = "GlobalH" THEN 1 ELSE 0)
<1> DEFINE S == {d \in 1 .. c - 1 : Kind[d] = "GlobalH"}
           R == {d \in 1 .. c : Kind[d] = "GlobalH"}
<1>1. IsFiniteSet(S)
  <2>1. IsFiniteSet(1 .. c - 1)
    BY FS_Interval
  <2>2. S \subseteq 1 .. c - 1
    OBVIOUS
  <2> QED BY <2>1, <2>2, FS_Subset
<1>2. Shuffles(c) = Cardinality(S) /\ Cardinality(S) \in Nat
  BY <1>1, FS_CardinalityType DEF Shuffles
<1>3. Shuffles(c + 1) = Cardinality(R)
  <2>1. (c + 1) - 1 = c
    OBVIOUS
  <2> QED BY <2>1 DEF Shuffles
<1>4. \A d : d \in 1 .. c <=> d \in 1 .. c - 1 \/ d = c
  OBVIOUS
<1>5. CASE Kind[c] = "GlobalH"
  <2>1. R = S \cup {c} /\ c \notin S
    BY <1>4, <1>5
  <2>2. Cardinality(S \cup {c}) = Cardinality(S) + 1
    BY <1>1, <2>1, FS_AddElement
  <2> QED BY <1>2, <1>3, <1>5, <2>1, <2>2
<1>6. CASE Kind[c] # "GlobalH"
  <2>1. R = S
    BY <1>4, <1>6
  <2> QED BY <1>2, <1>3, <1>6, <2>1
<1> QED BY <1>5, <1>6

\* What one call adds to the messages before the next.
LEMMA BaseStep ==
    ASSUME NEW m \in Nodes, NEW c \in Nat \ {0}
    PROVE  /\ Base(m, c) \in Nat
           /\ Base(m, c + 1) = Base(m, c) + (IF Kind[c] = "GlobalH" THEN Count(m, "shuffle") ELSE 0)
                                          + (IF m = 0 THEN 3 ELSE 0)
<1>1. PICK x \in Nat : x = Shuffles(c) /\ Shuffles(c + 1) = x + (IF Kind[c] = "GlobalH" THEN 1 ELSE 0)
  BY ShufflesStep
<1>2. PICK y \in Nat : y = Count(m, "shuffle")
  BY CountType
<1>3. y * x \in Nat /\ y * (x + 1) = y * x + y /\ y * (x + 0) = y * x
  OBVIOUS
<1>4. (c + 1) - 1 = (c - 1) + 1 /\ 3 * (c - 1) \in Nat /\ 3 * ((c + 1) - 1) = 3 * (c - 1) + 3
  OBVIOUS
<1>5. Base(m, c) = y * x + (IF m = 0 THEN 3 * (c - 1) ELSE 0)
  BY <1>1, <1>2 DEF Base
<1>6. Base(m, c + 1) = y * (x + (IF Kind[c] = "GlobalH" THEN 1 ELSE 0)) + (IF m = 0 THEN 3 * ((c + 1) - 1) ELSE 0)
  BY <1>1, <1>2 DEF Base
<1>7. y * (x + (IF Kind[c] = "GlobalH" THEN 1 ELSE 0)) = y * x + (IF Kind[c] = "GlobalH" THEN y ELSE 0)
  BY <1>3
<1>8. Base(m, c) \in Nat
  BY <1>3, <1>4, <1>5
<1>9. PICK z \in Nat : z = y * x
  BY <1>3
<1> QED BY <1>2, <1>4, <1>5, <1>6, <1>7, <1>8, <1>9

\* No messages come before the first call.
LEMMA BaseFirst == ASSUME NEW m \in Nodes PROVE Base(m, 1) = 0
<1>1. {d \in 1 .. 1 - 1 : Kind[d] = "GlobalH"} = {}
  OBVIOUS
<1>2. Shuffles(1) = 0
  BY <1>1, FS_EmptySet DEF Shuffles
<1>3. PICK y \in Nat : y = Count(m, "shuffle")
  BY CountType
<1>4. y * 0 = 0
  OBVIOUS
<1> QED BY <1>2, <1>3, <1>4 DEF Base

\* Later calls have no fewer messages before them.
LEMMA BaseGrows ==
    ASSUME NEW m \in Nodes, NEW c \in Nat \ {0}, NEW e \in Nat
    PROVE  Base(m, c) <= Base(m, c + e)
<1> DEFINE T == {d \in Nat : ~(Base(m, c) <= Base(m, c + d))}
<1>1. ASSUME NEW d \in T PROVE d - 1 \in T
  <2>1. d \in Nat /\ ~(Base(m, c) <= Base(m, c + d)) /\ Base(m, c) \in Nat
    BY <1>1, BaseStep
  <2>2. d # 0
    <3>1. c + 0 = c
      OBVIOUS
    <3> QED BY <2>1, <3>1
  <2>3. PICK b \in Nat \ {0} : b = c + (d - 1) /\ c + d = b + 1 /\ d - 1 \in Nat
    BY <2>1, <2>2
  <2>4. Base(m, b) \in Nat /\ Base(m, b + 1) \in Nat /\ Base(m, b) <= Base(m, b + 1)
    BY BaseStep, CountType
  <2>5. ~(Base(m, c) <= Base(m, b))
    BY <2>1, <2>3, <2>4
  <2> QED BY <2>3, <2>5
<1>2. T = {}
  <2> HIDE DEF T
  <2>1. T \in SUBSET Nat
    BY DEF T
  <2> QED BY <1>1, <2>1, Descent
<1> QED BY <1>2

\* So the number grows with the call.
LEMMA BaseMonotone ==
    ASSUME NEW m \in Nodes, NEW c \in Nat \ {0}, NEW d \in Nat \ {0}, c <= d
    PROVE  Base(m, c) \in Nat /\ Base(m, d) \in Nat /\ Base(m, c) <= Base(m, d)
<1>1. PICK e \in Nat : d = c + e
  <2>1. d - c \in Nat /\ d = c + (d - c)
    OBVIOUS
  <2> QED BY <2>1
<1> QED BY <1>1, BaseGrows, BaseStep

-----------------------------------------------------------------------------
\* The number of a message in the stream to node m.
Index(m, part) ==
    Base(m, part.call) + (IF part.what = "result" /\ Kind[part.call] = "GlobalH" THEN Count(m, "shuffle") ELSE 0)
        + part.number

Parts == [call : Nat, what : {"shuffle", "result"}, number : Nat]

\* There is such a message to node m.
Valid(m, part) ==
    /\ part \in Parts /\ part.call \in 1 .. Calls /\ part.number \in 1 .. Count(m, part.what)
    /\ part.what = "shuffle" => Kind[part.call] = "GlobalH"
    /\ part.what = "result" => m = 0

\* The messages of a call come after those of the call before it.
LEMMA IndexInCall ==
    ASSUME NEW m \in Nodes, NEW part, Valid(m, part)
    PROVE  /\ Index(m, part) \in Nat
           /\ Base(m, part.call) < Index(m, part) /\ Index(m, part) <= Base(m, part.call + 1)
<1>1. /\ part.call \in Nat \ {0} /\ part.number \in Nat /\ 1 <= part.number
      /\ part.number <= Count(m, part.what) /\ part.what \in {"shuffle", "result"}
  BY CallsType, CountType DEF Valid, Parts
<1>2. /\ Base(m, part.call) \in Nat
      /\ Base(m, part.call + 1) = Base(m, part.call) + (IF Kind[part.call] = "GlobalH" THEN Count(m, "shuffle") ELSE 0)
                                                     + (IF m = 0 THEN 3 ELSE 0)
  BY <1>1, BaseStep
<1>3. Count(m, "shuffle") \in Nat /\ Count(m, "result") = 3
  BY CountType
<1>4. CASE part.what = "shuffle"
  <2>1. Kind[part.call] = "GlobalH" /\ part.what # "result"
    BY <1>4 DEF Valid
  <2>2. Index(m, part) = Base(m, part.call) + 0 + part.number
    BY <1>4, <2>1 DEF Index
  <2>3. part.number <= Count(m, "shuffle")
    BY <1>1, <1>4
  <2> QED BY <1>1, <1>2, <1>3, <2>1, <2>2, <2>3
<1>5. CASE part.what = "result"
  <2>1. m = 0 /\ part.number <= 3
    BY <1>1, <1>3, <1>5 DEF Valid
  <2>2. Index(m, part) = Base(m, part.call) + (IF Kind[part.call] = "GlobalH" THEN Count(m, "shuffle") ELSE 0) + part.number
    BY <1>5 DEF Index
  <2> QED BY <1>1, <1>2, <1>3, <2>1, <2>2
<1> QED BY <1>1, <1>4, <1>5

\* The number tells the call, the phase and the number within the transfer.
LEMMA IndexTells ==
    ASSUME NEW m \in Nodes, NEW p, NEW q, Valid(m, p), Valid(m, q), Index(m, p) = Index(m, q)
    PROVE  p = q
<1>1. /\ Index(m, p) \in Nat /\ Base(m, p.call) < Index(m, p) /\ Index(m, p) <= Base(m, p.call + 1)
      /\ Index(m, q) \in Nat /\ Base(m, q.call) < Index(m, q) /\ Index(m, q) <= Base(m, q.call + 1)
  BY IndexInCall
<1>2. p.call \in Nat \ {0} /\ q.call \in Nat \ {0}
  BY CallsType DEF Valid
<1>3. p.call = q.call
  <2>1. CASE p.call < q.call
    <3>1. p.call + 1 <= q.call /\ p.call + 1 \in Nat \ {0}
      BY <1>2, <2>1
    <3>2. Base(m, p.call + 1) \in Nat /\ Base(m, q.call) \in Nat /\ Base(m, p.call + 1) <= Base(m, q.call)
      BY <1>2, <3>1, BaseMonotone
    <3> QED BY <1>1, <3>2
  <2>2. CASE q.call < p.call
    <3>1. q.call + 1 <= p.call /\ q.call + 1 \in Nat \ {0}
      BY <1>2, <2>2
    <3>2. Base(m, q.call + 1) \in Nat /\ Base(m, p.call) \in Nat /\ Base(m, q.call + 1) <= Base(m, p.call)
      BY <1>2, <3>1, BaseMonotone
    <3> QED BY <1>1, <3>2
  <2> QED BY <1>2, <2>1, <2>2
<1>4. /\ p \in Parts /\ q \in Parts /\ p.number \in Nat /\ q.number \in Nat
      /\ 1 <= p.number /\ 1 <= q.number /\ p.number <= Count(m, p.what) /\ q.number <= Count(m, q.what)
      /\ p.what \in {"shuffle", "result"} /\ q.what \in {"shuffle", "result"}
  BY CountType DEF Valid, Parts
<1>5. Base(m, p.call) \in Nat /\ Count(m, "shuffle") \in Nat
  BY <1>2, BaseStep, CountType
<1>6. p.what = q.what
  <2>1. ASSUME NEW x, NEW y, Valid(m, x), Valid(m, y), x.call = y.call, x.what = "shuffle", y.what = "result",
               x.number \in Nat, y.number \in Nat, x.number <= Count(m, "shuffle"), 1 <= y.number,
               Base(m, x.call) \in Nat
        PROVE  Index(m, x) # Index(m, y)
    <3>1. Kind[x.call] = "GlobalH"
      BY <2>1 DEF Valid
    <3>2. Index(m, x) = Base(m, x.call) + 0 + x.number
      BY <2>1 DEF Index
    <3>3. Index(m, y) = Base(m, x.call) + Count(m, "shuffle") + y.number
      BY <2>1, <3>1 DEF Index
    <3> QED BY <1>5, <2>1, <3>2, <3>3
  <2>2. CASE p.what = "shuffle" /\ q.what = "result"
    BY <1>3, <1>4, <1>5, <2>1, <2>2
  <2>3. CASE q.what = "shuffle" /\ p.what = "result"
    BY <1>3, <1>4, <1>5, <2>1, <2>3
  <2> QED BY <1>4, <2>2, <2>3
<1>7. p.number = q.number
  BY <1>3, <1>4, <1>5, <1>6 DEF Index
<1> QED BY <1>3, <1>4, <1>6, <1>7 DEF Parts

\* The operation of node n at position a of call c, and the position after it.
Operation(n, c, a) == Scripts[n][Kind[c]][a]

NextCall(n, c, a) == IF a < Size(n, Kind[c]) THEN c ELSE c + 1

NextAt(n, c, a) == IF a < Size(n, Kind[c]) THEN a + 1 ELSE 1

\* The positions of a node, one of them after its last call.
Position(n, c, a) ==
    /\ c \in 1 .. Calls + 1 /\ a \in Nat \ {0}
    /\ c <= Calls => a <= Size(n, Kind[c])

Does(n, c, a, do, m) == c <= Calls /\ Operation(n, c, a).do = do /\ Operation(n, c, a).peer = m

\* What node n has sent to m when it is at a position and has sent x messages there,
\* and what node n has received from m.
SentBy(n, m, c, a, x) ==
    Base(m, c) + (IF c <= Calls /\ Kind[c] = "GlobalH" /\ a > SendAt(n, m) THEN Count(m, "shuffle") ELSE 0)
        + (IF Does(n, c, a, "send", m) THEN x ELSE 0)

GotBy(n, m, c, a, x) ==
    Base(n, c) + (IF c <= Calls /\ Kind[c] = "GlobalH" /\ a > ReceiveAt(n, m) THEN Count(n, "shuffle") ELSE 0)
        + (IF c <= Calls /\ n = 0 /\ a > LocalAt(Kind[c]) + m THEN 3 ELSE 0)
        + (IF Does(n, c, a, "receive", m) THEN x ELSE 0)

\* The fields of an operation.
LEMMA OpFields ==
    ASSUME NEW do, NEW p, NEW what
    PROVE  Op(do, p, what).do = do /\ Op(do, p, what).peer = p /\ Op(do, p, what).what = what
BY DEF Op

\* Where the local reduction is.
LEMMA LocalAtIs ==
    ASSUME NEW kind \in Kinds
    PROVE  /\ LocalAt(kind) \in Nat /\ LocalAt(kind) >= 1
           /\ kind = "GlobalH" => LocalAt(kind) = 2 * (mpi_nodes - 1) + 1
           /\ kind = "LocalH" /\ mpi_nodes > 1 => LocalAt(kind) = 2
           /\ kind = "LocalV" => LocalAt(kind) = 1
<1>1. mpi_nodes \in Nat /\ mpi_nodes >= 1
  BY ExchangeAssumption
<1> QED BY <1>1 DEF LocalAt, Width, Kinds

\* After the local reduction there is an operation, if there are other nodes.
LEMMA SizeIs ==
    ASSUME NEW n \in Nodes, NEW kind \in Kinds
    PROVE  /\ Size(n, kind) \in Nat /\ Size(n, kind) >= LocalAt(kind)
           /\ mpi_nodes > 1 => Size(n, kind) > LocalAt(kind)
<1>1. mpi_nodes \in Nat /\ mpi_nodes >= 1
  BY ExchangeAssumption
<1> QED BY <1>1, LocalAtIs DEF Size, LocalAt

\* Operations at the positions of a script.
LEMMA OperationIs ==
    ASSUME NEW n \in Nodes, NEW c \in 1 .. Calls, NEW a \in 1 .. Size(n, Kind[c])
    PROVE  Operation(n, c, a) \in Operations /\ OpIs(n, Kind[c], a, Operation(n, c, a))
<1>1. Kind[c] \in Kinds
  BY CallsType
<1>2. /\ Scripts[n][Kind[c]] \in Seq(Operations) /\ Len(Scripts[n][Kind[c]]) = Size(n, Kind[c])
      /\ \A b \in 1 .. Size(n, Kind[c]) : OpIs(n, Kind[c], b, Scripts[n][Kind[c]][b])
  BY <1>1, ScriptIs
<1>3. Scripts[n][Kind[c]][a] \in Operations
  BY <1>2, ElementOfSeq
<1> QED BY <1>2, <1>3 DEF Operation

\* What an operation is, by what it does.
LEMMA SendIs ==
    ASSUME NEW n \in Nodes, NEW c \in 1 .. Calls, NEW a \in 1 .. Size(n, Kind[c]),
           Operation(n, c, a).do = "send"
    PROVE  LET o == Operation(n, c, a) IN
           /\ mpi_nodes > 1 /\ o.peer \in Nodes \ {n}
           /\ \/ o.what = "shuffle" /\ Kind[c] = "GlobalH" /\ a < LocalAt(Kind[c]) /\ a = SendAt(n, o.peer)
              \/ o.what = "result" /\ n > 0 /\ o.peer = 0 /\ a = LocalAt(Kind[c]) + 1
<1>1. OpIs(n, Kind[c], a, Operation(n, c, a))
  BY OperationIs
<1>2. 0 \in Nodes /\ n \in Nat
  BY ExchangeAssumption DEF Nodes
<1>3. CASE /\ Kind[c] = "GlobalH" /\ mpi_nodes > 1 /\ a < LocalAt(Kind[c])
           /\ \E m \in Nodes \ {n} : a = SendAt(n, m) /\ Operation(n, c, a) = Op("send", m, "shuffle")
  BY <1>3, OpFields
<1>4. CASE mpi_nodes > 1 /\ n > 0 /\ a = LocalAt(Kind[c]) + 1 /\ Operation(n, c, a) = Op("send", 0, "result")
  BY <1>2, <1>4, OpFields
<1> QED BY <1>1, <1>3, <1>4, OpFields DEF OpIs

\* What a receive can be.
LEMMA ReceiveIs ==
    ASSUME NEW n \in Nodes, NEW c \in 1 .. Calls, NEW a \in 1 .. Size(n, Kind[c]),
           Operation(n, c, a).do = "receive"
    PROVE  LET o == Operation(n, c, a) IN
           /\ mpi_nodes > 1 /\ o.peer \in Nodes \ {n}
           /\ \/ o.what = "shuffle" /\ Kind[c] = "GlobalH" /\ a < LocalAt(Kind[c]) /\ a = ReceiveAt(n, o.peer)
              \/ o.what = "result" /\ n = 0 /\ a = LocalAt(Kind[c]) + o.peer
<1>1. OpIs(n, Kind[c], a, Operation(n, c, a))
  BY OperationIs
<1>3. CASE /\ Kind[c] = "GlobalH" /\ mpi_nodes > 1 /\ a < LocalAt(Kind[c])
           /\ \E m \in Nodes \ {n} : a = ReceiveAt(n, m) /\ Operation(n, c, a) = Op("receive", m, "shuffle")
  BY <1>3, OpFields
<1>4. CASE /\ mpi_nodes > 1 /\ n = 0
           /\ \E m \in Nodes \ {0} : a = LocalAt(Kind[c]) + m /\ Operation(n, c, a) = Op("receive", m, "result")
  BY <1>4, OpFields
<1> QED BY <1>1, <1>3, <1>4, OpFields DEF OpIs

\* What a barrier, a local reduction and a combination can be.
LEMMA OthersIs ==
    ASSUME NEW n \in Nodes, NEW c \in 1 .. Calls, NEW a \in 1 .. Size(n, Kind[c])
    PROVE  LET o == Operation(n, c, a) IN
           /\ o.do = "barrier" => Kind[c] = "LocalH" /\ mpi_nodes > 1 /\ a = 1 /\ LocalAt(Kind[c]) = 2
           /\ o.do = "reduce" => a = LocalAt(Kind[c])
           /\ o.do = "combine" => mpi_nodes > 1 /\ n = 0 /\ a = LocalAt(Kind[c]) + mpi_nodes
<1>1. OpIs(n, Kind[c], a, Operation(n, c, a)) /\ Kind[c] \in Kinds
  BY OperationIs, CallsType
<1>2. Operation(n, c, a).do = "barrier" => Kind[c] = "LocalH" /\ mpi_nodes > 1 /\ a < LocalAt(Kind[c])
  BY <1>1, OpFields DEF OpIs
<1>3. Operation(n, c, a).do = "reduce" => a = LocalAt(Kind[c])
  BY <1>1, OpFields DEF OpIs
<1>4. Operation(n, c, a).do = "combine" => mpi_nodes > 1 /\ n = 0 /\ a = LocalAt(Kind[c]) + mpi_nodes
  BY <1>1, OpFields DEF OpIs
<1>5. Kind[c] = "LocalH" /\ mpi_nodes > 1 => LocalAt(Kind[c]) = 2
  BY <1>1, LocalAtIs
<1>6. a < 2 => a = 1
  OBVIOUS
<1> QED BY <1>2, <1>3, <1>4, <1>5, <1>6

\* What a node does at a position, by the position.
LEMMA PlaceIs ==
    ASSUME NEW n \in Nodes, NEW c \in 1 .. Calls, NEW a \in 1 .. Size(n, Kind[c])
    PROVE  LET o == Operation(n, c, a) IN
           /\ o.do \in {"send", "receive", "barrier", "reduce", "combine"}
           /\ a = LocalAt(Kind[c]) => o.do = "reduce"
           /\ a > LocalAt(Kind[c]) => /\ mpi_nodes > 1 /\ o.do \in {"send", "receive", "combine"}
                                      /\ o.do \in {"send", "receive"} => o.what = "result"
           /\ a < LocalAt(Kind[c]) => /\ mpi_nodes > 1 /\ o.do \in {"send", "receive", "barrier"}
                                      /\ o.do \in {"send", "receive"} => o.what = "shuffle"
<1>1. Operation(n, c, a) \in Operations /\ Kind[c] \in Kinds
  BY OperationIs, CallsType
<1>2. Operation(n, c, a).do \in {"send", "receive", "barrier", "reduce", "combine"}
  BY <1>1 DEF Operations
<1>3. LocalAt(Kind[c]) \in Nat /\ mpi_nodes \in Nat /\ n \in Nat /\ \A m \in Nodes : m \in Nat
  BY <1>1, LocalAtIs, ExchangeAssumption DEF Nodes
<1>4. CASE Operation(n, c, a).do = "send"
  BY <1>3, <1>4, SendIs
<1>5. CASE Operation(n, c, a).do = "receive"
  <2>1. /\ mpi_nodes > 1 /\ Operation(n, c, a).peer \in Nodes \ {n}
        /\ \/ Operation(n, c, a).what = "shuffle" /\ a < LocalAt(Kind[c])
           \/ Operation(n, c, a).what = "result" /\ n = 0 /\ a = LocalAt(Kind[c]) + Operation(n, c, a).peer
    BY <1>5, ReceiveIs
  <2>2. PICK m \in Nodes \ {n} : m = Operation(n, c, a).peer
    BY <2>1
  <2>3. m \in Nat /\ (n = 0 => m > 0)
    BY <1>3, <2>2
  <2> QED BY <1>3, <1>5, <2>1, <2>2, <2>3
<1>6. CASE Operation(n, c, a).do = "barrier"
  BY <1>3, <1>6, OthersIs
<1>7. CASE Operation(n, c, a).do = "reduce"
  BY <1>3, <1>7, OthersIs
<1>8. CASE Operation(n, c, a).do = "combine"
  BY <1>3, <1>8, OthersIs, ExchangeAssumption
<1> QED BY <1>2, <1>4, <1>5, <1>6, <1>7, <1>8

-----------------------------------------------------------------------------
\* How much a node has sent is a number.
LEMMA SentType ==
    ASSUME NEW n, NEW m \in Nodes, NEW c \in Nat \ {0}, NEW a, NEW x \in Nat
    PROVE  SentBy(n, m, c, a, x) \in Nat
BY BaseStep, CountType DEF SentBy

\* How much a node has got is a number.
LEMMA GotType ==
    ASSUME NEW n \in Nodes, NEW m, NEW c \in Nat \ {0}, NEW a, NEW x \in Nat
    PROVE  GotBy(n, m, c, a, x) \in Nat
BY BaseStep, CountType DEF GotBy

\* At the end of an operation the stream goes on at the next one.
LEMMA SentAdvances ==
    ASSUME NEW n \in Nodes, NEW m \in Nodes \ {n}, NEW c \in 1 .. Calls, NEW a \in 1 .. Size(n, Kind[c])
    PROVE  SentBy(n, m, NextCall(n, c, a), NextAt(n, c, a), 0)
               = SentBy(n, m, c, a, Count(m, Operation(n, c, a).what))
<1> DEFINE o == Operation(n, c, a)
           L == LocalAt(Kind[c])
           Cm == Count(m, "shuffle")
           G == Kind[c] = "GlobalH"
<1>1. /\ Kind[c] \in Kinds /\ L \in Nat /\ Size(n, Kind[c]) \in Nat /\ Cm \in Nat /\ Calls \in Nat
      /\ Count(m, "result") = 3 /\ n \in Nat /\ m \in Nat /\ mpi_nodes \in Nat
      /\ (n > 0 => ~(n = 0)) /\ (~(n > 0) => n = 0 /\ m # 0)
  BY CallsType, LocalAtIs, SizeIs, CountType, ExchangeAssumption DEF Nodes
<1>2. mpi_nodes > 1
  BY <1>1 DEF Nodes
<1>3. SendAt(n, m) \in Nat /\ (G => SendAt(n, m) < L)
  BY <1>1, LocalAtIs, TurnsApart
<1>4. Base(m, c) \in Nat /\ Base(m, c + 1) = Base(m, c) + (IF G THEN Cm ELSE 0) + (IF m = 0 THEN 3 ELSE 0)
  BY BaseStep
<1>5. Does(n, c, a, "send", m) <=> o.do = "send" /\ o.peer = m
  BY <1>1 DEF Does
<1>6. o.do = "send" => /\ o.peer \in Nodes \ {n}
                       /\ \/ o.what = "shuffle" /\ G /\ a < L /\ a = SendAt(n, o.peer)
                          \/ o.what = "result" /\ n > 0 /\ o.peer = 0 /\ a = L + 1
  BY SendIs
<1>7. Size(n, Kind[c]) = IF n > 0 THEN L + 1 ELSE L + mpi_nodes
  BY <1>2 DEF Size
<1>8. SentBy(n, m, c, a, Count(m, o.what)) =
        Base(m, c) + (IF G /\ a > SendAt(n, m) THEN Cm ELSE 0)
            + (IF o.do = "send" /\ o.peer = m THEN Count(m, o.what) ELSE 0)
  BY <1>1, <1>5 DEF SentBy
<1>9. \A p \in Nodes \ {n} : SendAt(n, p) = SendAt(n, m) => p = m
  BY TurnsApart
<1>10. \A p \in Nodes \ {n} : ReceiveAt(n, p) # SendAt(n, m)
  BY TurnsApart
<1>11. o.do \in {"send", "receive", "barrier", "reduce", "combine"}
       /\ (a > L => o.do \in {"send", "receive", "combine"}) /\ (a < L => o.do \in {"send", "receive", "barrier"})
  BY PlaceIs
<1>12. a = SendAt(n, m) /\ G => o.do = "send" /\ o.peer = m /\ o.what = "shuffle"
  <2>1. SUFFICES ASSUME a = SendAt(n, m), G PROVE o.do = "send" /\ o.peer = m /\ o.what = "shuffle"
    OBVIOUS
  <2>2. a < L
    BY <1>1, <1>3, <2>1
  <2>3. o.do # "receive"
    <3>1. o.do = "receive" => /\ o.peer \in Nodes \ {n}
                              /\ \/ a = ReceiveAt(n, o.peer)
                                 \/ n = 0 /\ a = L + o.peer
      BY ReceiveIs
    <3>2. \A p \in Nodes : p \in Nat
      BY <1>1 DEF Nodes
    <3>3. \A p \in Nodes : a # L + p
      BY <1>1, <2>2, <3>2
    <3> QED BY <1>10, <2>1, <3>1, <3>3
  <2>4. o.do # "barrier"
    BY <2>1, OthersIs
  <2>5. o.do = "send"
    BY <1>11, <2>2, <2>3, <2>4
  <2>6. a # L + 1
    BY <1>1, <2>2
  <2> QED BY <1>6, <1>9, <2>1, <2>5, <2>6
<1>13. PICK s \in Nat : s = SendAt(n, m)
  BY <1>3
<1>14. PICK b \in Nat : b = Base(m, c)
  BY <1>4
<1>15. a \in Nat
  OBVIOUS
<1> HIDE DEF o, L, Cm
<1>16. CASE a < Size(n, Kind[c])
  <2>1. NextCall(n, c, a) = c /\ NextAt(n, c, a) = a + 1 /\ c <= Calls
    BY <1>1, <1>16 DEF NextCall, NextAt
  <2>2. SentBy(n, m, c, a + 1, 0) = b + (IF G /\ a + 1 > s THEN Cm ELSE 0)
    <3>1. SentBy(n, m, c, a + 1, 0) = b + (IF G /\ a + 1 > s THEN Cm ELSE 0) + 0
      BY <1>13, <1>14, <2>1 DEF SentBy, Cm
    <3> QED BY <1>1, <1>14, <3>1
  <2>3. CASE o.do = "send" /\ o.peer = m
    <3>1. a # L + 1 \/ ~(n > 0)
      BY <1>1, <1>7, <1>16
    <3>2. o.what = "shuffle" /\ G /\ a = s
      BY <1>6, <1>13, <2>3, <3>1
    <3>3. Count(m, o.what) = Cm
      BY <3>2 DEF Cm
    <3>4. ~(a > s) /\ a + 1 > s
      BY <1>15, <3>2
    <3>5. SentBy(n, m, c, a, Count(m, o.what)) = b + 0 + Cm
      BY <1>8, <1>13, <1>14, <2>3, <3>3, <3>4
    <3>6. SentBy(n, m, c, a + 1, 0) = b + Cm
      BY <2>2, <3>2, <3>4
    <3> QED BY <1>1, <1>14, <2>1, <3>5, <3>6 DEF o
  <2>4. CASE ~(o.do = "send" /\ o.peer = m)
    <3>1. G => (a + 1 > s <=> a > s)
      BY <1>12, <1>13, <1>15, <2>4
    <3>2. SentBy(n, m, c, a, Count(m, o.what)) = b + (IF G /\ a > s THEN Cm ELSE 0) + 0
      BY <1>8, <1>13, <1>14, <2>4
    <3>3. b + (IF G /\ a > s THEN Cm ELSE 0) + 0 = b + (IF G /\ a > s THEN Cm ELSE 0)
      BY <1>1, <1>14
    <3>4. (IF G /\ a > s THEN Cm ELSE 0) = (IF G /\ a + 1 > s THEN Cm ELSE 0)
      BY <3>1
    <3> QED BY <2>1, <2>2, <3>2, <3>3, <3>4 DEF o
  <2> QED BY <2>3, <2>4
<1>17. CASE ~(a < Size(n, Kind[c]))
  <2>1. NextCall(n, c, a) = c + 1 /\ NextAt(n, c, a) = 1 /\ a = Size(n, Kind[c])
    BY <1>1, <1>17 DEF NextCall, NextAt
  <2>2. SentBy(n, m, c + 1, 1, 0) = Base(m, c + 1)
    <3>1. ~(1 > SendAt(n, m))
      BY TurnsApart
    <3>2. Base(m, c + 1) \in Nat
      BY BaseStep
    <3> QED BY <3>1, <3>2 DEF SentBy
  <2>3. a > L
    BY <1>1, <1>2, <1>7, <2>1
  <2>4. G => a > s
    BY <1>1, <1>3, <1>13, <1>15, <2>3
  <2>5. SentBy(n, m, c, a, Count(m, o.what)) =
            b + (IF G THEN Cm ELSE 0) + (IF o.do = "send" /\ o.peer = m THEN Count(m, o.what) ELSE 0)
    BY <1>8, <1>13, <1>14, <2>4
  <2>6. Base(m, c + 1) = b + (IF G THEN Cm ELSE 0) + (IF m = 0 THEN 3 ELSE 0)
    BY <1>4, <1>14
  <2>7. (IF o.do = "send" /\ o.peer = m THEN Count(m, o.what) ELSE 0) = (IF m = 0 THEN 3 ELSE 0)
    <3>1. CASE n > 0
      <4>1. a = L + 1
        BY <1>7, <2>1, <3>1
      <4>2. o.do # "receive" /\ o.do # "combine"
        <5>1. o.do = "receive" => \/ o.what = "shuffle" /\ a < L
                                  \/ o.what = "result" /\ n = 0
          BY ReceiveIs DEF o, L
        <5>2. o.do = "combine" => n = 0
          BY OthersIs DEF o
        <5>3. ~(a < L)
          BY <1>1, <1>15, <2>3
        <5> QED BY <1>1, <3>1, <5>1, <5>2, <5>3
      <4>3. o.do = "send"
        BY <1>11, <2>3, <4>2
      <4>4. ~(a < L)
        BY <1>1, <1>15, <2>3
      <4>5. o.peer = 0 /\ o.what = "result"
        BY <1>6, <4>3, <4>4
      <4> QED BY <1>1, <4>3, <4>5
    <3>2. CASE ~(n > 0)
      <4>1. ~(a < L)
        BY <1>1, <1>15, <2>3
      <4>2. o.do # "send"
        BY <1>6, <3>2, <4>1
      <4> QED BY <1>1, <3>2, <4>2
    <3> QED BY <3>1, <3>2
  <2> QED BY <2>1, <2>2, <2>5, <2>6, <2>7 DEF o
<1> QED BY <1>16, <1>17 DEF o

\* The same for what is received.
LEMMA GotAdvances ==
    ASSUME NEW n \in Nodes, NEW m \in Nodes \ {n}, NEW c \in 1 .. Calls, NEW a \in 1 .. Size(n, Kind[c])
    PROVE  GotBy(n, m, NextCall(n, c, a), NextAt(n, c, a), 0)
               = GotBy(n, m, c, a, Count(n, Operation(n, c, a).what))
<1> DEFINE o == Operation(n, c, a)
           L == LocalAt(Kind[c])
           Cn == Count(n, "shuffle")
           G == Kind[c] = "GlobalH"
<1>1. /\ Kind[c] \in Kinds /\ L \in Nat /\ Size(n, Kind[c]) \in Nat /\ Cn \in Nat /\ Calls \in Nat
      /\ Count(n, "result") = 3 /\ n \in Nat /\ m \in Nat /\ mpi_nodes \in Nat /\ a \in Nat
      /\ (n > 0 => ~(n = 0)) /\ (~(n > 0) => n = 0 /\ m > 0) /\ m < mpi_nodes
  BY CallsType, LocalAtIs, SizeIs, CountType, ExchangeAssumption DEF Nodes
<1>2. mpi_nodes > 1
  BY <1>1 DEF Nodes
<1>3. PICK s \in Nat : s = ReceiveAt(n, m)
  BY TurnsApart
<1>4. G => s < L
  BY <1>1, <1>3, LocalAtIs, TurnsApart
<1>5. PICK b \in Nat : b = Base(n, c) /\ Base(n, c + 1) = b + (IF G THEN Cn ELSE 0) + (IF n = 0 THEN 3 ELSE 0)
  BY BaseStep
<1>6. o.do = "receive" => /\ o.peer \in Nodes \ {n}
                          /\ \/ o.what = "shuffle" /\ G /\ a < L /\ a = ReceiveAt(n, o.peer)
                             \/ o.what = "result" /\ n = 0 /\ a = L + o.peer
  BY ReceiveIs
<1>7. Size(n, Kind[c]) = IF n > 0 THEN L + 1 ELSE L + mpi_nodes
  BY <1>2 DEF Size
<1>8. GotBy(n, m, c, a, Count(n, o.what)) =
        b + (IF G /\ a > s THEN Cn ELSE 0) + (IF n = 0 /\ a > L + m THEN 3 ELSE 0)
            + (IF o.do = "receive" /\ o.peer = m THEN Count(n, o.what) ELSE 0)
  <2>1. c <= Calls
    BY <1>1
  <2>2. Does(n, c, a, "receive", m) <=> o.do = "receive" /\ o.peer = m
    BY <2>1 DEF Does
  <2> QED BY <1>3, <1>5, <2>1, <2>2 DEF GotBy
<1>9. \A p \in Nodes \ {n} : ReceiveAt(n, p) = ReceiveAt(n, m) => p = m
  BY TurnsApart
<1>10. \A p \in Nodes \ {n} : SendAt(n, p) # ReceiveAt(n, m)
  BY TurnsApart
<1>11. o.do \in {"send", "receive", "barrier", "reduce", "combine"}
       /\ (a > L => o.do \in {"send", "receive", "combine"}) /\ (a < L => o.do \in {"send", "receive", "barrier"})
  BY PlaceIs
<1>12. o.do = "send" => /\ o.peer \in Nodes \ {n}
                        /\ \/ o.what = "shuffle" /\ G /\ a < L /\ a = SendAt(n, o.peer)
                           \/ o.what = "result" /\ n > 0 /\ o.peer = 0 /\ a = L + 1
  BY SendIs
<1>13. o.do = "barrier" => ~G
  BY OthersIs
<1>14. o.do = "combine" => n = 0 /\ a = L + mpi_nodes
  BY OthersIs
<1>15. \A p \in Nodes : p \in Nat /\ (a # L + p \/ ~(a < L))
  BY <1>1 DEF Nodes
<1> HIDE DEF o, L, Cn
<1>16. a = s /\ G => o.do = "receive" /\ o.peer = m /\ o.what = "shuffle"
  <2>1. SUFFICES ASSUME a = s, G PROVE o.do = "receive" /\ o.peer = m /\ o.what = "shuffle"
    OBVIOUS
  <2>2. a < L /\ a # L + 1
    BY <1>1, <1>3, <1>4, <2>1
  <2>3. o.do # "send" /\ o.do # "barrier"
    BY <1>3, <1>10, <1>12, <1>13, <2>1, <2>2
  <2>4. o.do = "receive"
    BY <1>11, <2>2, <2>3
  <2> QED BY <1>3, <1>6, <1>9, <1>15, <2>1, <2>2, <2>4
<1>17. n = 0 /\ a = L + m => o.do = "receive" /\ o.peer = m /\ o.what = "result"
  <2>1. SUFFICES ASSUME n = 0, a = L + m PROVE o.do = "receive" /\ o.peer = m /\ o.what = "result"
    OBVIOUS
  <2>2. a > L /\ ~(a < L) /\ a # L + mpi_nodes /\ ~(n > 0)
    BY <1>1, <2>1
  <2>3. o.do = "receive"
    BY <1>11, <1>12, <1>14, <2>2
  <2>4. o.what = "result" /\ a = L + o.peer /\ o.peer \in Nodes
    BY <1>6, <2>2, <2>3
  <2>5. o.peer \in Nat
    BY <1>1, <2>4 DEF Nodes
  <2> QED BY <1>1, <2>1, <2>3, <2>4, <2>5
<1>18. CASE a < Size(n, Kind[c])
  <2>1. NextCall(n, c, a) = c /\ NextAt(n, c, a) = a + 1 /\ c <= Calls
    BY <1>1, <1>18 DEF NextCall, NextAt
  <2>2. GotBy(n, m, c, a + 1, 0) = b + (IF G /\ a + 1 > s THEN Cn ELSE 0) + (IF n = 0 /\ a + 1 > L + m THEN 3 ELSE 0)
    <3>1. GotBy(n, m, c, a + 1, 0) =
            b + (IF G /\ a + 1 > s THEN Cn ELSE 0) + (IF n = 0 /\ a + 1 > L + m THEN 3 ELSE 0) + 0
      BY <1>3, <1>5, <2>1 DEF GotBy, Cn, L
    <3> QED BY <1>1, <1>5, <3>1
  <2>3. CASE o.do = "receive" /\ o.peer = m /\ o.what = "shuffle"
    <3>1. G /\ a = s /\ a < L
      <4>1. ~(a < L) => n = 0 /\ o.what = "result"
        BY <1>6, <2>3
      <4> QED BY <1>3, <1>6, <2>3, <4>1
    <3>2. Count(n, o.what) = Cn
      BY <2>3 DEF Cn
    <3>3. ~(a > s) /\ a + 1 > s /\ ~(a > L + m) /\ ~(a + 1 > L + m)
      BY <1>1, <3>1
    <3>4. GotBy(n, m, c, a, Count(n, o.what)) = b + 0 + 0 + Cn
      BY <1>8, <2>3, <3>2, <3>3
    <3>5. GotBy(n, m, c, a + 1, 0) = b + Cn + 0
      BY <2>2, <3>1, <3>3
    <3> QED BY <1>1, <1>5, <2>1, <3>4, <3>5 DEF o
  <2>4. CASE o.do = "receive" /\ o.peer = m /\ o.what # "shuffle"
    <3>1. o.what = "result" /\ n = 0 /\ a = L + m
      BY <1>6, <2>4
    <3>2. Count(n, o.what) = 3
      BY <1>1, <3>1
    <3>3. ~(a > L + m) /\ a + 1 > L + m /\ (G => a > s) /\ (G => a + 1 > s)
      BY <1>1, <1>3, <1>4, <3>1
    <3>4. GotBy(n, m, c, a, Count(n, o.what)) = b + (IF G THEN Cn ELSE 0) + 0 + 3
      BY <1>8, <2>4, <3>1, <3>2, <3>3
    <3>5. GotBy(n, m, c, a + 1, 0) = b + (IF G THEN Cn ELSE 0) + 3
      BY <2>2, <3>1, <3>3
    <3> QED BY <1>1, <1>5, <2>1, <3>4, <3>5 DEF o
  <2>5. CASE ~(o.do = "receive" /\ o.peer = m)
    <3>1. G => (a + 1 > s <=> a > s)
      BY <1>1, <1>16, <2>5
    <3>2. n = 0 => (a + 1 > L + m <=> a > L + m)
      BY <1>1, <1>17, <2>5
    <3>3. GotBy(n, m, c, a, Count(n, o.what)) =
            b + (IF G /\ a > s THEN Cn ELSE 0) + (IF n = 0 /\ a > L + m THEN 3 ELSE 0) + 0
      BY <1>8, <2>5
    <3>4. (IF G /\ a > s THEN Cn ELSE 0) = (IF G /\ a + 1 > s THEN Cn ELSE 0)
      BY <3>1
    <3>5. (IF n = 0 /\ a > L + m THEN 3 ELSE 0) = (IF n = 0 /\ a + 1 > L + m THEN 3 ELSE 0)
      BY <3>2
    <3>6. \A x, y \in Nat : b + x + y + 0 = b + x + y
      BY <1>5
    <3>7. (IF G /\ a > s THEN Cn ELSE 0) \in Nat /\ (IF n = 0 /\ a > L + m THEN 3 ELSE 0) \in Nat
      BY <1>1
    <3> QED BY <2>1, <2>2, <3>3, <3>4, <3>5, <3>6, <3>7 DEF o
  <2> QED BY <2>3, <2>4, <2>5
<1>19. CASE ~(a < Size(n, Kind[c]))
  <2>1. NextCall(n, c, a) = c + 1 /\ NextAt(n, c, a) = 1 /\ a = Size(n, Kind[c])
    BY <1>1, <1>19 DEF NextCall, NextAt
  <2>2. GotBy(n, m, c + 1, 1, 0) = Base(n, c + 1)
    <3>1. ~(1 > ReceiveAt(n, m))
      BY TurnsApart
    <3>2. Base(n, c + 1) \in Nat
      BY BaseStep
    <3>3. c + 1 <= Calls => LocalAt(Kind[c + 1]) \in Nat /\ LocalAt(Kind[c + 1]) >= 1
      BY <1>1, CallsType, LocalAtIs
    <3>4. ~(c + 1 <= Calls /\ 1 > LocalAt(Kind[c + 1]) + m)
      BY <1>1, <3>3
    <3> QED BY <3>1, <3>2, <3>4 DEF GotBy
  <2>3. a > L /\ ~(a < L)
    BY <1>1, <1>2, <1>7, <2>1
  <2>4. G => a > s
    BY <1>1, <1>3, <1>4, <2>3
  <2>5. n = 0 => a > L + m
    BY <1>1, <1>7, <2>1
  <2>6. o.do = "receive" => FALSE
    <3>1. SUFFICES ASSUME o.do = "receive" PROVE FALSE
      OBVIOUS
    <3>2. n = 0 /\ a = L + o.peer /\ o.peer \in Nodes
      BY <1>6, <2>3, <3>1
    <3>3. o.peer < mpi_nodes /\ o.peer \in Nat
      BY <1>1, <3>2 DEF Nodes
    <3> QED BY <1>1, <1>7, <2>1, <3>2, <3>3
  <2>7. GotBy(n, m, c, a, Count(n, o.what)) = b + (IF G THEN Cn ELSE 0) + (IF n = 0 THEN 3 ELSE 0) + 0
    BY <1>8, <2>4, <2>5, <2>6
  <2> QED BY <1>1, <1>5, <2>1, <2>2, <2>7 DEF o
<1> QED BY <1>18, <1>19 DEF o

\* The part of a message that is sent at a position after x others of the transfer.
Part(n, c, a, x) == [call |-> c, what |-> Operation(n, c, a).what, number |-> x]

\* The next message of a transfer is the next one of the stream, for its sender.
LEMMA PartSent ==
    ASSUME NEW n \in Nodes, NEW m \in Nodes \ {n}, NEW c \in 1 .. Calls, NEW a \in 1 .. Size(n, Kind[c]),
           Operation(n, c, a).do = "send", Operation(n, c, a).peer = m,
           NEW x \in Nat, x < Count(m, Operation(n, c, a).what)
    PROVE  /\ Valid(m, Part(n, c, a, x + 1))
           /\ Index(m, Part(n, c, a, x + 1)) = SentBy(n, m, c, a, x) + 1
           /\ SentBy(n, m, c, a, x + 1) = SentBy(n, m, c, a, x) + 1
<1> DEFINE w == Operation(n, c, a).what
           p == Part(n, c, a, x + 1)
           L == LocalAt(Kind[c])
<1>1. /\ c \in Nat /\ a \in Nat /\ c <= Calls /\ L \in Nat /\ Kind[c] \in Kinds
  BY CallsType, LocalAtIs
<1>2. \/ w = "shuffle" /\ Kind[c] = "GlobalH" /\ a < L /\ a = SendAt(n, m)
      \/ w = "result" /\ n > 0 /\ m = 0 /\ a = L + 1
  BY SendIs
<1>3. p.call = c /\ p.what = w /\ p.number = x + 1 /\ p = [call |-> c, what |-> w, number |-> x + 1]
  BY DEF Part
<1>4. Count(m, w) \in Nat /\ Count(m, "shuffle") \in Nat
  BY CountType
<1>5. PICK b \in Nat : b = Base(m, c)
  BY <1>1, BaseStep
<1>6. PICK s \in Nat : s = SendAt(n, m) /\ (Kind[c] = "GlobalH" => s < L)
  <2>1. SendAt(n, m) \in 1 .. 2 * (mpi_nodes - 1) /\ mpi_nodes \in Nat
    BY TurnsApart, ExchangeAssumption
  <2>2. Kind[c] = "GlobalH" => L = 2 * (mpi_nodes - 1) + 1
    BY <1>1, LocalAtIs
  <2>3. SendAt(n, m) \in Nat /\ (Kind[c] = "GlobalH" => SendAt(n, m) < L)
    <3> HIDE DEF L
    <3> QED BY <2>1, <2>2
  <2> QED BY <2>3
<1>7. Does(n, c, a, "send", m)
  BY <1>1 DEF Does
<1> HIDE DEF w, p, L
<1>8. Valid(m, p)
  <2>1. p \in Parts
    BY <1>1, <1>2, <1>3 DEF Parts
  <2>2. x + 1 \in 1 .. Count(m, w)
    BY <1>4 DEF w
  <2> QED BY <1>2, <1>3, <2>1, <2>2 DEF Valid
<1>9. SentBy(n, m, c, a, x) = b + (IF Kind[c] = "GlobalH" /\ a > s THEN Count(m, "shuffle") ELSE 0) + x
      /\ SentBy(n, m, c, a, x + 1) = b + (IF Kind[c] = "GlobalH" /\ a > s THEN Count(m, "shuffle") ELSE 0) + (x + 1)
  BY <1>1, <1>5, <1>6, <1>7 DEF SentBy
<1>10. Index(m, p) = b + (IF w = "result" /\ Kind[c] = "GlobalH" THEN Count(m, "shuffle") ELSE 0) + (x + 1)
  BY <1>3, <1>5 DEF Index
<1>11. (w = "result" /\ Kind[c] = "GlobalH") <=> (Kind[c] = "GlobalH" /\ a > s)
  <2>1. CASE w = "shuffle"
    <3>1. ~(a > s)
      BY <1>1, <1>2, <1>6, <2>1
    <3> QED BY <2>1, <3>1
  <2>2. CASE w = "result"
    <3>1. Kind[c] = "GlobalH" => a > s
      BY <1>1, <1>2, <1>6, <2>2
    <3> QED BY <2>2, <3>1
  <2> QED BY <1>2, <2>1, <2>2
<1> QED BY <1>4, <1>8, <1>9, <1>10, <1>11 DEF p

\* And for its receiver.
LEMMA PartGot ==
    ASSUME NEW n \in Nodes, NEW m \in Nodes \ {n}, NEW c \in 1 .. Calls, NEW a \in 1 .. Size(n, Kind[c]),
           Operation(n, c, a).do = "receive", Operation(n, c, a).peer = m,
           NEW x \in Nat, x < Count(n, Operation(n, c, a).what)
    PROVE  /\ Valid(n, Part(n, c, a, x + 1))
           /\ Index(n, Part(n, c, a, x + 1)) = GotBy(n, m, c, a, x) + 1
           /\ GotBy(n, m, c, a, x + 1) = GotBy(n, m, c, a, x) + 1
<1> DEFINE w == Operation(n, c, a).what
           p == Part(n, c, a, x + 1)
           L == LocalAt(Kind[c])
<1>1. /\ c \in Nat /\ a \in Nat /\ c <= Calls /\ L \in Nat /\ Kind[c] \in Kinds /\ m \in Nat
      /\ (n = 0 => m > 0)
  BY CallsType, LocalAtIs, ExchangeAssumption DEF Nodes
<1>2. \/ w = "shuffle" /\ Kind[c] = "GlobalH" /\ a < L /\ a = ReceiveAt(n, m)
      \/ w = "result" /\ n = 0 /\ a = L + m
  BY ReceiveIs
<1>3. p.call = c /\ p.what = w /\ p.number = x + 1 /\ p = [call |-> c, what |-> w, number |-> x + 1]
  BY DEF Part
<1>4. Count(n, w) \in Nat /\ Count(n, "shuffle") \in Nat
  BY CountType
<1>5. PICK b \in Nat : b = Base(n, c)
  BY <1>1, BaseStep
<1>6. PICK s \in Nat : s = ReceiveAt(n, m) /\ (Kind[c] = "GlobalH" => s < L)
  <2>1. ReceiveAt(n, m) \in 1 .. 2 * (mpi_nodes - 1) /\ mpi_nodes \in Nat
    BY TurnsApart, ExchangeAssumption
  <2>2. Kind[c] = "GlobalH" => L = 2 * (mpi_nodes - 1) + 1
    BY <1>1, LocalAtIs
  <2>3. ReceiveAt(n, m) \in Nat /\ (Kind[c] = "GlobalH" => ReceiveAt(n, m) < L)
    <3> HIDE DEF L
    <3> QED BY <2>1, <2>2
  <2> QED BY <2>3
<1>7. Does(n, c, a, "receive", m)
  BY <1>1 DEF Does
<1> HIDE DEF w, p, L
<1>8. Valid(n, p)
  <2>1. p \in Parts
    BY <1>1, <1>2, <1>3 DEF Parts
  <2>2. x + 1 \in 1 .. Count(n, w)
    BY <1>4 DEF w
  <2> QED BY <1>2, <1>3, <2>1, <2>2 DEF Valid
<1>9. ~(n = 0 /\ a > L + m)
  BY <1>1, <1>2
<1>10. GotBy(n, m, c, a, x) = b + (IF Kind[c] = "GlobalH" /\ a > s THEN Count(n, "shuffle") ELSE 0) + 0 + x
       /\ GotBy(n, m, c, a, x + 1) = b + (IF Kind[c] = "GlobalH" /\ a > s THEN Count(n, "shuffle") ELSE 0) + 0 + (x + 1)
  BY <1>1, <1>5, <1>6, <1>7, <1>9 DEF GotBy, L
<1>11. Index(n, p) = b + (IF w = "result" /\ Kind[c] = "GlobalH" THEN Count(n, "shuffle") ELSE 0) + (x + 1)
  BY <1>3, <1>5 DEF Index
<1>12. (w = "result" /\ Kind[c] = "GlobalH") <=> (Kind[c] = "GlobalH" /\ a > s)
  <2>1. CASE w = "shuffle"
    <3>1. ~(a > s)
      BY <1>1, <1>2, <1>6, <2>1
    <3> QED BY <2>1, <3>1
  <2>2. CASE w = "result"
    <3>1. Kind[c] = "GlobalH" => a > s
      BY <1>1, <1>2, <1>6, <2>2
    <3> QED BY <2>2, <3>1
  <2> QED BY <1>2, <2>1, <2>2
<1> QED BY <1>4, <1>8, <1>10, <1>11, <1>12 DEF p

\* At the beginning nothing has been sent or received.
LEMMA StreamBegins ==
    ASSUME NEW n \in Nodes, NEW m \in Nodes \ {n}
    PROVE  SentBy(n, m, 1, 1, 0) = 0 /\ GotBy(m, n, 1, 1, 0) = 0
<1>1. ~(1 > SendAt(n, m)) /\ ~(1 > ReceiveAt(m, n))
  BY TurnsApart
<1>2. n \in Nat /\ (1 <= Calls => LocalAt(Kind[1]) \in Nat /\ LocalAt(Kind[1]) >= 1)
  BY CallsType, LocalAtIs, ExchangeAssumption DEF Nodes
<1>3. ~(1 <= Calls /\ 1 > LocalAt(Kind[1]) + n)
  BY <1>2
<1>4. Base(m, 1) = 0
  BY BaseFirst
<1> QED BY <1>1, <1>3, <1>4 DEF SentBy, GotBy

-----------------------------------------------------------------------------
(* What the messages carry.                                                *)

Data == Seq(Nat) \cup Seq(Seq(Contribution))

TransferKeys(n, m, c, what) == IF what = "shuffle" THEN Home(m, "GlobalH") ELSE Home(n, Kind[c])

\* The data of message number i of a transfer from node n to node m in call c.
Carried(n, m, c, what, i, data) ==
    LET size == Cardinality(TransferKeys(n, m, c, what))
        keys == Ascending(TransferKeys(n, m, c, what))
    IN  /\ data \in Data
        /\ i = 1 => data = <<size>>
        /\ i = 2 => data = keys
        /\ i = 3 =>
            /\ Len(data) = size
            /\ \A j \in 1 .. size :
                IF what = "shuffle" THEN data[j] = Emits[n][keys[j]]
                ELSE data[j] \in Seq(Contribution) /\ Lists(data[j], Contributions(From(n, Kind[c]), c, keys[j]))
        /\ i > 3 => data = Collected(n, c)[keys[i - 3]]

\* The elements of the messages of a shuffle.
LEMMA ThreeAndMore ==
    ASSUME NEW S, NEW a \in S, NEW b \in S, NEW z \in S, NEW v \in Seq(S)
    PROVE  LET s == <<a, b>> \o (<<z>> \o v) IN
           /\ s \in Seq(S) /\ Len(s) = 3 + Len(v) /\ s[1] = a /\ s[2] = b /\ s[3] = z
           /\ \A i \in 1 .. Len(v) : s[3 + i] = v[i]
<1> DEFINE t == <<z>> \o v
           s == <<a, b>> \o t
<1>1. Len(v) \in Nat
  BY LenProperties
<1>2. <<z>> \in Seq(S) /\ Len(<<z>>) = 1 /\ <<z>>[1] = z
  OBVIOUS
<1>3. /\ t \in Seq(S) /\ Len(t) = Len(<<z>>) + Len(v)
      /\ \A i \in 1 .. Len(<<z>>) + Len(v) : t[i] = IF i <= Len(<<z>>) THEN <<z>>[i] ELSE v[i - Len(<<z>>)]
  BY <1>2, ConcatProperties
<1>4. <<a, b>> \in Seq(S) /\ Len(<<a, b>>) = 2 /\ <<a, b>>[1] = a /\ <<a, b>>[2] = b
  OBVIOUS
<1> HIDE DEF t
<1>5. /\ s \in Seq(S) /\ Len(s) = Len(<<a, b>>) + Len(t)
      /\ \A i \in 1 .. Len(<<a, b>>) + Len(t) : s[i] = IF i <= Len(<<a, b>>) THEN <<a, b>>[i] ELSE t[i - Len(<<a, b>>)]
  BY <1>3, <1>4, ConcatProperties
<1> HIDE DEF s
<1>6. Len(t) = 1 + Len(v) /\ Len(s) = 3 + Len(v)
  BY <1>1, <1>2, <1>3, <1>4, <1>5
<1>7. s[1] = a /\ s[2] = b
  <2>1. 1 \in 1 .. 2 + Len(t) /\ 2 \in 1 .. 2 + Len(t)
    BY <1>1, <1>6
  <2> QED BY <1>4, <1>5, <2>1
<1>8. s[3] = z
  <2>1. 3 \in 1 .. 2 + Len(t) /\ 3 - 2 = 1 /\ 1 \in 1 .. 1 + Len(v)
    BY <1>1, <1>6
  <2>2. s[3] = t[1]
    BY <1>4, <1>5, <2>1
  <2>3. t[1] = z
    BY <1>2, <1>3, <2>1
  <2> QED BY <2>2, <2>3
<1>9. ASSUME NEW i \in 1 .. Len(v) PROVE s[3 + i] = v[i]
  <2>1. PICK j \in 1 .. 2 + Len(t) : j = 3 + i
    BY <1>1, <1>6
  <2>2. PICK d \in 1 .. 1 + Len(v) : d = 1 + i
    BY <1>1
  <2>3. ~(j <= 2) /\ j - 2 = d /\ ~(d <= 1) /\ d - 1 = i
    BY <2>1, <2>2
  <2>4. s[j] = t[d]
    BY <1>4, <1>5, <2>3
  <2>5. t[d] = v[i]
    BY <1>2, <1>3, <2>3
  <2> QED BY <2>1, <2>4, <2>5
<1> QED BY <1>5, <1>6, <1>7, <1>8, <1>9 DEF s, t

\* The elements of the messages of a result.
LEMMA JustThree ==
    ASSUME NEW S, NEW a \in S, NEW b \in S, NEW z \in S
    PROVE  LET s == <<a, b>> \o <<z>> IN
           s \in Seq(S) /\ Len(s) = 3 /\ s[1] = a /\ s[2] = b /\ s[3] = z
<1>1. <<>> \in Seq(S) /\ Len(<<>>) = 0
  BY EmptySeq
<1>2. <<z>> \in Seq(S)
  OBVIOUS
<1>3. <<z>> \o <<>> = <<z>>
  BY <1>2, ConcatEmptySeq
<1>4. LET s == <<a, b>> \o (<<z>> \o <<>>) IN
      s \in Seq(S) /\ Len(s) = 3 + Len(<<>>) /\ s[1] = a /\ s[2] = b /\ s[3] = z
  BY <1>1, ThreeAndMore
<1> QED BY <1>1, <1>3, <1>4

\* The keys of a message fit in the buffer.
LEMMA KeysBuffer ==
    ASSUME NEW D \in SUBSET Keys
    PROVE  LET keys == Ascending(D) IN
           /\ keys \in Seq(Keys) /\ Len(keys) = Cardinality(D) /\ Buffer(keys) = keys
           /\ Cardinality(D) \in Nat
           /\ \A S : \A v \in Seq(S) : Len(v) = Len(keys) => Buffer(v) = v
           /\ keys \in Data /\ <<Cardinality(D)>> \in Data
           /\ \A i \in 1 .. Cardinality(D) : keys[i] \in D
<1> DEFINE keys == Ascending(D)
<1>1. keys \in Seq(Keys) /\ Len(keys) = Cardinality(D) /\ Cardinality(D) \in Nat /\ Cardinality(D) <= pre_size
      /\ \A i \in 1 .. Cardinality(D) : keys[i] \in D
  BY AscendingIs
<1>2. /\ SizeOf * Cardinality(D) <= INT_MAX
  <2>1. SizeOf \in Nat /\ pre_size \in Nat /\ SizeOf * pre_size <= INT_MAX /\ INT_MAX \in Nat
    BY ExchangeAssumption
  <2>2. SizeOf * Cardinality(D) \in Nat /\ SizeOf * pre_size \in Nat /\ SizeOf * Cardinality(D) <= SizeOf * pre_size
    BY <1>1, <2>1, ProductGrows
  <2> QED BY <2>1, <2>2
<1>3. ASSUME NEW S, NEW v \in Seq(S), Len(v) = Len(keys) PROVE Buffer(v) = v
  BY <1>1, <1>2, <1>3, BufferIs
<1>4. keys \in Seq(Nat) /\ <<Cardinality(D)>> \in Seq(Nat)
  <2>1. Keys \subseteq Nat
    BY DEF Keys
  <2>2. keys \in Seq(Nat)
    BY <1>1, <2>1, SeqMonotonic
  <2> QED BY <1>1, <2>2
<1> QED BY <1>1, <1>3, <1>4 DEF Data

\* What a node collects for a call covers its own values.
LEMMA CollectedType ==
    ASSUME NEW n \in Nodes, NEW c \in Nat
    PROVE  /\ Collected(n, c) \in [Keys -> Seq(Seq(Contribution))] /\ Collected(n, c) \in Maps
           /\ Covers(Collected(n, c), Keys, {n}, c)
           /\ \A k \in Keys : Buffer(Collected(n, c)[k]) = Collected(n, c)[k]
<1>1. \A k \in Keys : /\ Carries(Collected(n, c)[k], Contributions({n}, c, k))
                      /\ Len(Collected(n, c)[k]) = Emits[n][k]
  BY CarriesCollected
<1>2. \A k \in Keys : Collected(n, c)[k] \in Seq(Seq(Contribution))
  BY <1>1 DEF Carries
<1>3. Collected(n, c) = [k \in Keys |-> Collected(n, c)[k]]
  BY DEF Collected
<1>4. Collected(n, c) \in [Keys -> Seq(Seq(Contribution))]
  BY <1>2, <1>3
<1>5. \A k \in Keys : SizeOf * Emits[n][k] <= INT_MAX
  BY ExchangeAssumption
<1>6. \A k \in Keys : Buffer(Collected(n, c)[k]) = Collected(n, c)[k]
  BY <1>1, <1>2, <1>5, BufferIs
<1> QED BY <1>1, <1>4, <1>6 DEF Covers, Maps

\* SendToNode sends what node n has collected for the keys of the other node.
LEMMA ShuffleMessages ==
    ASSUME NEW n \in Nodes, NEW m \in Nodes \ {n}, NEW c \in 1 .. Calls,
           ~Done(n), What(n) = "shuffle", Peer(n) = m, DOMAIN held[n] = Keys,
           \A k \in Home(m, "GlobalH") : held[n][k] = Collected(n, c)[k]
    PROVE  /\ Len(Messages(n)) = Count(m, "shuffle")
           /\ \A i \in 1 .. Count(m, "shuffle") :
                Carried(n, m, c, "shuffle", i, Messages(n)[i])
<1> DEFINE D == Home(m, "GlobalH")
           map == Share(n, m)
           keys == Ascending(D)
           size == Cardinality(D)
           sizes == [i \in 1 .. Len(keys) |-> Len(map[keys[i]])]
           vectors == [i \in 1 .. Len(keys) |-> Buffer(map[keys[i]])]
<1>1. D \in SUBSET Keys /\ D = {k \in DOMAIN held[n] : Distributer[k] = m} /\ c \in Nat
  BY CallsType DEF Home
<1>2. DOMAIN map = D /\ \A k \in D : map[k] = Collected(n, c)[k]
  BY <1>1 DEF Share
<1>3. Messages(n) = <<<<Len(keys)>>, Buffer(keys)>> \o (<<Buffer(sizes)>> \o vectors)
  BY <1>2 DEF Messages
<1> HIDE DEF map, D
<1>4. /\ keys \in Seq(Keys) /\ Len(keys) = size /\ Buffer(keys) = keys /\ size \in Nat
      /\ \A S : \A v \in Seq(S) : Len(v) = Len(keys) => Buffer(v) = v
      /\ keys \in Data /\ <<size>> \in Data /\ \A i \in 1 .. size : keys[i] \in D
  BY <1>1, KeysBuffer
<1> HIDE DEF keys, size
<1>5. \A i \in 1 .. Len(keys) : /\ map[keys[i]] = Collected(n, c)[keys[i]]
                                /\ Len(map[keys[i]]) = Emits[n][keys[i]] /\ Emits[n][keys[i]] \in Nat
                                /\ Buffer(map[keys[i]]) = Collected(n, c)[keys[i]]
                                /\ Collected(n, c)[keys[i]] \in Data
  <2> SUFFICES ASSUME NEW i \in 1 .. Len(keys)
               PROVE  /\ map[keys[i]] = Collected(n, c)[keys[i]]
                      /\ Len(map[keys[i]]) = Emits[n][keys[i]] /\ Emits[n][keys[i]] \in Nat
                      /\ Buffer(map[keys[i]]) = Collected(n, c)[keys[i]]
                      /\ Collected(n, c)[keys[i]] \in Data
    OBVIOUS
  <2>1. PICK k \in D : k = keys[i] /\ k \in Keys
    BY <1>1, <1>4
  <2>2. map[k] = Collected(n, c)[k] /\ Len(Collected(n, c)[k]) = Emits[n][k]
    BY <1>1, <1>2, <2>1, CarriesCollected
  <2>3. Buffer(Collected(n, c)[k]) = Collected(n, c)[k] /\ Collected(n, c)[k] \in Seq(Seq(Contribution))
    BY <1>1, <2>1, CollectedType
  <2>4. Emits[n][k] \in Nat
    BY <2>1, ExchangeAssumption
  <2> QED BY <2>1, <2>2, <2>3, <2>4 DEF Data
<1>6. sizes \in Seq(Nat) /\ Len(sizes) = size /\ Buffer(sizes) = sizes /\ sizes \in Data
      /\ \A i \in 1 .. size : sizes[i] = Emits[n][keys[i]]
  <2>1. sizes \in Seq(Nat) /\ Len(sizes) = Len(keys)
    BY <1>4, <1>5, IsASeq
  <2>2. \A i \in 1 .. Len(keys) : sizes[i] = Emits[n][keys[i]]
    BY <1>5
  <2> HIDE DEF sizes
  <2> QED BY <1>4, <2>1, <2>2 DEF Data
<1>7. vectors \in Seq(Data) /\ Len(vectors) = size /\ \A i \in 1 .. size : vectors[i] = Collected(n, c)[keys[i]]
  <2>1. \A i \in 1 .. Len(keys) : Buffer(map[keys[i]]) \in Data
    BY <1>5
  <2>2. vectors \in Seq(Data) /\ Len(vectors) = Len(keys)
    BY <1>4, <2>1, IsASeq
  <2>3. \A i \in 1 .. Len(keys) : vectors[i] = Collected(n, c)[keys[i]]
    BY <1>5
  <2> HIDE DEF vectors
  <2> QED BY <1>4, <2>2, <2>3
<1> HIDE DEF sizes, vectors
<1>8. Messages(n) = <<<<size>>, keys>> \o (<<sizes>> \o vectors)
  BY <1>3, <1>4, <1>6
<1>9. /\ Messages(n) \in Seq(Data) /\ Len(Messages(n)) = 3 + size
      /\ Messages(n)[1] = <<size>> /\ Messages(n)[2] = keys /\ Messages(n)[3] = sizes
      /\ \A i \in 1 .. size : Messages(n)[3 + i] = vectors[i]
  <2>1. <<size>> \in Data /\ keys \in Data /\ sizes \in Data /\ vectors \in Seq(Data)
    BY <1>4, <1>6, <1>7
  <2>2. PICK a \in Data : a = <<size>>
    BY <2>1
  <2>3. LET s == <<a, keys>> \o (<<sizes>> \o vectors) IN
        /\ s \in Seq(Data) /\ Len(s) = 3 + Len(vectors) /\ s[1] = a /\ s[2] = keys /\ s[3] = sizes
        /\ \A i \in 1 .. Len(vectors) : s[3 + i] = vectors[i]
    <3> HIDE <2>2
    <3> QED BY <2>1, ThreeAndMore
  <2> QED BY <1>7, <1>8, <2>2, <2>3
<1>10. Count(m, "shuffle") = 3 + size
  BY DEF Count, size, D
<1>11. ASSUME NEW i \in 1 .. 3 + size
       PROVE  Carried(n, m, c, "shuffle", i, Messages(n)[i])
  <2> DEFINE d == Messages(n)[i]
  <2>1. TransferKeys(n, m, c, "shuffle") = D
    BY DEF TransferKeys, D
  <2>2. d \in Data
    <3>1. i \in 1 .. Len(Messages(n))
      BY <1>9
    <3> QED BY <1>9, <3>1, ElementOfSeq
  <2>3. i = 3 => Len(d) = size /\ \A j \in 1 .. size : d[j] = Emits[n][keys[j]]
    BY <1>6, <1>9
  <2>4. i > 3 => d = Collected(n, c)[keys[i - 3]]
    <3>1. SUFFICES ASSUME i > 3 PROVE d = Collected(n, c)[keys[i - 3]]
      OBVIOUS
    <3>2. PICK j \in 1 .. size : i = 3 + j /\ i - 3 = j
      <4>1. i - 3 \in 1 .. size /\ i = 3 + (i - 3)
        BY <1>4, <3>1
      <4> QED BY <4>1
    <3> QED BY <1>7, <1>9, <3>2
  <2>5. (i = 1 => d = <<size>>) /\ (i = 2 => d = keys)
    BY <1>9
  <2> HIDE DEF d
  <2>6. Carried(n, m, c, "shuffle", i, d)
    BY <2>1, <2>2, <2>3, <2>4, <2>5 DEF Carried, size, keys
  <2> QED BY <2>6 DEF d
<1> QED BY <1>9, <1>10, <1>11

\* ReduceAtEnd sends the result, one value for each key.
LEMMA ResultMessages ==
    ASSUME NEW n \in Nodes, NEW m \in Nodes, NEW c \in 1 .. Calls,
           ~Done(n), What(n) = "result",
           Answer(held[n], Home(n, Kind[c]), From(n, Kind[c]), c)
    PROVE  /\ Len(Messages(n)) = 3
           /\ \A i \in 1 .. 3 :
                Carried(n, m, c, "result", i, Messages(n)[i])
<1> DEFINE D == Home(n, Kind[c])
           map == held[n]
           keys == Ascending(D)
           size == Cardinality(D)
           firsts == [i \in 1 .. Len(keys) |-> Head(map[keys[i]])]
<1>1. D \in SUBSET Keys /\ DOMAIN map = D
  BY DEF Home, Answer, Covers
<1>2. Messages(n) = <<<<Len(keys)>>, Buffer(keys)>> \o <<Buffer(firsts)>>
  BY <1>1 DEF Messages
<1> HIDE DEF map, D
<1>3. /\ keys \in Seq(Keys) /\ Len(keys) = size /\ Buffer(keys) = keys /\ size \in Nat
      /\ \A S : \A v \in Seq(S) : Len(v) = Len(keys) => Buffer(v) = v
      /\ keys \in Data /\ <<size>> \in Data /\ \A i \in 1 .. size : keys[i] \in D
  BY <1>1, KeysBuffer
<1> HIDE DEF keys, size
<1>4. \A i \in 1 .. Len(keys) :
        /\ Head(map[keys[i]]) \in Seq(Contribution)
        /\ Lists(Head(map[keys[i]]), Contributions(From(n, Kind[c]), c, keys[i]))
  BY <1>3, AnswerValue DEF map, D
<1>5. firsts \in Seq(Seq(Contribution)) /\ Len(firsts) = size /\ Buffer(firsts) = firsts
      /\ \A i \in 1 .. size : /\ firsts[i] \in Seq(Contribution)
                              /\ Lists(firsts[i], Contributions(From(n, Kind[c]), c, keys[i]))
  <2>1. firsts \in Seq(Seq(Contribution)) /\ Len(firsts) = Len(keys)
    BY <1>3, <1>4, IsASeq
  <2>2. \A i \in 1 .. Len(keys) : firsts[i] = Head(map[keys[i]])
    OBVIOUS
  <2> HIDE DEF firsts
  <2> QED BY <1>3, <1>4, <2>1, <2>2
<1> HIDE DEF firsts
<1>6. Messages(n) = <<<<size>>, keys>> \o <<firsts>> /\ firsts \in Data
  BY <1>2, <1>3, <1>5 DEF Data
<1>7. /\ Messages(n) \in Seq(Data) /\ Len(Messages(n)) = 3
      /\ Messages(n)[1] = <<size>> /\ Messages(n)[2] = keys /\ Messages(n)[3] = firsts
  <2>1. <<size>> \in Data /\ keys \in Data /\ firsts \in Data
    BY <1>3, <1>6
  <2>2. LET s == <<<<size>>, keys>> \o <<firsts>> IN
        s \in Seq(Data) /\ Len(s) = 3 /\ s[1] = <<size>> /\ s[2] = keys /\ s[3] = firsts
    BY <2>1, JustThree
  <2> QED BY <1>6, <2>2
<1>8. ASSUME NEW i \in 1 .. 3
      PROVE  Carried(n, m, c, "result", i, Messages(n)[i])
  <2> DEFINE d == Messages(n)[i]
  <2>1. TransferKeys(n, m, c, "result") = D
    BY DEF TransferKeys, D
  <2>2. d \in Data
    BY <1>7, ElementOfSeq
  <2>3. i = 3 => Len(d) = size /\ \A j \in 1 .. size :
                    d[j] \in Seq(Contribution) /\ Lists(d[j], Contributions(From(n, Kind[c]), c, keys[j]))
    BY <1>5, <1>7
  <2>4. (i = 1 => d = <<size>>) /\ (i = 2 => d = keys) /\ ~(i > 3)
    BY <1>7
  <2> HIDE DEF d
  <2>5. Carried(n, m, c, "result", i, d)
    BY <2>1, <2>2, <2>3, <2>4 DEF Carried, size, keys
  <2> QED BY <2>5 DEF d
<1> QED BY <1>7, <1>8

\* The first x messages of a transfer from node m to node n.
Arrived(n, m, c, what, box, x) ==
    \A i \in 1 .. x : Carried(m, n, c, what, i, box[i])

\* What the messages of a shuffle carry, with the set of keys named.
LEMMA ShuffleCarried ==
    ASSUME NEW n, NEW m, NEW c, NEW i, NEW d, NEW D, D = Home(n, "GlobalH"),
           Carried(m, n, c, "shuffle", i, d)
    PROVE  /\ d \in Data
           /\ i = 1 => d = <<Cardinality(D)>>
           /\ i = 2 => d = Ascending(D)
           /\ i = 3 => Len(d) = Cardinality(D) /\ \A j \in 1 .. Cardinality(D) : d[j] = Emits[m][Ascending(D)[j]]
           /\ i > 3 => d = Collected(m, c)[Ascending(D)[i - 3]]
BY DEF Carried, TransferKeys

\* What the messages of a result carry, with the set of keys named.
LEMMA ResultCarried ==
    ASSUME NEW n, NEW m, NEW c, NEW i, NEW d, NEW D, D = Home(m, Kind[c]),
           Carried(m, n, c, "result", i, d)
    PROVE  /\ d \in Data
           /\ i = 1 => d = <<Cardinality(D)>>
           /\ i = 2 => d = Ascending(D)
           /\ i = 3 => /\ Len(d) = Cardinality(D)
                       /\ \A j \in 1 .. Cardinality(D) :
                            /\ d[j] \in Seq(Contribution)
                            /\ Lists(d[j], Contributions(From(m, Kind[c]), c, Ascending(D)[j]))
BY DEF Carried, TransferKeys

\* The number of messages follows from the first.
LEMMA ExpectedIs ==
    ASSUME NEW n \in Nodes, NEW m \in Nodes, NEW c, NEW box, ~Done(n), What(n) \in {"shuffle", "result"},
           Arrived(n, m, c, What(n), box, 1)
    PROVE  Expected(n, box) = Count(n, What(n))
<1>1. Carried(m, n, c, What(n), 1, box[1])
  BY DEF Arrived
<1>2. CASE What(n) = "shuffle"
  <2>1. box[1] = <<Cardinality(Home(n, "GlobalH"))>>
    BY <1>1, <1>2, ShuffleCarried
  <2> QED BY <1>2, <2>1 DEF Expected, Count
<1>3. CASE What(n) = "result"
  BY <1>3 DEF Expected, Count
<1> QED BY <1>2, <1>3

\* The receiver of a shuffle gets what the other node collected for its keys.
LEMMA ShuffleUnpacked ==
    ASSUME NEW n \in Nodes, NEW m \in Nodes, NEW c \in Nat, NEW box, ~Done(n), What(n) = "shuffle",
           Arrived(n, m, c, "shuffle", box, Count(n, "shuffle"))
    PROVE  /\ Unpacked(n, box) \in Maps /\ DOMAIN Unpacked(n, box) = Home(n, "GlobalH")
           /\ \A k \in Home(n, "GlobalH") : Unpacked(n, box)[k] = Collected(m, c)[k]
<1> DEFINE D == Home(n, "GlobalH")
           keys == Ascending(D)
           size == Cardinality(D)
<1>1. D \in SUBSET Keys /\ size \in Nat /\ Count(n, "shuffle") = 3 + size
  BY HomeType DEF Count
<1> HIDE DEF D
<1>2. /\ \A i \in 1 .. size : keys[i] \in D
      /\ \A i, j \in 1 .. size : keys[i] = keys[j] => i = j
      /\ \A k \in D : \E i \in 1 .. size : keys[i] = k
  BY <1>1, AscendingIs
<1> HIDE DEF keys, size
<1>3. \A i \in 1 .. 3 + size : Carried(m, n, c, "shuffle", i, box[i])
  BY <1>1 DEF Arrived
<1>4. box[1] = <<size>> /\ box[2] = keys
  <2>1. 1 \in 1 .. 3 + size /\ 2 \in 1 .. 3 + size
    BY <1>1
  <2> QED BY <1>3, <2>1, ShuffleCarried DEF D, size, keys
<1>5. ASSUME NEW i \in 1 .. size PROVE box[3 + i] = Collected(m, c)[keys[i]]
  <2>1. PICK j \in 1 .. 3 + size : j = 3 + i /\ j > 3 /\ j - 3 = i
    <3>1. 3 + i \in 1 .. 3 + size /\ 3 + i > 3 /\ (3 + i) - 3 = i
      BY <1>1
    <3> QED BY <3>1
  <2>2. box[j] = Collected(m, c)[keys[j - 3]]
    BY <1>3, <2>1, ShuffleCarried DEF D, size, keys
  <2> QED BY <2>1, <2>2
<1>6. {box[2][i] : i \in 1 .. box[1][1]} = D
  BY <1>2, <1>4
<1> DEFINE at_(k) == CHOOSE j \in 1 .. size : keys[j] = k
<1>7. ASSUME NEW k \in D PROVE box[3 + at_(k)] = Collected(m, c)[k]
  <2>1. at_(k) \in 1 .. size /\ keys[at_(k)] = k
    BY <1>2
  <2> HIDE DEF at_
  <2> QED BY <1>5, <2>1
<1>8. Unpacked(n, box) = [k \in D |-> box[3 + at_(k)]]
  BY <1>4, <1>6 DEF Unpacked
<1> HIDE DEF at_
<1>9. DOMAIN Unpacked(n, box) = D /\ \A k \in D : Unpacked(n, box)[k] = Collected(m, c)[k]
  BY <1>7, <1>8
<1>10. \A k \in D : Collected(m, c)[k] \in Seq(Seq(Contribution))
  BY <1>1, CollectedType
<1>11. Unpacked(n, box) \in [D -> Seq(Seq(Contribution))]
  BY <1>7, <1>8, <1>10
<1> QED BY <1>1, <1>9, <1>11 DEF Maps, D

\* The receiver of a result gets the answer of the other node.
LEMMA ResultUnpacked ==
    ASSUME NEW n \in Nodes, NEW m \in Nodes, NEW c \in Nat, NEW box, ~Done(n), What(n) = "result",
           Arrived(n, m, c, "result", box, 3)
    PROVE  Answer(Unpacked(n, box), Home(m, Kind[c]), From(m, Kind[c]), c)
<1> DEFINE D == Home(m, Kind[c])
           keys == Ascending(D)
           size == Cardinality(D)
<1>1. D \in SUBSET Keys /\ size \in Nat
  BY HomeType
<1> HIDE DEF D
<1>2. /\ \A i \in 1 .. size : keys[i] \in D
      /\ \A i, j \in 1 .. size : keys[i] = keys[j] => i = j
      /\ \A k \in D : \E i \in 1 .. size : keys[i] = k
  BY <1>1, AscendingIs
<1> HIDE DEF keys, size
<1>3. \A i \in 1 .. 3 : Carried(m, n, c, "result", i, box[i])
  BY DEF Arrived
<1>4. box[1] = <<size>> /\ box[2] = keys
  BY <1>3, ResultCarried DEF D, size, keys
<1>5. \A i \in 1 .. size : /\ box[3][i] \in Seq(Contribution)
                           /\ Lists(box[3][i], Contributions(From(m, Kind[c]), c, keys[i]))
  BY <1>3, ResultCarried DEF D, size, keys
<1>6. {box[2][i] : i \in 1 .. box[1][1]} = D
  BY <1>2, <1>4
<1> DEFINE at_(k) == CHOOSE j \in 1 .. size : keys[j] = k
<1>7. ASSUME NEW k \in D
      PROVE  /\ box[3][at_(k)] \in Seq(Contribution)
             /\ Lists(box[3][at_(k)], Contributions(From(m, Kind[c]), c, k))
  <2>1. at_(k) \in 1 .. size /\ keys[at_(k)] = k
    BY <1>2
  <2> HIDE DEF at_
  <2> QED BY <1>5, <2>1
<1>8. Unpacked(n, box) = [k \in D |-> <<box[3][at_(k)]>>]
  BY <1>4, <1>6 DEF Unpacked
<1> HIDE DEF at_
<1>9. ASSUME NEW k \in D
      PROVE  /\ Unpacked(n, box)[k] = <<box[3][at_(k)]>>
             /\ Unpacked(n, box)[k] \in Seq(Seq(Contribution)) /\ Len(Unpacked(n, box)[k]) = 1
             /\ Carries(Unpacked(n, box)[k], Contributions(From(m, Kind[c]), c, k))
  <2>1. Unpacked(n, box)[k] = <<box[3][at_(k)]>>
    BY <1>8
  <2>2. Carries(<<box[3][at_(k)]>>, Contributions(From(m, Kind[c]), c, k))
    BY <1>7, CarriesOne
  <2>3. <<box[3][at_(k)]>> \in Seq(Seq(Contribution)) /\ Len(<<box[3][at_(k)]>>) = 1
    BY <1>7
  <2> QED BY <2>1, <2>2, <2>3
<1>10. Unpacked(n, box) \in [D -> Seq(Seq(Contribution))]
  BY <1>8, <1>9
<1> QED BY <1>9, <1>10 DEF Answer, Covers, D

-----------------------------------------------------------------------------
(* The invariant: what is true of a node at position a of call c.          *)

\* GlobalH: the nodes whose values node n has before the local reduction.
Heard(n, a) == {n} \cup {m \in Nodes \ {n} : a > ReceiveAt(n, m)}

HeldIs(n, c, a, map) ==
    /\ map \in Maps
    /\ c <= Calls /\ a <= LocalAt(Kind[c]) /\ Kind[c] = "GlobalH" =>
        /\ DOMAIN map = Keys
        /\ \A k \in Keys : IF Distributer[k] = n THEN Carries(map[k], Contributions(Heard(n, a), c, k))
                           ELSE map[k] = Collected(n, c)[k]
    /\ c <= Calls /\ a <= LocalAt(Kind[c]) /\ Kind[c] # "GlobalH" => map = Collected(n, c)
    /\ c <= Calls /\ a > LocalAt(Kind[c]) => Answer(map, Home(n, Kind[c]), From(n, Kind[c]), c)

SendingIs(n, c, a, s, b) ==
    /\ s \in Nat /\ b \in BOOLEAN
    /\ c <= Calls /\ Operation(n, c, a).do = "send" => s < Count(Operation(n, c, a).peer, Operation(n, c, a).what)
    /\ ~(c <= Calls /\ Operation(n, c, a).do = "send") => s = 0 /\ ~b

InboxIs(n, c, a, box) ==
    /\ box \in Seq(Data)
    /\ c <= Calls /\ Operation(n, c, a).do = "receive" =>
        /\ Len(box) < Count(n, Operation(n, c, a).what)
        /\ Arrived(n, Operation(n, c, a).peer, c, Operation(n, c, a).what, box, Len(box))
    /\ ~(c <= Calls /\ Operation(n, c, a).do = "receive") => box = <<>>

\* The node has entered the barriers of the calls behind it.
BarrierIs(n, c, a, b) ==
    /\ b \in 0 .. Calls
    /\ \A d \in 1 .. Calls :
        mpi_nodes > 1 /\ Kind[d] = "LocalH" /\ (d < c \/ (d = c /\ a > 1)) => d <= b

ResultsIs(n, c, r) ==
    /\ r \in Seq(Maps) /\ Len(r) = c - 1
    /\ \A d \in 1 .. c - 1 : IF n > 0 THEN r[d] = Empty ELSE Answer(r[d], Keys, Nodes, d)

\* What rank 0 has gathered at a position.
GatheredIs(c, a, g) ==
    /\ g \in Seq(Maps)
    /\ Len(g) = IF c <= Calls /\ a > LocalAt(Kind[c]) THEN a - LocalAt(Kind[c]) - 1 ELSE 0
    /\ \A i \in 1 .. Len(g) : Answer(g[i], Home(i, Kind[c]), From(i, Kind[c]), c)

Message == [part : Parts, data : Data]

\* The messages on the way from n to m: those between what m has got and n has sent.
WireIs(n, m, w, s, r) ==
    /\ w \in Seq(Message) /\ s = r + Len(w)
    /\ \A i \in 1 .. Len(w) :
        /\ Valid(m, w[i].part) /\ Index(m, w[i].part) = r + i
        /\ Carried(n, m, w[i].part.call, w[i].part.what, w[i].part.number, w[i].data)

Shape ==
    /\ call \in [Nodes -> 1 .. Calls + 1] /\ at \in [Nodes -> Nat \ {0}]
    /\ sent \in [Nodes -> Nat] /\ blocked \in [Nodes -> BOOLEAN]
    /\ inbox \in [Nodes -> Seq(Data)] /\ wire \in [Nodes -> [Nodes -> Seq(Message)]]
    /\ barrier \in [Nodes -> 0 .. Calls] /\ held \in [Nodes -> Maps]
    /\ gathered \in Seq(Maps) /\ results \in [Nodes -> Seq(Maps)]

\* What is true of a node by itself.
NodeIs(n, c, a, s, b, box, map, bar, res) ==
    /\ Position(n, c, a)
    /\ SendingIs(n, c, a, s, b)
    /\ InboxIs(n, c, a, box)
    /\ HeldIs(n, c, a, map)
    /\ BarrierIs(n, c, a, bar)
    /\ ResultsIs(n, c, res)

\* What n has sent to m, and m has got from n.
Number(s, b) == s + (IF b THEN 1 ELSE 0)

SentTo(n, m) == SentBy(n, m, call[n], at[n], Number(sent[n], blocked[n]))

GotFrom(m, n) == GotBy(m, n, call[m], at[m], Len(inbox[m]))

IInv ==
    /\ Shape
    /\ \A n \in Nodes : NodeIs(n, call[n], at[n], sent[n], blocked[n], inbox[n], held[n], barrier[n], results[n])
    /\ GatheredIs(call[0], at[0], gathered)
    /\ \A n \in Nodes : \A m \in Nodes \ {n} : WireIs(n, m, wire[n][m], SentTo(n, m), GotFrom(m, n))

-----------------------------------------------------------------------------
(* The state and the scripts.                                              *)

\* What a node does, by its position.
LEMMA DoingIs ==
    ASSUME NEW n \in Nodes, call[n] \in 1 .. Calls + 1, Position(n, call[n], at[n])
    PROVE  /\ Done(n) <=> call[n] > Calls
           /\ ~Done(n) => /\ call[n] \in 1 .. Calls /\ at[n] \in 1 .. Size(n, Kind[call[n]])
                          /\ Len(Ops(n)) = Size(n, Kind[call[n]])
                          /\ Ops(n)[at[n]] = Operation(n, call[n], at[n])
                          /\ Peer(n) = Operation(n, call[n], at[n]).peer
                          /\ What(n) = Operation(n, call[n], at[n]).what
           /\ \A do : Doing(n, do) <=> ~Done(n) /\ Operation(n, call[n], at[n]).do = do
<1>1. Calls \in Nat /\ (Done(n) <=> call[n] > Calls)
  BY CallsType DEF Done
<1>2. ASSUME ~Done(n)
      PROVE  /\ call[n] \in 1 .. Calls /\ at[n] \in 1 .. Size(n, Kind[call[n]])
             /\ Len(Ops(n)) = Size(n, Kind[call[n]])
             /\ Ops(n)[at[n]] = Operation(n, call[n], at[n])
             /\ Peer(n) = Operation(n, call[n], at[n]).peer
             /\ What(n) = Operation(n, call[n], at[n]).what
  <2>1. call[n] \in 1 .. Calls /\ call[n] <= Calls
    BY <1>1, <1>2
  <2>2. Kind[call[n]] \in Kinds
    BY <2>1, CallsType
  <2>3. Size(n, Kind[call[n]]) \in Nat /\ at[n] \in Nat \ {0} /\ at[n] <= Size(n, Kind[call[n]])
    BY <2>1, <2>2, SizeIs DEF Position
  <2>4. Len(Ops(n)) = Size(n, Kind[call[n]])
    BY <2>2, ScriptIs DEF Ops
  <2>5. Ops(n)[at[n]] = Operation(n, call[n], at[n])
    BY DEF Ops, Operation
  <2> QED BY <2>1, <2>3, <2>4, <2>5 DEF Peer, What
<1>3. \A do : Doing(n, do) <=> ~Done(n) /\ Operation(n, call[n], at[n]).do = do
  BY <1>2 DEF Doing
<1> QED BY <1>1, <1>2, <1>3

-----------------------------------------------------------------------------
(* The next position.                                                      *)

\* The next position is one.
LEMMA NextIs ==
    ASSUME NEW n \in Nodes, NEW c \in 1 .. Calls, NEW a \in 1 .. Size(n, Kind[c])
    PROVE  /\ Position(n, NextCall(n, c, a), NextAt(n, c, a))
           /\ a < Size(n, Kind[c]) => NextCall(n, c, a) = c /\ NextAt(n, c, a) = a + 1
           /\ ~(a < Size(n, Kind[c])) => /\ NextCall(n, c, a) = c + 1 /\ NextAt(n, c, a) = 1
                                         /\ a = Size(n, Kind[c])
<1>1. Calls \in Nat /\ Size(n, Kind[c]) \in Nat
  BY CallsType, SizeIs
<1>2. \A d \in 1 .. Calls : Size(n, Kind[d]) \in Nat /\ Size(n, Kind[d]) >= 1
  BY CallsType, SizeIs, LocalAtIs
<1>3. CASE a < Size(n, Kind[c])
  BY <1>1, <1>3 DEF NextCall, NextAt, Position
<1>4. CASE ~(a < Size(n, Kind[c]))
  <2>1. NextCall(n, c, a) = c + 1 /\ NextAt(n, c, a) = 1
    BY <1>4 DEF NextCall, NextAt
  <2>2. c + 1 <= Calls => 1 <= Size(n, Kind[c + 1])
    BY <1>1, <1>2
  <2> QED BY <1>1, <1>4, <2>1, <2>2 DEF Position
<1> QED BY <1>3, <1>4

\* Nothing of the next transfer has been sent or received.
LEMMA TransferBegins ==
    ASSUME NEW n \in Nodes, NEW c, NEW a
    PROVE  SendingIs(n, c, a, 0, FALSE) /\ InboxIs(n, c, a, <<>>) /\ Number(0, FALSE) = 0
<1>1. \A m, what : 0 < Count(m, what)
  BY CountType
<1>2. <<>> \in Seq(Data) /\ Len(<<>>) = 0
  OBVIOUS
<1>3. \A m, what : Arrived(n, m, c, what, <<>>, 0)
  BY DEF Arrived
<1> QED BY <1>1, <1>2, <1>3 DEF SendingIs, InboxIs, Number

\* The values of the next call are collected.
LEMMA CallBegins ==
    ASSUME NEW n \in Nodes, NEW c \in Nat \ {0}
    PROVE  HeldIs(n, c, 1, Collected(n, c))
<1>1. Collected(n, c) \in Maps /\ Covers(Collected(n, c), Keys, {n}, c) /\ DOMAIN Collected(n, c) = Keys
  BY CollectedType DEF Collected
<1>2. CASE c <= Calls
  <2>1. c \in 1 .. Calls /\ Kind[c] \in Kinds
    BY <1>2, CallsType
  <2>2. 1 <= LocalAt(Kind[c])
    BY <2>1, LocalAtIs
  <2>3. Heard(n, 1) = {n}
    <3>1. \A m \in Nodes \ {n} : ~(1 > ReceiveAt(n, m))
      BY TurnsApart, ExchangeAssumption
    <3> QED BY <3>1 DEF Heard
  <2>4. \A k \in Keys : Carries(Collected(n, c)[k], Contributions({n}, c, k))
    BY <1>1 DEF Covers
  <2>5. \A k \in Keys : Carries(Collected(n, c)[k], Contributions(Heard(n, 1), c, k))
    BY <2>3, <2>4
  <2>6. ~(1 > LocalAt(Kind[c]))
    BY <2>1, LocalAtIs
  <2> QED BY <1>1, <2>5, <2>6 DEF HeldIs
<1>3. CASE ~(c <= Calls)
  BY <1>1, <1>3 DEF HeldIs
<1> QED BY <1>2, <1>3

\* A node that goes on has entered the barrier.
LEMMA BarrierPassed ==
    ASSUME NEW n \in Nodes, NEW c \in 1 .. Calls, NEW a \in 1 .. Size(n, Kind[c]), NEW b,
           BarrierIs(n, c, a, b), Operation(n, c, a).do = "barrier" => c <= b
    PROVE  BarrierIs(n, NextCall(n, c, a), NextAt(n, c, a), b)
<1>1. Calls \in Nat /\ Kind[c] \in Kinds /\ Size(n, Kind[c]) \in Nat /\ LocalAt(Kind[c]) \in Nat
  BY CallsType, SizeIs, LocalAtIs
<1>2. b \in 0 .. Calls
  BY DEF BarrierIs
<1>3. ASSUME mpi_nodes > 1, Kind[c] = "LocalH" PROVE c <= b
  <2>1. LocalAt(Kind[c]) = 2
    BY <1>1, <1>3, LocalAtIs
  <2>2. CASE a > 1
    BY <1>3, <2>2 DEF BarrierIs
  <2>3. CASE ~(a > 1)
    <3>1. a < LocalAt(Kind[c])
      BY <1>1, <2>1, <2>3
    <3>2. Operation(n, c, a).do \in {"send", "receive", "barrier"}
          /\ (Operation(n, c, a).do \in {"send", "receive"} => Operation(n, c, a).what = "shuffle")
      BY <3>1, PlaceIs
    <3>3. Operation(n, c, a).do # "send"
      BY <1>3, <3>1, <3>2, SendIs
    <3>4. Operation(n, c, a).do # "receive"
      BY <1>3, <3>1, <3>2, ReceiveIs
    <3> QED BY <3>2, <3>3, <3>4
  <2> QED BY <2>2, <2>3
<1>4. ASSUME NEW d \in 1 .. Calls, mpi_nodes > 1, Kind[d] = "LocalH",
             d < NextCall(n, c, a) \/ (d = NextCall(n, c, a) /\ NextAt(n, c, a) > 1)
      PROVE  d <= b
  <2>1. d <= c
    BY <1>4, <1>1, NextIs
  <2>2. CASE d = c
    BY <1>3, <1>4, <2>2
  <2>3. CASE d < c
    BY <1>4, <2>3 DEF BarrierIs
  <2> QED BY <1>1, <2>1, <2>2, <2>3
<1> QED BY <1>2, <1>4 DEF BarrierIs

\* One result more.
LEMMA ResultReturned ==
    ASSUME NEW n \in Nodes, NEW c \in Nat \ {0}, NEW r, ResultsIs(n, c, r), NEW map \in Maps,
           IF n > 0 THEN map = Empty ELSE Answer(map, Keys, Nodes, c)
    PROVE  ResultsIs(n, c + 1, Append(r, map))
<1>1. r \in Seq(Maps) /\ Len(r) = c - 1
      /\ \A d \in 1 .. c - 1 : IF n > 0 THEN r[d] = Empty ELSE Answer(r[d], Keys, Nodes, d)
  BY DEF ResultsIs
<1>2. Append(r, map) \in Seq(Maps) /\ Len(Append(r, map)) = c
      /\ Append(r, map)[c] = map /\ \A d \in 1 .. c - 1 : Append(r, map)[d] = r[d]
  BY <1>1
<1>3. ASSUME NEW d \in 1 .. c
      PROVE  IF n > 0 THEN Append(r, map)[d] = Empty ELSE Answer(Append(r, map)[d], Keys, Nodes, d)
  <2>1. CASE d = c
    BY <1>2, <2>1
  <2>2. CASE d # c
    <3>1. d \in 1 .. c - 1
      BY <2>2
    <3>2. Append(r, map)[d] = r[d]
      BY <1>2, <3>1
    <3> QED BY <1>1, <3>1, <3>2
  <2> QED BY <2>1, <2>2
<1>4. c + 1 - 1 = c
  OBVIOUS
<1> QED BY <1>2, <1>3, <1>4 DEF ResultsIs

-----------------------------------------------------------------------------
(* The wire.                                                               *)

\* The messages of a wire.
LEMMA WireType ==
    ASSUME NEW n, NEW m, NEW w, NEW s, NEW r, WireIs(n, m, w, s, r)
    PROVE  /\ w \in Seq(Message) /\ Len(w) \in Nat /\ s = r + Len(w)
           /\ \A i \in 1 .. Len(w) : /\ w[i] \in Message
                                     /\ Valid(m, w[i].part) /\ Index(m, w[i].part) = r + i
                                     /\ Carried(n, m, w[i].part.call, w[i].part.what, w[i].part.number, w[i].data)
<1>1. w \in Seq(Message) /\ s = r + Len(w)
  BY DEF WireIs
<1>2. Len(w) \in Nat /\ \A i \in 1 .. Len(w) : w[i] \in Message
  BY <1>1, LenProperties, ElementOfSeq
<1> QED BY <1>1, <1>2 DEF WireIs

\* The next message of the stream goes to the end of the wire.
LEMMA WireAppend ==
    ASSUME NEW n, NEW m, NEW w, NEW s, NEW r \in Nat, WireIs(n, m, w, s, r),
           NEW part, NEW data, Valid(m, part), Index(m, part) = s + 1,
           Carried(n, m, part.call, part.what, part.number, data)
    PROVE  WireIs(n, m, Append(w, [part |-> part, data |-> data]), s + 1, r)
<1>1. /\ w \in Seq(Message) /\ Len(w) \in Nat /\ s = r + Len(w)
      /\ \A i \in 1 .. Len(w) : /\ Valid(m, w[i].part) /\ Index(m, w[i].part) = r + i
                                /\ Carried(n, m, w[i].part.call, w[i].part.what, w[i].part.number, w[i].data)
  BY WireType
<1>2. PICK x : x = [part |-> part, data |-> data]
  OBVIOUS
<1>3. x.part = part /\ x.data = data
  BY <1>2
<1>4. part \in Parts /\ data \in Data
  BY DEF Valid, Carried
<1>5. x \in Message
  BY <1>2, <1>4 DEF Message
<1>6. /\ Append(w, x) \in Seq(Message) /\ Len(Append(w, x)) = Len(w) + 1
      /\ Append(w, x)[Len(w) + 1] = x /\ \A i \in 1 .. Len(w) : Append(w, x)[i] = w[i]
  BY <1>1, <1>5
<1>7. PICK v : v = Append(w, x)
  OBVIOUS
<1>8. /\ v \in Seq(Message) /\ Len(v) = Len(w) + 1
      /\ v[Len(w) + 1] = x /\ \A i \in 1 .. Len(w) : v[i] = w[i]
  BY <1>6, <1>7
<1>9. ASSUME NEW i \in 1 .. Len(v)
      PROVE  /\ Valid(m, v[i].part) /\ Index(m, v[i].part) = r + i
             /\ Carried(n, m, v[i].part.call, v[i].part.what, v[i].part.number, v[i].data)
  <2>1. CASE i = Len(w) + 1
    <3>1. v[i] = x
      BY <1>8, <2>1
    <3>2. v[i].part = part /\ v[i].data = data
      BY <1>3, <3>1
    <3>3. s + 1 = r + i
      BY <1>1, <2>1
    <3> QED BY <3>2, <3>3
  <2>2. CASE i # Len(w) + 1
    <3>1. i \in 1 .. Len(w)
      BY <1>1, <1>8, <2>2
    <3> QED BY <1>1, <1>8, <3>1
  <2> QED BY <2>1, <2>2
<1>10. s + 1 = r + Len(v)
  BY <1>1, <1>8
<1>11. WireIs(n, m, v, s + 1, r)
  BY <1>8, <1>9, <1>10 DEF WireIs
<1> QED BY <1>2, <1>7, <1>11

\* The first message of the wire is the next one that is received.
LEMMA WireTail ==
    ASSUME NEW n, NEW m \in Nodes, NEW w, NEW s, NEW r \in Nat, WireIs(n, m, w, s, r), w # <<>>
    PROVE  /\ WireIs(n, m, Tail(w), s, r + 1)
           /\ Head(w) \in Message /\ Valid(m, Head(w).part) /\ Index(m, Head(w).part) = r + 1
           /\ Carried(n, m, Head(w).part.call, Head(w).part.what, Head(w).part.number, Head(w).data)
<1>1. /\ w \in Seq(Message) /\ Len(w) \in Nat /\ s = r + Len(w)
      /\ \A i \in 1 .. Len(w) : /\ w[i] \in Message
                                /\ Valid(m, w[i].part) /\ Index(m, w[i].part) = r + i
                                /\ Carried(n, m, w[i].part.call, w[i].part.what, w[i].part.number, w[i].data)
  BY WireType
<1>2. Len(w) >= 1 /\ Head(w) = w[1]
  BY <1>1, EmptySeq
<1>3. PICK v : v = Tail(w)
  OBVIOUS
<1>4. v \in Seq(Message) /\ Len(v) = Len(w) - 1 /\ \A i \in 1 .. Len(v) : v[i] = w[i + 1]
  BY <1>1, <1>2, <1>3, HeadTailProperties
<1>5. ASSUME NEW i \in 1 .. Len(v)
      PROVE  /\ Valid(m, v[i].part) /\ Index(m, v[i].part) = (r + 1) + i
             /\ Carried(n, m, v[i].part.call, v[i].part.what, v[i].part.number, v[i].data)
  <2>1. i + 1 \in 1 .. Len(w) /\ r + (i + 1) = (r + 1) + i
    BY <1>1, <1>4
  <2>2. v[i] = w[i + 1]
    BY <1>4
  <2> QED BY <1>1, <2>1, <2>2
<1>6. s = (r + 1) + Len(v)
  BY <1>1, <1>4
<1>7. WireIs(n, m, v, s, r + 1)
  BY <1>4, <1>5, <1>6 DEF WireIs
<1>8. 1 \in 1 .. Len(w)
  BY <1>1, <1>2
<1> QED BY <1>1, <1>2, <1>3, <1>7, <1>8

-----------------------------------------------------------------------------
(* The streams at the next position.                                       *)

\* At the end of an operation, complete if it is a transfer, both streams go on.
LEMMA StreamsAdvance ==
    ASSUME NEW n \in Nodes, NEW m \in Nodes \ {n}, NEW c \in 1 .. Calls, NEW a \in 1 .. Size(n, Kind[c])
    PROVE  LET o == Operation(n, c, a) IN
           /\ \A x : (o.do = "send" /\ o.peer = m => x = Count(m, o.what)) =>
                SentBy(n, m, NextCall(n, c, a), NextAt(n, c, a), 0) = SentBy(n, m, c, a, x)
           /\ \A x : (o.do = "receive" /\ o.peer = m => x = Count(n, o.what)) =>
                GotBy(n, m, NextCall(n, c, a), NextAt(n, c, a), 0) = GotBy(n, m, c, a, x)
<1>1. /\ SentBy(n, m, NextCall(n, c, a), NextAt(n, c, a), 0)
             = SentBy(n, m, c, a, Count(m, Operation(n, c, a).what))
      /\ GotBy(n, m, NextCall(n, c, a), NextAt(n, c, a), 0)
             = GotBy(n, m, c, a, Count(n, Operation(n, c, a).what))
  BY SentAdvances, GotAdvances
<1>2. \A x, y : ~(Operation(n, c, a).do = "send" /\ Operation(n, c, a).peer = m)
                   => SentBy(n, m, c, a, x) = SentBy(n, m, c, a, y)
  BY DEF SentBy, Does
<1>3. \A x, y : ~(Operation(n, c, a).do = "receive" /\ Operation(n, c, a).peer = m)
                   => GotBy(n, m, c, a, x) = GotBy(n, m, c, a, y)
  BY DEF GotBy, Does
<1> QED BY <1>1, <1>2, <1>3

\* What is sent to the others does not count for a node.
LEMMA StreamStays ==
    ASSUME NEW n, NEW m, NEW c, NEW a,
           ~(c <= Calls /\ Operation(n, c, a).do = "send" /\ Operation(n, c, a).peer = m)
    PROVE  \A x, y : SentBy(n, m, c, a, x) = SentBy(n, m, c, a, y)
BY DEF SentBy, Does

\* What is received from the others does not count for a node.
LEMMA GotStays ==
    ASSUME NEW n, NEW m, NEW c, NEW a,
           ~(c <= Calls /\ Operation(n, c, a).do = "receive" /\ Operation(n, c, a).peer = m)
    PROVE  \A x, y : GotBy(n, m, c, a, x) = GotBy(n, m, c, a, y)
BY DEF GotBy, Does

-----------------------------------------------------------------------------
(* A step of one node.                                                     *)

\* Node n comes to this state, the other nodes stay.
Moves(n, c, a, s, b, box, map, bar, res) ==
    /\ call' = [call EXCEPT ![n] = c] /\ at' = [at EXCEPT ![n] = a]
    /\ sent' = [sent EXCEPT ![n] = s] /\ blocked' = [blocked EXCEPT ![n] = b]
    /\ inbox' = [inbox EXCEPT ![n] = box] /\ held' = [held EXCEPT ![n] = map]
    /\ barrier' = [barrier EXCEPT ![n] = bar] /\ results' = [results EXCEPT ![n] = res]

\* The types of what the invariant says of a node.
LEMMA NodeType ==
    ASSUME NEW n \in Nodes, NEW c, NEW a, NEW s, NEW b, NEW box, NEW map, NEW bar, NEW res,
           NodeIs(n, c, a, s, b, box, map, bar, res)
    PROVE  /\ c \in 1 .. Calls + 1 /\ a \in Nat \ {0} /\ s \in Nat /\ b \in BOOLEAN
           /\ box \in Seq(Data) /\ map \in Maps /\ bar \in 0 .. Calls /\ res \in Seq(Maps)
           /\ Number(s, b) \in Nat /\ Len(box) \in Nat
<1>1. /\ c \in 1 .. Calls + 1 /\ a \in Nat \ {0} /\ s \in Nat /\ b \in BOOLEAN
      /\ box \in Seq(Data) /\ map \in Maps /\ bar \in 0 .. Calls /\ res \in Seq(Maps)
  BY DEF NodeIs, Position, SendingIs, InboxIs, HeldIs, BarrierIs, ResultsIs
<1>2. Number(s, b) \in Nat
  BY <1>1 DEF Number
<1> QED BY <1>1, <1>2, LenProperties

\* A step of one node keeps the invariant, if it does for this node and its wires.
LEMMA StepKeeps ==
    ASSUME IInv, NEW n \in Nodes, NEW c, NEW a, NEW s, NEW b, NEW box, NEW map, NEW bar, NEW res,
           Moves(n, c, a, s, b, box, map, bar, res), NodeIs(n, c, a, s, b, box, map, bar, res),
           wire' \in [Nodes -> [Nodes -> Seq(Message)]], gathered' \in Seq(Maps),
           n = 0 => GatheredIs(c, a, gathered'), n # 0 => gathered' = gathered,
           \A p \in Nodes \ {n}, q \in Nodes \ {n} : wire'[p][q] = wire[p][q],
           \A m \in Nodes \ {n} :
                /\ WireIs(n, m, wire'[n][m], SentBy(n, m, c, a, Number(s, b)), GotFrom(m, n))
                /\ WireIs(m, n, wire'[m][n], SentTo(m, n), GotBy(n, m, c, a, Len(box)))
    PROVE  IInv'
<1>1. /\ c \in 1 .. Calls + 1 /\ a \in Nat \ {0} /\ s \in Nat /\ b \in BOOLEAN
      /\ box \in Seq(Data) /\ map \in Maps /\ bar \in 0 .. Calls /\ res \in Seq(Maps)
  BY NodeType
<1>2. Shape
  BY DEF IInv
<1>3. Shape'
  BY <1>1, <1>2 DEF Shape, Moves
<1>4. /\ call'[n] = c /\ at'[n] = a /\ sent'[n] = s /\ blocked'[n] = b /\ inbox'[n] = box
      /\ held'[n] = map /\ barrier'[n] = bar /\ results'[n] = res
  BY <1>2 DEF Shape, Moves
<1>5. \A m \in Nodes \ {n} :
        /\ call'[m] = call[m] /\ at'[m] = at[m] /\ sent'[m] = sent[m] /\ blocked'[m] = blocked[m]
        /\ inbox'[m] = inbox[m] /\ held'[m] = held[m] /\ barrier'[m] = barrier[m] /\ results'[m] = results[m]
  BY <1>2 DEF Shape, Moves
<1>6. ASSUME NEW m \in Nodes
      PROVE  NodeIs(m, call'[m], at'[m], sent'[m], blocked'[m], inbox'[m], held'[m], barrier'[m], results'[m])
  <2>1. CASE m = n
    BY <1>4, <2>1
  <2>2. CASE m # n
    BY <1>5, <2>2 DEF IInv
  <2> QED BY <2>1, <2>2
<1>7. 0 \in Nodes
  BY ExchangeAssumption DEF Nodes
<1>8. GatheredIs(call'[0], at'[0], gathered')
  <2>1. CASE n = 0
    BY <1>4, <2>1
  <2>2. CASE n # 0
    BY <1>5, <1>7, <2>2 DEF IInv
  <2> QED BY <2>1, <2>2
<1>10. ASSUME NEW p \in Nodes, NEW q \in Nodes \ {p}
       PROVE  WireIs(p, q, wire'[p][q], SentTo(p, q)', GotFrom(q, p)')
  <2>1. SentTo(p, q)' = SentBy(p, q, call'[p], at'[p], Number(sent'[p], blocked'[p]))
    BY DEF SentTo
  <2>2. GotFrom(q, p)' = GotBy(q, p, call'[q], at'[q], Len(inbox'[q]))
    BY DEF GotFrom
  <2>3. CASE p = n
    <3>1. SentTo(p, q)' = SentBy(n, q, c, a, Number(s, b))
      BY <1>4, <2>1, <2>3
    <3>2. GotFrom(q, p)' = GotFrom(q, n)
      BY <1>5, <2>2, <2>3 DEF GotFrom
    <3> QED BY <2>3, <3>1, <3>2
  <2>4. CASE q = n
    <3>1. SentTo(p, q)' = SentTo(p, n)
      BY <1>5, <2>1, <2>4 DEF SentTo
    <3>2. GotFrom(q, p)' = GotBy(n, p, c, a, Len(box))
      BY <1>4, <2>2, <2>4
    <3> QED BY <2>4, <3>1, <3>2
  <2>5. CASE p # n /\ q # n
    <3>1. SentTo(p, q)' = SentTo(p, q) /\ GotFrom(q, p)' = GotFrom(q, p)
      BY <1>5, <2>1, <2>2, <2>5 DEF SentTo, GotFrom
    <3>2. WireIs(p, q, wire[p][q], SentTo(p, q), GotFrom(q, p))
      BY DEF IInv
    <3> QED BY <2>5, <3>1, <3>2
  <2> QED BY <2>3, <2>4, <2>5
<1> QED BY <1>3, <1>6, <1>8, <1>10 DEF IInv

\* The invariant, as it is used for one node.
LEMMA NodeNow ==
    ASSUME IInv, NEW n \in Nodes
    PROVE  /\ NodeIs(n, call[n], at[n], sent[n], blocked[n], inbox[n], held[n], barrier[n], results[n])
           /\ Position(n, call[n], at[n]) /\ SendingIs(n, call[n], at[n], sent[n], blocked[n])
           /\ InboxIs(n, call[n], at[n], inbox[n]) /\ HeldIs(n, call[n], at[n], held[n])
           /\ BarrierIs(n, call[n], at[n], barrier[n]) /\ ResultsIs(n, call[n], results[n])
           /\ call[n] \in Nat \ {0} /\ sent[n] \in Nat /\ Len(inbox[n]) \in Nat
           /\ Done(n) <=> call[n] > Calls
           /\ ~Done(n) => /\ call[n] \in 1 .. Calls /\ at[n] \in 1 .. Size(n, Kind[call[n]])
                          /\ Len(Ops(n)) = Size(n, Kind[call[n]])
                          /\ Peer(n) = Operation(n, call[n], at[n]).peer
                          /\ What(n) = Operation(n, call[n], at[n]).what
           /\ \A do : Doing(n, do) <=> ~Done(n) /\ Operation(n, call[n], at[n]).do = do
<1>1. NodeIs(n, call[n], at[n], sent[n], blocked[n], inbox[n], held[n], barrier[n], results[n])
  BY DEF IInv
<1>2. /\ Position(n, call[n], at[n]) /\ SendingIs(n, call[n], at[n], sent[n], blocked[n])
      /\ InboxIs(n, call[n], at[n], inbox[n]) /\ HeldIs(n, call[n], at[n], held[n])
      /\ BarrierIs(n, call[n], at[n], barrier[n]) /\ ResultsIs(n, call[n], results[n])
  BY <1>1 DEF NodeIs
<1>3. call[n] \in 1 .. Calls + 1
  BY <1>2 DEF Position
<1>4. call[n] \in Nat \ {0} /\ sent[n] \in Nat /\ Len(inbox[n]) \in Nat
  BY <1>1, <1>3, NodeType, CallsType
<1> QED BY <1>1, <1>2, <1>3, <1>4, DoingIs

\* What Advance does to node n.
LEMMA AdvanceIs ==
    ASSUME IInv, NEW n \in Nodes, ~Done(n), NEW map, Advance(n, map),
           at[n] < Size(n, Kind[call[n]]) => HeldIs(n, call[n], at[n] + 1, map),
           ~(at[n] < Size(n, Kind[call[n]])) =>
                /\ map \in Maps
                /\ IF n > 0 THEN map = Empty ELSE Answer(map, Keys, Nodes, call[n])
    PROVE  \E hm, hr :
           /\ call' = [call EXCEPT ![n] = NextCall(n, call[n], at[n])]
           /\ at' = [at EXCEPT ![n] = NextAt(n, call[n], at[n])]
           /\ held' = [held EXCEPT ![n] = hm] /\ results' = [results EXCEPT ![n] = hr]
           /\ HeldIs(n, NextCall(n, call[n], at[n]), NextAt(n, call[n], at[n]), hm)
           /\ ResultsIs(n, NextCall(n, call[n], at[n]), hr)
<1>1. /\ call[n] \in 1 .. Calls /\ call[n] \in Nat \ {0} /\ at[n] \in 1 .. Size(n, Kind[call[n]])
      /\ Len(Ops(n)) = Size(n, Kind[call[n]])
      /\ ResultsIs(n, call[n], results[n])
  BY NodeNow
<1>2. call \in [Nodes -> 1 .. Calls + 1] /\ results \in [Nodes -> Seq(Maps)]
  BY DEF IInv, Shape
<1>3. CASE at[n] < Size(n, Kind[call[n]])
  <2>1. NextCall(n, call[n], at[n]) = call[n] /\ NextAt(n, call[n], at[n]) = at[n] + 1
    BY <1>1, <1>3, NextIs
  <2>2. at' = [at EXCEPT ![n] = at[n] + 1] /\ held' = [held EXCEPT ![n] = map] /\ call' = call /\ results' = results
    BY <1>1, <1>3 DEF Advance
  <2>3. call' = [call EXCEPT ![n] = call[n]] /\ results' = [results EXCEPT ![n] = results[n]]
    BY <1>2, <2>2
  <2> QED BY <1>1, <1>3, <2>1, <2>2, <2>3
<1>4. CASE ~(at[n] < Size(n, Kind[call[n]]))
  <2>1. NextCall(n, call[n], at[n]) = call[n] + 1 /\ NextAt(n, call[n], at[n]) = 1
    BY <1>1, <1>4, NextIs
  <2>2. /\ at' = [at EXCEPT ![n] = 1] /\ held' = [held EXCEPT ![n] = Collected(n, call[n] + 1)]
        /\ call' = [call EXCEPT ![n] = call[n] + 1]
        /\ results' = [results EXCEPT ![n] = Append(results[n], map)]
    BY <1>1, <1>4 DEF Advance
  <2>3. HeldIs(n, call[n] + 1, 1, Collected(n, call[n] + 1))
    BY <1>1, CallBegins
  <2>4. ResultsIs(n, call[n] + 1, Append(results[n], map))
    BY <1>1, <1>4, ResultReturned
  <2> QED BY <2>1, <2>2, <2>3, <2>4
<1> QED BY <1>3, <1>4

\* Node n is ready for the next operation.
LEMMA GoesOn ==
    ASSUME IInv, NEW n \in Nodes, ~Done(n), NEW map, Advance(n, map),
           at[n] < Size(n, Kind[call[n]]) => HeldIs(n, call[n], at[n] + 1, map),
           ~(at[n] < Size(n, Kind[call[n]])) =>
                /\ map \in Maps
                /\ IF n > 0 THEN map = Empty ELSE Answer(map, Keys, Nodes, call[n]),
           Operation(n, call[n], at[n]).do = "barrier" => call[n] <= barrier[n],
           sent' = [sent EXCEPT ![n] = 0], blocked' = [blocked EXCEPT ![n] = FALSE],
           inbox' = [inbox EXCEPT ![n] = <<>>], barrier' = barrier
    PROVE  LET c == call[n]
               a == at[n]
               o == Operation(n, c, a)
           IN  \E hm, hr :
           /\ Moves(n, NextCall(n, c, a), NextAt(n, c, a), 0, FALSE, <<>>, hm, barrier[n], hr)
           /\ NodeIs(n, NextCall(n, c, a), NextAt(n, c, a), 0, FALSE, <<>>, hm, barrier[n], hr)
<1> DEFINE c == call[n]
           a == at[n]
<1>1. /\ c \in 1 .. Calls /\ a \in 1 .. Size(n, Kind[c]) /\ BarrierIs(n, c, a, barrier[n])
  BY NodeNow
<1>2. PICK hm, hr :
           /\ call' = [call EXCEPT ![n] = NextCall(n, c, a)]
           /\ at' = [at EXCEPT ![n] = NextAt(n, c, a)]
           /\ held' = [held EXCEPT ![n] = hm] /\ results' = [results EXCEPT ![n] = hr]
           /\ HeldIs(n, NextCall(n, c, a), NextAt(n, c, a), hm)
           /\ ResultsIs(n, NextCall(n, c, a), hr)
  BY AdvanceIs
<1>3. Position(n, NextCall(n, c, a), NextAt(n, c, a))
  BY <1>1, NextIs
<1>4. /\ SendingIs(n, NextCall(n, c, a), NextAt(n, c, a), 0, FALSE)
      /\ InboxIs(n, NextCall(n, c, a), NextAt(n, c, a), <<>>)
  BY TransferBegins
<1>5. BarrierIs(n, NextCall(n, c, a), NextAt(n, c, a), barrier[n])
  BY <1>1, BarrierPassed
<1>6. barrier' = [barrier EXCEPT ![n] = barrier[n]]
  BY DEF IInv, Shape
<1>7. Moves(n, NextCall(n, c, a), NextAt(n, c, a), 0, FALSE, <<>>, hm, barrier[n], hr)
  BY <1>2, <1>6 DEF Moves
<1>8. NodeIs(n, NextCall(n, c, a), NextAt(n, c, a), 0, FALSE, <<>>, hm, barrier[n], hr)
  BY <1>2, <1>3, <1>4, <1>5 DEF NodeIs
<1> QED BY <1>7, <1>8

\* Rank 0 gathers nothing before its local reduction.
LEMMA GatheredStays ==
    ASSUME NEW c \in 1 .. Calls, NEW a \in 1 .. Size(0, Kind[c]), NEW g, GatheredIs(c, a, g),
           ~(Operation(0, c, a).do = "receive" /\ Operation(0, c, a).what = "result"),
           Operation(0, c, a).do # "combine"
    PROVE  GatheredIs(NextCall(0, c, a), NextAt(0, c, a), g)
<1>1. 0 \in Nodes /\ Calls \in Nat /\ Kind[c] \in Kinds /\ mpi_nodes \in Nat \ {0}
      /\ Size(0, Kind[c]) \in Nat /\ LocalAt(Kind[c]) \in Nat
  BY CallsType, SizeIs, LocalAtIs, ExchangeAssumption DEF Nodes
<1>2. a <= LocalAt(Kind[c])
  <2>1. SUFFICES ASSUME a > LocalAt(Kind[c]) PROVE FALSE
    BY <1>1
  <2>2. Operation(0, c, a).do = "send" /\ Operation(0, c, a).what = "result"
    BY <1>1, <2>1, PlaceIs
  <2>3. \/ Operation(0, c, a).what = "shuffle"
        \/ 0 > 0
    BY <1>1, <2>2, SendIs
  <2> QED BY <2>2, <2>3
<1>3. g \in Seq(Maps) /\ Len(g) = 0
  BY <1>1, <1>2 DEF GatheredIs
<1>4. CASE a < Size(0, Kind[c])
  <2>1. NextCall(0, c, a) = c /\ NextAt(0, c, a) = a + 1
    BY <1>1, <1>4, NextIs
  <2>3. GatheredIs(c, a + 1, g)
    <3>1. \A i \in 1 .. Len(g) : Answer(g[i], Home(i, Kind[c]), From(i, Kind[c]), c)
      BY <1>3
    <3>2. PICK b \in Nat : b = a + 1
      BY <1>1
    <3>3. Len(g) = IF c <= Calls /\ b > LocalAt(Kind[c]) THEN b - LocalAt(Kind[c]) - 1 ELSE 0
      BY <1>1, <1>2, <1>3, <3>2
    <3>4. GatheredIs(c, b, g)
      BY <1>3, <3>1, <3>3 DEF GatheredIs
    <3> QED BY <3>2, <3>4
  <2> QED BY <2>1, <2>3
<1>5. CASE ~(a < Size(0, Kind[c]))
  <2>1. NextCall(0, c, a) = c + 1 /\ NextAt(0, c, a) = 1
    BY <1>1, <1>5, NextIs
  <2>2. c + 1 <= Calls => ~(1 > LocalAt(Kind[c + 1]))
    <3>1. SUFFICES ASSUME c + 1 <= Calls PROVE ~(1 > LocalAt(Kind[c + 1]))
      OBVIOUS
    <3>2. Kind[c + 1] \in Kinds
      BY <1>1, <3>1, CallsType
    <3> QED BY <3>2, LocalAtIs
  <2>3. Len(g) = IF c + 1 <= Calls /\ 1 > LocalAt(Kind[c + 1]) THEN 1 - LocalAt(Kind[c + 1]) - 1 ELSE 0
    BY <1>3, <2>2
  <2>4. GatheredIs(c + 1, 1, g)
    BY <1>3, <2>3 DEF GatheredIs
  <2> QED BY <2>1, <2>4
<1> QED BY <1>4, <1>5

-----------------------------------------------------------------------------
\* The messages of the current transfer.
LEMMA TransferMessages ==
    ASSUME IInv, NEW n \in Nodes, Doing(n, "send")
    PROVE  /\ Peer(n) \in Nodes \ {n} /\ sent[n] < Count(Peer(n), What(n))
           /\ Len(Messages(n)) = Count(Peer(n), What(n)) /\ Count(Peer(n), What(n)) \in Nat
           /\ \A i \in 1 .. Count(Peer(n), What(n)) :
                Carried(n, Peer(n), call[n], What(n), i, Messages(n)[i])
<1> DEFINE c == call[n]
           a == at[n]
           m == Peer(n)
<1>1. /\ c \in 1 .. Calls /\ a \in 1 .. Size(n, Kind[c]) /\ ~Done(n)
      /\ m = Operation(n, c, a).peer /\ What(n) = Operation(n, c, a).what
      /\ Operation(n, c, a).do = "send"
      /\ SendingIs(n, c, a, sent[n], blocked[n]) /\ HeldIs(n, c, a, held[n])
      /\ c <= Calls
  BY NodeNow, CallsType
<1>2. /\ m \in Nodes \ {n}
      /\ \/ What(n) = "shuffle" /\ Kind[c] = "GlobalH" /\ a < LocalAt(Kind[c]) /\ a = SendAt(n, m)
         \/ What(n) = "result" /\ n > 0 /\ m = 0 /\ a = LocalAt(Kind[c]) + 1
  BY <1>1, SendIs
<1>3. sent[n] < Count(m, What(n))
  BY <1>1 DEF SendingIs
<1>4. Count(m, What(n)) \in Nat /\ Count(m, "result") = 3
  BY CountType
<1>5. LocalAt(Kind[c]) \in Nat
  BY <1>1, CallsType, LocalAtIs
<1>6. CASE What(n) = "shuffle"
  <2>1. /\ Kind[c] = "GlobalH" /\ a <= LocalAt(Kind[c])
    BY <1>1, <1>2, <1>5, <1>6
  <2>2. /\ DOMAIN held[n] = Keys
        /\ \A k \in Keys : IF Distributer[k] = n THEN Carries(held[n][k], Contributions(Heard(n, a), c, k))
                           ELSE held[n][k] = Collected(n, c)[k]
    BY <1>1, <2>1 DEF HeldIs
  <2>3. \A k \in Home(m, "GlobalH") : held[n][k] = Collected(n, c)[k]
    BY <1>2, <2>2 DEF Home
  <2>4. /\ Len(Messages(n)) = Count(m, "shuffle")
        /\ \A i \in 1 .. Count(m, "shuffle") : Carried(n, m, c, "shuffle", i, Messages(n)[i])
    BY <1>1, <1>2, <1>6, <2>2, <2>3, ShuffleMessages
  <2> QED BY <1>2, <1>3, <1>4, <1>6, <2>4
<1>7. CASE What(n) = "result"
  <2>1. a > LocalAt(Kind[c])
    BY <1>1, <1>2, <1>5, <1>7
  <2>2. Answer(held[n], Home(n, Kind[c]), From(n, Kind[c]), c)
    BY <1>1, <2>1 DEF HeldIs
  <2>3. /\ Len(Messages(n)) = 3
        /\ \A i \in 1 .. 3 : Carried(n, m, c, "result", i, Messages(n)[i])
    BY <1>1, <1>2, <1>7, <2>2, ResultMessages
  <2> QED BY <1>2, <1>3, <1>4, <1>7, <2>3
<1> QED BY <1>2, <1>6, <1>7

\* Before the local reduction, a node that does not receive keeps its map.
LEMMA HeldStays ==
    ASSUME NEW n \in Nodes, NEW c \in 1 .. Calls, NEW a \in 1 .. Size(n, Kind[c]), NEW map,
           HeldIs(n, c, a, map), a < LocalAt(Kind[c]), Operation(n, c, a).do # "receive"
    PROVE  HeldIs(n, c, a + 1, map) /\ a < Size(n, Kind[c])
<1>1. Calls \in Nat /\ c <= Calls /\ Kind[c] \in Kinds /\ LocalAt(Kind[c]) \in Nat
      /\ Size(n, Kind[c]) \in Nat /\ Size(n, Kind[c]) >= LocalAt(Kind[c])
  BY CallsType, LocalAtIs, SizeIs
<1>2. a <= LocalAt(Kind[c]) /\ a + 1 <= LocalAt(Kind[c]) /\ ~(a + 1 > LocalAt(Kind[c])) /\ a < Size(n, Kind[c])
  BY <1>1
<1>3. PICK b \in Nat : b = a + 1
  BY <1>1
<1>4. b <= LocalAt(Kind[c]) /\ ~(b > LocalAt(Kind[c]))
  BY <1>2, <1>3
<1>5. map \in Maps
  BY DEF HeldIs
<1>6. CASE Kind[c] = "GlobalH"
  <2>1. Operation(n, c, a).do = "send" /\ Operation(n, c, a).what = "shuffle"
    <3>1. Operation(n, c, a).do \in {"send", "receive", "barrier"}
          /\ (Operation(n, c, a).do = "send" => Operation(n, c, a).what = "shuffle")
      BY PlaceIs
    <3>2. Operation(n, c, a).do # "barrier"
      BY <1>6, OthersIs
    <3> QED BY <3>1, <3>2
  <2>2. PICK m \in Nodes \ {n} : a = SendAt(n, m)
    BY <2>1, SendIs
  <2>3. \A p \in Nodes \ {n} : ReceiveAt(n, p) \in Nat /\ a # ReceiveAt(n, p)
    BY <2>2, TurnsApart, ExchangeAssumption
  <2>4. \A p \in Nodes \ {n} : b > ReceiveAt(n, p) <=> a > ReceiveAt(n, p)
    BY <1>1, <1>3, <2>3
  <2>5. Heard(n, b) = Heard(n, a)
    BY <2>4 DEF Heard
  <2>6. /\ DOMAIN map = Keys
        /\ \A k \in Keys : IF Distributer[k] = n THEN Carries(map[k], Contributions(Heard(n, a), c, k))
                           ELSE map[k] = Collected(n, c)[k]
    BY <1>1, <1>2, <1>6 DEF HeldIs
  <2>7. HeldIs(n, c, b, map)
    BY <1>1, <1>4, <1>5, <1>6, <2>5, <2>6 DEF HeldIs
  <2> QED BY <1>2, <1>3, <2>7
<1>7. CASE Kind[c] # "GlobalH"
  <2>1. map = Collected(n, c)
    BY <1>1, <1>2, <1>7 DEF HeldIs
  <2>2. HeldIs(n, c, b, map)
    BY <1>1, <1>4, <1>5, <1>7, <2>1 DEF HeldIs
  <2> QED BY <1>2, <1>3, <2>2
<1> QED BY <1>6, <1>7

\* What a step of node n that sends one message makes of the node and of its streams.
Goes(n, x, y, g) ==
    \E c, a, s, b, box, map, bar, res :
        /\ Moves(n, c, a, s, b, box, map, bar, res)
        /\ NodeIs(n, c, a, s, b, box, map, bar, res)
        /\ n = 0 => GatheredIs(c, a, g)
        /\ \A m \in Nodes \ {n} :
            /\ SentBy(n, m, c, a, Number(s, b)) = SentBy(n, m, call[n], at[n], x)
            /\ GotBy(n, m, c, a, Len(box)) = GotBy(n, m, call[n], at[n], y)

\* Such a step.
LEMMA GoesStays ==
    ASSUME NEW n, NEW x, NEW y, NEW g, NEW c, NEW a, NEW s, NEW b, NEW box, NEW map, NEW bar, NEW res,
           Moves(n, c, a, s, b, box, map, bar, res), NodeIs(n, c, a, s, b, box, map, bar, res),
           n = 0 => GatheredIs(c, a, g),
           \A m \in Nodes \ {n} :
            /\ SentBy(n, m, c, a, Number(s, b)) = SentBy(n, m, call[n], at[n], x)
            /\ GotBy(n, m, c, a, Len(box)) = GotBy(n, m, call[n], at[n], y)
    PROVE  Goes(n, x, y, g)
BY DEF Goes

\* A step that ends the operation of node n.
LEMMA OperationEnds ==
    ASSUME IInv, NEW n \in Nodes, ~Done(n), NEW map, Advance(n, map), NEW x, NEW y, NEW g,
           at[n] < Size(n, Kind[call[n]]) => HeldIs(n, call[n], at[n] + 1, map),
           ~(at[n] < Size(n, Kind[call[n]])) =>
                /\ map \in Maps
                /\ IF n > 0 THEN map = Empty ELSE Answer(map, Keys, Nodes, call[n]),
           Operation(n, call[n], at[n]).do = "barrier" => call[n] <= barrier[n],
           sent' = [sent EXCEPT ![n] = 0], blocked' = [blocked EXCEPT ![n] = FALSE],
           inbox' = [inbox EXCEPT ![n] = <<>>], barrier' = barrier,
           n = 0 => GatheredIs(NextCall(n, call[n], at[n]), NextAt(n, call[n], at[n]), g),
           Doing(n, "send") => x = Count(Peer(n), What(n)),
           Doing(n, "receive") => y = Count(n, What(n))
    PROVE  Goes(n, x, y, g)
<1> DEFINE c == call[n]
           a == at[n]
<1>1. /\ c \in 1 .. Calls /\ a \in 1 .. Size(n, Kind[c])
      /\ Peer(n) = Operation(n, c, a).peer /\ What(n) = Operation(n, c, a).what
      /\ \A do : Doing(n, do) <=> Operation(n, c, a).do = do
  BY NodeNow
<1>2. PICK hm, hr :
           /\ Moves(n, NextCall(n, c, a), NextAt(n, c, a), 0, FALSE, <<>>, hm, barrier[n], hr)
           /\ NodeIs(n, NextCall(n, c, a), NextAt(n, c, a), 0, FALSE, <<>>, hm, barrier[n], hr)
  BY GoesOn
<1>3. ASSUME NEW m \in Nodes \ {n}
      PROVE  /\ SentBy(n, m, NextCall(n, c, a), NextAt(n, c, a), 0) = SentBy(n, m, c, a, x)
             /\ GotBy(n, m, NextCall(n, c, a), NextAt(n, c, a), 0) = GotBy(n, m, c, a, y)
  <2>1. Operation(n, c, a).do = "send" /\ Operation(n, c, a).peer = m => x = Count(m, Operation(n, c, a).what)
    BY <1>1
  <2>2. Operation(n, c, a).do = "receive" /\ Operation(n, c, a).peer = m => y = Count(n, Operation(n, c, a).what)
    BY <1>1
  <2> QED BY <1>1, <2>1, <2>2, StreamsAdvance
<1>4. Number(0, FALSE) = 0 /\ Len(<<>>) = 0
  BY DEF Number
<1>5. \A m \in Nodes \ {n} :
        /\ SentBy(n, m, NextCall(n, c, a), NextAt(n, c, a), Number(0, FALSE)) = SentBy(n, m, c, a, x)
        /\ GotBy(n, m, NextCall(n, c, a), NextAt(n, c, a), Len(<<>>)) = GotBy(n, m, c, a, y)
  BY <1>3, <1>4
<1>6. PICK nc, na, s, b, box :
        nc = NextCall(n, c, a) /\ na = NextAt(n, c, a) /\ s = 0 /\ b = FALSE /\ box = <<>>
  OBVIOUS
<1>7. /\ Moves(n, nc, na, s, b, box, hm, barrier[n], hr)
      /\ NodeIs(n, nc, na, s, b, box, hm, barrier[n], hr)
      /\ n = 0 => GatheredIs(nc, na, g)
      /\ \A m \in Nodes \ {n} :
        /\ SentBy(n, m, nc, na, Number(s, b)) = SentBy(n, m, call[n], at[n], x)
        /\ GotBy(n, m, nc, na, Len(box)) = GotBy(n, m, call[n], at[n], y)
  BY <1>2, <1>5, <1>6
<1> QED BY <1>7, GoesStays

\* So the step keeps the invariant, when the wires are right.
LEMMA GoesKeeps ==
    ASSUME IInv, NEW n \in Nodes, NEW x, NEW y, Goes(n, x, y, gathered'),
           wire' \in [Nodes -> [Nodes -> Seq(Message)]], gathered' \in Seq(Maps),
           n # 0 => gathered' = gathered,
           \A p \in Nodes \ {n}, q \in Nodes \ {n} : wire'[p][q] = wire[p][q],
           \A m \in Nodes \ {n} :
                /\ WireIs(n, m, wire'[n][m], SentBy(n, m, call[n], at[n], x), GotFrom(m, n))
                /\ WireIs(m, n, wire'[m][n], SentTo(m, n), GotBy(n, m, call[n], at[n], y))
    PROVE  IInv'
<1>1. PICK c, a, s, b, box, map, bar, res :
        /\ Moves(n, c, a, s, b, box, map, bar, res)
        /\ NodeIs(n, c, a, s, b, box, map, bar, res)
        /\ n = 0 => GatheredIs(c, a, gathered')
        /\ \A m \in Nodes \ {n} :
            /\ SentBy(n, m, c, a, Number(s, b)) = SentBy(n, m, call[n], at[n], x)
            /\ GotBy(n, m, c, a, Len(box)) = GotBy(n, m, call[n], at[n], y)
  BY DEF Goes
<1>2. \A m \in Nodes \ {n} :
                /\ WireIs(n, m, wire'[n][m], SentBy(n, m, c, a, Number(s, b)), GotFrom(m, n))
                /\ WireIs(m, n, wire'[m][n], SentTo(m, n), GotBy(n, m, c, a, Len(box)))
  BY <1>1
<1> QED BY <1>1, <1>2, StepKeeps

-----------------------------------------------------------------------------
(* Sending.                                                                *)

\* The end of a send: the next message of the transfer, or the next operation.
LEMMA FinishSendIs ==
    ASSUME IInv, NEW n \in Nodes, Doing(n, "send"), FinishSend(n, sent[n] + 1),
           blocked' = [blocked EXCEPT ![n] = FALSE], UNCHANGED <<inbox, barrier>>
    PROVE  Goes(n, sent[n] + 1, 0, gathered)
<1> DEFINE c == call[n]
           a == at[n]
           m == Peer(n)
<1>1. /\ c \in 1 .. Calls /\ a \in 1 .. Size(n, Kind[c]) /\ ~Done(n) /\ sent[n] \in Nat
      /\ m = Operation(n, c, a).peer /\ What(n) = Operation(n, c, a).what
      /\ Operation(n, c, a).do = "send" /\ ~Doing(n, "receive")
      /\ SendingIs(n, c, a, sent[n], blocked[n]) /\ HeldIs(n, c, a, held[n])
      /\ InboxIs(n, c, a, inbox[n])
      /\ NodeIs(n, c, a, sent[n], blocked[n], inbox[n], held[n], barrier[n], results[n])
  BY NodeNow
<1>2. /\ m \in Nodes \ {n} /\ sent[n] < Count(m, What(n))
      /\ Len(Messages(n)) = Count(m, What(n)) /\ Count(m, What(n)) \in Nat
  BY TransferMessages
<1>3. Calls \in Nat /\ c <= Calls /\ Kind[c] \in Kinds /\ LocalAt(Kind[c]) \in Nat /\ Size(n, Kind[c]) \in Nat
  BY <1>1, CallsType, LocalAtIs, SizeIs
<1>4. inbox[n] = <<>> /\ Len(inbox[n]) = 0
  BY <1>1 DEF InboxIs
<1>5. n = 0 => GatheredIs(c, a, gathered)
  BY DEF IInv
<1>6. /\ inbox' = [inbox EXCEPT ![n] = inbox[n]] /\ barrier' = [barrier EXCEPT ![n] = barrier[n]]
      /\ inbox' = [inbox EXCEPT ![n] = <<>>] /\ barrier' = barrier
  BY <1>4 DEF IInv, Shape
<1>7. CASE sent[n] + 1 < Len(Messages(n))
  <2>1. /\ sent' = [sent EXCEPT ![n] = sent[n] + 1]
        /\ call' = call /\ at' = at /\ held' = held /\ results' = results
    BY <1>7 DEF FinishSend
  <2>2. /\ call' = [call EXCEPT ![n] = c] /\ at' = [at EXCEPT ![n] = a]
        /\ held' = [held EXCEPT ![n] = held[n]] /\ results' = [results EXCEPT ![n] = results[n]]
    BY <2>1 DEF IInv, Shape
  <2>3. Moves(n, c, a, sent[n] + 1, FALSE, inbox[n], held[n], barrier[n], results[n])
    BY <1>6, <2>1, <2>2 DEF Moves
  <2>4. SendingIs(n, c, a, sent[n] + 1, FALSE)
    BY <1>1, <1>2, <1>3, <1>7 DEF SendingIs
  <2>5. NodeIs(n, c, a, sent[n] + 1, FALSE, inbox[n], held[n], barrier[n], results[n])
    BY <1>1, <2>4 DEF NodeIs
  <2>6. Number(sent[n] + 1, FALSE) = sent[n] + 1
    BY <1>1 DEF Number
  <2> QED BY <1>4, <1>5, <2>3, <2>5, <2>6, GoesStays
<1>8. CASE ~(sent[n] + 1 < Len(Messages(n)))
  <2>1. /\ sent' = [sent EXCEPT ![n] = 0]
        /\ Advance(n, IF What(n) = "result" THEN Empty ELSE held[n])
    BY <1>8 DEF FinishSend
  <2>2. sent[n] + 1 = Count(m, What(n))
    BY <1>1, <1>2, <1>8
  <2>3. \/ What(n) = "shuffle" /\ Kind[c] = "GlobalH" /\ a < LocalAt(Kind[c]) /\ a = SendAt(n, m)
        \/ What(n) = "result" /\ n > 0 /\ m = 0 /\ a = LocalAt(Kind[c]) + 1 /\ mpi_nodes > 1
    BY <1>1, SendIs
  <2>4. n = 0 => GatheredIs(NextCall(n, c, a), NextAt(n, c, a), gathered)
    BY <1>1, <1>5, GatheredStays
  <2>5. CASE What(n) = "shuffle"
    <3>1. Advance(n, held[n])
      BY <2>1, <2>5
    <3>2. HeldIs(n, c, a + 1, held[n]) /\ a < Size(n, Kind[c])
      BY <1>1, <2>3, <2>5, HeldStays
    <3> QED BY <1>1, <1>6, <2>1, <2>2, <2>4, <3>1, <3>2, OperationEnds
  <2>6. CASE What(n) = "result"
    <3>1. Advance(n, Empty)
      BY <2>1, <2>6
    <3>2. n > 0 /\ Empty \in Maps /\ ~(a < Size(n, Kind[c]))
      BY <1>3, <2>3, <2>6, EmptyType DEF Size
    <3> QED BY <1>1, <1>6, <2>1, <2>2, <2>4, <3>1, <3>2, OperationEnds
  <2> QED BY <2>3, <2>5, <2>6
<1> QED BY <1>7, <1>8

\* A message that is not buffered has been sent.
LEMMA NumberIs ==
    ASSUME NEW s \in Nat, NEW b
    PROVE  (b => Number(s, b) = s + 1) /\ (~b => Number(s, b) = s)
<1>1. CASE b
  BY <1>1 DEF Number
<1>2. CASE ~b
  BY <1>2 DEF Number
<1> QED BY <1>1, <1>2

\* What a step that leaves the wires alone keeps.
LEMMA QuietKeeps ==
    ASSUME IInv, NEW n \in Nodes, Goes(n, Number(sent[n], blocked[n]), Len(inbox[n]), gathered'),
           wire' = wire, gathered' \in Seq(Maps), n # 0 => gathered' = gathered
    PROVE  IInv'
<1>1. wire' \in [Nodes -> [Nodes -> Seq(Message)]]
  BY DEF IInv, Shape
<1>2. \A m \in Nodes \ {n} :
                /\ WireIs(n, m, wire'[n][m], SentTo(n, m), GotFrom(m, n))
                /\ WireIs(m, n, wire'[m][n], SentTo(m, n), GotFrom(n, m))
  BY DEF IInv
<1>3. \A m \in Nodes \ {n} :
                /\ WireIs(n, m, wire'[n][m], SentBy(n, m, call[n], at[n], Number(sent[n], blocked[n])), GotFrom(m, n))
                /\ WireIs(m, n, wire'[m][n], SentTo(m, n), GotBy(n, m, call[n], at[n], Len(inbox[n])))
  BY <1>2 DEF SentTo, GotFrom
<1> QED BY <1>1, <1>3, GoesKeeps

\* MPI_Send puts the next message on the wire.
LEMMA SendKeeps ==
    ASSUME IInv, NEW n \in Nodes, NEW buffered \in BOOLEAN, MPI_Send(n, buffered)
    PROVE  IInv'
<1> DEFINE c == call[n]
           a == at[n]
           m == Peer(n)
           x == sent[n]
<1>1. /\ Doing(n, "send") /\ ~blocked[n] /\ inbox' = inbox /\ barrier' = barrier /\ gathered' = gathered
  BY DEF MPI_Send
<1>2. /\ c \in 1 .. Calls /\ a \in 1 .. Size(n, Kind[c]) /\ ~Done(n) /\ x \in Nat
      /\ m = Operation(n, c, a).peer /\ What(n) = Operation(n, c, a).what
      /\ Operation(n, c, a).do = "send"
      /\ SendingIs(n, c, a, x, blocked[n]) /\ InboxIs(n, c, a, inbox[n])
      /\ NodeIs(n, c, a, x, blocked[n], inbox[n], held[n], barrier[n], results[n])
  BY <1>1, NodeNow
<1>3. /\ m \in Nodes \ {n} /\ x < Count(m, What(n)) /\ Count(m, What(n)) \in Nat
      /\ \A i \in 1 .. Count(m, What(n)) : Carried(n, m, c, What(n), i, Messages(n)[i])
  BY <1>1, TransferMessages
<1>4. PICK part : part = Part(n, c, a, x + 1)
  OBVIOUS
<1>5. part = [call |-> c, what |-> What(n), number |-> x + 1]
  BY <1>2, <1>4 DEF Part
<1>6. part.call = c /\ part.what = What(n) /\ part.number = x + 1
  BY <1>5
<1>7. /\ Valid(m, part) /\ Index(m, part) = SentBy(n, m, c, a, x) + 1
      /\ SentBy(n, m, c, a, x + 1) = SentBy(n, m, c, a, x) + 1
  BY <1>2, <1>3, <1>4, PartSent
<1>8. PICK data : data = Messages(n)[x + 1]
  OBVIOUS
<1>9. Carried(n, m, part.call, part.what, part.number, data)
  <2>1. x + 1 \in 1 .. Count(m, What(n))
    BY <1>2, <1>3
  <2> QED BY <1>3, <1>6, <1>8, <2>1
<1>10. PICK message : message = [part |-> part, data |-> data]
  OBVIOUS
<1>11. wire' = [wire EXCEPT ![n][m] = Append(wire[n][m], message)]
  BY <1>5, <1>8, <1>10 DEF MPI_Send
<1>12. wire \in [Nodes -> [Nodes -> Seq(Message)]]
  BY DEF IInv, Shape
<1>13. /\ wire'[n][m] = Append(wire[n][m], message)
       /\ \A p, q \in Nodes : p # n \/ q # m => wire'[p][q] = wire[p][q]
  BY <1>3, <1>11, <1>12
<1>14. Number(x, blocked[n]) = x /\ Number(x, TRUE) = x + 1
  BY <1>1, <1>2, NumberIs
<1>15. /\ SentTo(n, m) = SentBy(n, m, c, a, x) /\ GotFrom(m, n) \in Nat
       /\ WireIs(n, m, wire[n][m], SentTo(n, m), GotFrom(m, n))
  <2>1. SentTo(n, m) = SentBy(n, m, c, a, x)
    BY <1>14 DEF SentTo
  <2>2. GotFrom(m, n) \in Nat
    BY <1>3, NodeNow, GotType DEF GotFrom
  <2> QED BY <1>3, <2>1, <2>2 DEF IInv
<1>16. WireIs(n, m, wire'[n][m], SentBy(n, m, c, a, x + 1), GotFrom(m, n))
  <2>1. WireIs(n, m, Append(wire[n][m], message), SentTo(n, m) + 1, GotFrom(m, n))
    BY <1>7, <1>9, <1>10, <1>15, WireAppend
  <2> QED BY <1>7, <1>13, <1>15, <2>1
<1>17. message \in Message
  BY <1>7, <1>9, <1>10 DEF Message, Valid, Carried
<1>18. wire' \in [Nodes -> [Nodes -> Seq(Message)]]
  BY <1>3, <1>11, <1>12, <1>17
<1>19. Len(inbox[n]) = 0
  BY <1>2 DEF InboxIs
<1>20. ASSUME NEW q \in Nodes \ {n}
       PROVE  /\ WireIs(n, q, wire'[n][q], SentBy(n, q, c, a, x + 1), GotFrom(q, n))
              /\ WireIs(q, n, wire'[q][n], SentTo(q, n), GotBy(n, q, c, a, 0))
  <2>1. WireIs(n, q, wire'[n][q], SentBy(n, q, c, a, x + 1), GotFrom(q, n))
    <3>1. CASE q = m
      BY <1>16, <3>1
    <3>2. CASE q # m
      <4>1. WireIs(n, q, wire[n][q], SentTo(n, q), GotFrom(q, n)) /\ wire'[n][q] = wire[n][q]
        BY <1>13, <3>2 DEF IInv
      <4>2. SentTo(n, q) = SentBy(n, q, c, a, x + 1)
        BY <1>2, <3>2, StreamStays DEF SentTo
      <4> QED BY <4>1, <4>2
    <3> QED BY <3>1, <3>2
  <2>2. WireIs(q, n, wire[q][n], SentTo(q, n), GotFrom(n, q)) /\ wire'[q][n] = wire[q][n]
    BY <1>13 DEF IInv
  <2>3. GotFrom(n, q) = GotBy(n, q, c, a, 0)
    BY <1>19 DEF GotFrom
  <2> QED BY <2>1, <2>2, <2>3
<1>21. Goes(n, x + 1, 0, gathered)
  <2>1. CASE buffered
    <3>1. FinishSend(n, x + 1) /\ blocked' = blocked
      BY <2>1 DEF MPI_Send
    <3>2. blocked' = [blocked EXCEPT ![n] = FALSE]
      BY <1>1, <3>1 DEF IInv, Shape
    <3> QED BY <1>1, <3>1, <3>2, FinishSendIs
  <2>2. CASE ~buffered
    <3>1. /\ blocked' = [blocked EXCEPT ![n] = TRUE]
          /\ call' = call /\ at' = at /\ sent' = sent /\ held' = held /\ results' = results
      BY <2>2 DEF MPI_Send
    <3>2. PICK b : b = TRUE
      OBVIOUS
    <3>3. Moves(n, c, a, x, b, inbox[n], held[n], barrier[n], results[n])
      BY <1>1, <3>1, <3>2 DEF IInv, Shape, Moves
    <3>4. SendingIs(n, c, a, x, b)
      BY <1>2, <3>2, CallsType DEF SendingIs
    <3>5. NodeIs(n, c, a, x, b, inbox[n], held[n], barrier[n], results[n])
      BY <1>2, <3>4 DEF NodeIs
    <3>6. n = 0 => GatheredIs(c, a, gathered)
      BY DEF IInv
    <3>7. Number(x, b) = x + 1
      BY <1>14, <3>2
    <3> QED BY <1>19, <3>3, <3>5, <3>6, <3>7, GoesStays
  <2> QED BY <2>1, <2>2
<1>22. gathered' \in Seq(Maps)
  BY <1>1 DEF IInv, Shape
<1>23. \A p \in Nodes \ {n}, q \in Nodes \ {n} : wire'[p][q] = wire[p][q]
  BY <1>13
<1> QED BY <1>1, <1>18, <1>20, <1>21, <1>22, <1>23, GoesKeeps

\* MPI_Send returns when the message has been received.
LEMMA SendReturnsKeeps ==
    ASSUME IInv, NEW n \in Nodes, MPI_SendReturns(n)
    PROVE  IInv'
<1> DEFINE c == call[n]
           a == at[n]
           x == sent[n]
<1>1. /\ blocked[n] /\ blocked' = [blocked EXCEPT ![n] = FALSE] /\ FinishSend(n, x + 1)
      /\ inbox' = inbox /\ wire' = wire /\ barrier' = barrier /\ gathered' = gathered
  BY DEF MPI_SendReturns
<1>2. Doing(n, "send") /\ x \in Nat
  <2>1. /\ SendingIs(n, c, a, x, blocked[n]) /\ x \in Nat /\ c \in Nat
        /\ Doing(n, "send") <=> ~Done(n) /\ Operation(n, c, a).do = "send"
        /\ Done(n) <=> c > Calls
    BY NodeNow
  <2>2. c <= Calls /\ Operation(n, c, a).do = "send"
    BY <1>1, <2>1 DEF SendingIs
  <2>3. ~Done(n)
    BY <2>1, <2>2, CallsType
  <2> QED BY <2>1, <2>2, <2>3
<1>3. Goes(n, x + 1, 0, gathered)
  BY <1>1, <1>2, FinishSendIs
<1>4. Number(x, blocked[n]) = x + 1
  BY <1>1 DEF Number
<1>5. Len(inbox[n]) = 0
  <2>1. InboxIs(n, c, a, inbox[n]) /\ Operation(n, c, a).do = "send"
    BY <1>2, NodeNow
  <2> QED BY <2>1 DEF InboxIs
<1>6. gathered' \in Seq(Maps)
  BY <1>1 DEF IInv, Shape
<1> QED BY <1>1, <1>3, <1>4, <1>5, <1>6, QuietKeeps

-----------------------------------------------------------------------------
(* Receiving.                                                              *)

\* The message at the head of the wire is the one that the receiver expects.
LEMMA HeadIs ==
    ASSUME IInv, NEW n \in Nodes, Doing(n, "receive"), wire[Peer(n)][n] # <<>>
    PROVE  LET h == Head(wire[Peer(n)][n])
               x == Len(inbox[n])
               box == Append(inbox[n], h.data)
           IN  /\ Peer(n) \in Nodes \ {n} /\ h \in Message /\ h.data \in Data
               /\ h.part = [call |-> call[n], what |-> What(n), number |-> x + 1]
               /\ Carried(Peer(n), n, call[n], What(n), x + 1, h.data)
               /\ box \in Seq(Data) /\ Len(box) = x + 1
               /\ Arrived(n, Peer(n), call[n], What(n), box, x + 1)
               /\ x + 1 \in 1 .. Count(n, What(n)) /\ Expected(n, box) = Count(n, What(n))
               /\ Arrived(n, Peer(n), call[n], What(n), inbox[n], x) /\ inbox[n] \in Seq(Data)
               /\ Tail(wire[Peer(n)][n]) \in Seq(Message)
               /\ WireIs(Peer(n), n, Tail(wire[Peer(n)][n]), SentTo(Peer(n), n),
                         GotBy(n, Peer(n), call[n], at[n], x + 1))
<1> DEFINE c == call[n]
           a == at[n]
           m == Peer(n)
           w == wire[m][n]
           x == Len(inbox[n])
           h == Head(w)
           box == Append(inbox[n], h.data)
<1>1. /\ c \in 1 .. Calls /\ a \in 1 .. Size(n, Kind[c]) /\ ~Done(n) /\ x \in Nat
      /\ m = Operation(n, c, a).peer /\ What(n) = Operation(n, c, a).what
      /\ Operation(n, c, a).do = "receive" /\ InboxIs(n, c, a, inbox[n]) /\ c <= Calls
  BY NodeNow, CallsType
<1>2. m \in Nodes \ {n} /\ What(n) \in {"shuffle", "result"}
  BY <1>1, ReceiveIs
<1>3. /\ inbox[n] \in Seq(Data) /\ x < Count(n, What(n)) /\ Arrived(n, m, c, What(n), inbox[n], x)
      /\ Count(n, What(n)) \in Nat
  BY <1>1, CountType DEF InboxIs
<1>4. PICK part : part = Part(n, c, a, x + 1)
  OBVIOUS
<1>5. part = [call |-> c, what |-> What(n), number |-> x + 1]
  BY <1>1, <1>4 DEF Part
<1>6. /\ Valid(n, part) /\ Index(n, part) = GotBy(n, m, c, a, x) + 1
      /\ GotBy(n, m, c, a, x + 1) = GotBy(n, m, c, a, x) + 1
  BY <1>1, <1>2, <1>3, <1>4, PartGot
<1>7. WireIs(m, n, w, SentTo(m, n), GotFrom(n, m)) /\ GotFrom(n, m) = GotBy(n, m, c, a, x)
  BY <1>2 DEF IInv, GotFrom
<1>8. GotFrom(n, m) \in Nat
  BY <1>1, <1>2, GotType DEF GotFrom
<1>9. w # <<>>
  OBVIOUS
<1>10. /\ WireIs(m, n, Tail(w), SentTo(m, n), GotFrom(n, m) + 1)
       /\ h \in Message /\ Valid(n, h.part) /\ Index(n, h.part) = GotFrom(n, m) + 1
       /\ Carried(m, n, h.part.call, h.part.what, h.part.number, h.data)
  BY <1>7, <1>8, <1>9, WireTail
<1>11. h.part = part
  BY <1>6, <1>7, <1>10, IndexTells
<1>12. part.call = c /\ part.what = What(n) /\ part.number = x + 1
  BY <1>5
<1>13. Carried(m, n, c, What(n), x + 1, h.data)
  BY <1>10, <1>11, <1>12
<1>14. h.data \in Data
  BY <1>13 DEF Carried
<1>15. PICK v : v = box
  OBVIOUS
<1>16. v \in Seq(Data) /\ Len(v) = x + 1 /\ v[x + 1] = h.data /\ \A i \in 1 .. x : v[i] = inbox[n][i]
  BY <1>3, <1>14, <1>15
<1>17. Arrived(n, m, c, What(n), v, x + 1)
  <2>1. ASSUME NEW i \in 1 .. x + 1 PROVE Carried(m, n, c, What(n), i, v[i])
    <3>1. CASE i = x + 1
      BY <1>13, <1>16, <3>1
    <3>2. CASE i # x + 1
      <4>1. i \in 1 .. x
        BY <1>1, <3>2
      <4> QED BY <1>3, <1>16, <4>1 DEF Arrived
    <3> QED BY <3>1, <3>2
  <2> QED BY <2>1 DEF Arrived
<1>18. Expected(n, v) = Count(n, What(n))
  <2>1. 1 \in 1 .. x + 1
    BY <1>1
  <2>2. Arrived(n, m, c, What(n), v, 1)
    <3>1. \A i \in 1 .. 1 : i \in 1 .. x + 1
      BY <2>1
    <3> QED BY <1>17, <3>1 DEF Arrived
  <2> QED BY <1>1, <1>2, <2>2, ExpectedIs
<1>19. x + 1 \in 1 .. Count(n, What(n))
  BY <1>1, <1>3
<1>20. Tail(w) \in Seq(Message)
  BY <1>10, WireType
<1>21. GotBy(n, m, c, a, x + 1) = GotFrom(n, m) + 1
  BY <1>6, <1>7
<1> QED BY <1>2, <1>3, <1>5, <1>10, <1>11, <1>13, <1>14, <1>15, <1>16, <1>17, <1>18, <1>19, <1>20, <1>21

\* GlobalH: one more node is heard.
LEMMA ShuffleMerged ==
    ASSUME NEW n \in Nodes, NEW c \in 1 .. Calls, NEW a \in 1 .. Size(n, Kind[c]), NEW map,
           HeldIs(n, c, a, map), NEW m \in Nodes \ {n}, Kind[c] = "GlobalH", a < LocalAt(Kind[c]),
           a = ReceiveAt(n, m), NEW new \in Maps, DOMAIN new = Home(n, "GlobalH"),
           \A k \in Home(n, "GlobalH") : new[k] = Collected(m, c)[k]
    PROVE  HeldIs(n, c, a + 1, MergeMaps(map, new)) /\ a < Size(n, Kind[c])
<1>1. Calls \in Nat /\ c <= Calls /\ c \in Nat /\ Kind[c] \in Kinds /\ LocalAt(Kind[c]) \in Nat
      /\ Size(n, Kind[c]) \in Nat /\ Size(n, Kind[c]) >= LocalAt(Kind[c])
  BY CallsType, LocalAtIs, SizeIs
<1>2. a <= LocalAt(Kind[c]) /\ a + 1 <= LocalAt(Kind[c]) /\ ~(a + 1 > LocalAt(Kind[c])) /\ a < Size(n, Kind[c])
  BY <1>1
<1>3. PICK b \in Nat : b = a + 1
  BY <1>1
<1>4. b <= LocalAt(Kind[c]) /\ ~(b > LocalAt(Kind[c]))
  BY <1>2, <1>3
<1>5. /\ map \in Maps /\ DOMAIN map = Keys
      /\ \A k \in Keys : IF Distributer[k] = n THEN Carries(map[k], Contributions(Heard(n, a), c, k))
                         ELSE map[k] = Collected(n, c)[k]
  BY <1>1, <1>2 DEF HeldIs
<1>6. PICK merged : merged = MergeMaps(map, new)
  OBVIOUS
<1>7. Home(n, "GlobalH") \in SUBSET Keys
  BY HomeType
<1>8. /\ merged \in Maps /\ DOMAIN merged = Keys
      /\ \A k \in Keys : merged[k] = map[k] \o Values(new, k)
  <2>1. merged \in Maps /\ DOMAIN merged = DOMAIN map \cup DOMAIN new
        /\ \A k : Values(merged, k) = Values(map, k) \o Values(new, k)
    BY <1>5, <1>6, MergeType
  <2>2. DOMAIN merged = Keys
    BY <1>5, <1>7, <2>1
  <2>3. \A k \in Keys : Values(merged, k) = merged[k] /\ Values(map, k) = map[k]
    BY <1>5, <2>2 DEF Values
  <2> QED BY <2>1, <2>2, <2>3
<1>9. \A p \in Nodes \ {n} : ReceiveAt(n, p) \in Nat /\ (a = ReceiveAt(n, p) => p = m)
  <2>1. ASSUME NEW p \in Nodes \ {n} PROVE ReceiveAt(n, p) \in Nat /\ (a = ReceiveAt(n, p) => p = m)
    <3>1. ReceiveAt(n, p) \in 1 .. 2 * (mpi_nodes - 1)
      BY TurnsApart
    <3>2. ReceiveAt(n, p) = ReceiveAt(n, m) => p = m
      BY TurnsApart
    <3> QED BY <1>1, <3>1, <3>2
  <2> QED BY <2>1
<1>10. \A p \in Nodes \ {n} : b > ReceiveAt(n, p) <=> a > ReceiveAt(n, p) \/ p = m
  <2>1. ASSUME NEW p \in Nodes \ {n} PROVE b > ReceiveAt(n, p) <=> a > ReceiveAt(n, p) \/ p = m
    <3>1. CASE p = m
      BY <1>1, <1>3, <3>1
    <3>2. CASE p # m
      <4>1. ReceiveAt(n, p) \in Nat /\ a # ReceiveAt(n, p) /\ a \in Nat
        BY <1>1, <1>9, <3>2
      <4> QED BY <1>3, <3>2, <4>1
    <3> QED BY <3>1, <3>2
  <2> QED BY <2>1
<1>11. Heard(n, b) = Heard(n, a) \cup {m} /\ Heard(n, a) \cap {m} = {}
  <2>1. ~(a > ReceiveAt(n, m))
    BY <1>1
  <2> QED BY <1>10, <2>1 DEF Heard
<1>12. ASSUME NEW k \in Keys
       PROVE  IF Distributer[k] = n THEN Carries(merged[k], Contributions(Heard(n, b), c, k))
              ELSE merged[k] = Collected(n, c)[k]
  <2>1. CASE Distributer[k] = n
    <3>1. k \in Home(n, "GlobalH")
      BY <2>1 DEF Home
    <3>2. Values(new, k) = Collected(m, c)[k]
      BY <3>1 DEF Values
    <3>3. Carries(Collected(m, c)[k], Contributions({m}, c, k))
      BY <1>1, CarriesCollected
    <3>4. Carries(map[k], Contributions(Heard(n, a), c, k))
      BY <1>5, <2>1
    <3>5. /\ Contributions(Heard(n, a) \cup {m}, c, k)
                = Contributions(Heard(n, a), c, k) \cup Contributions({m}, c, k)
          /\ Contributions(Heard(n, a), c, k) \cap Contributions({m}, c, k) = {}
      BY <1>11, ContributionsUnion
    <3>6. Carries(map[k] \o Collected(m, c)[k], Contributions(Heard(n, a) \cup {m}, c, k))
      BY <3>3, <3>4, <3>5, CarriesConcat
    <3> QED BY <1>8, <1>11, <2>1, <3>2, <3>6
  <2>2. CASE Distributer[k] # n
    <3>1. Values(new, k) = <<>>
      BY <2>2 DEF Values, Home
    <3>2. map[k] = Collected(n, c)[k]
      BY <1>5, <2>2
    <3>3. Collected(n, c)[k] \in Seq(Seq(Contribution))
      BY <1>1, CarriesCollected DEF Carries
    <3>4. map[k] \o <<>> = map[k]
      BY <3>2, <3>3, ConcatEmptySeq
    <3> QED BY <1>8, <2>2, <3>1, <3>2, <3>4
  <2> QED BY <2>1, <2>2
<1>13. HeldIs(n, c, b, merged)
  BY <1>1, <1>4, <1>8, <1>12 DEF HeldIs
<1> QED BY <1>2, <1>3, <1>6, <1>13

\* Rank 0 has gathered one result more.
LEMMA GatheredMore ==
    ASSUME NEW c \in 1 .. Calls, NEW a \in 1 .. Size(0, Kind[c]), NEW g, GatheredIs(c, a, g),
           NEW m \in Nodes \ {0}, a = LocalAt(Kind[c]) + m, NEW map,
           Answer(map, Home(m, Kind[c]), From(m, Kind[c]), c)
    PROVE  GatheredIs(c, a + 1, Append(g, map))
<1>1. Calls \in Nat /\ c <= Calls /\ Kind[c] \in Kinds /\ LocalAt(Kind[c]) \in Nat /\ m \in Nat /\ m > 0
  BY CallsType, LocalAtIs DEF Nodes
<1>2. PICK L : L = LocalAt(Kind[c])
  OBVIOUS
<1>3. L \in Nat /\ a = L + m
  BY <1>1, <1>2
<1>4. PICK b : b = a + 1
  OBVIOUS
<1>5. b \in Nat /\ a \in Nat /\ b > L /\ a > L /\ a - L - 1 = m - 1 /\ b - L - 1 = m
  BY <1>1, <1>3, <1>4
<1>6. /\ g \in Seq(Maps) /\ Len(g) = m - 1
      /\ \A i \in 1 .. Len(g) : Answer(g[i], Home(i, Kind[c]), From(i, Kind[c]), c)
  <2>1. g \in Seq(Maps) /\ Len(g) = a - L - 1
        /\ \A i \in 1 .. Len(g) : Answer(g[i], Home(i, Kind[c]), From(i, Kind[c]), c)
    BY <1>1, <1>2, <1>5 DEF GatheredIs
  <2> QED BY <1>5, <2>1
<1>7. map \in Maps
  BY HomeType, CoversType DEF Answer
<1>8. PICK v : v = Append(g, map)
  OBVIOUS
<1>9. v \in Seq(Maps) /\ Len(v) = m /\ v[m] = map /\ \A i \in 1 .. m - 1 : v[i] = g[i]
  BY <1>1, <1>6, <1>7, <1>8
<1>10. ASSUME NEW i \in 1 .. Len(v) PROVE Answer(v[i], Home(i, Kind[c]), From(i, Kind[c]), c)
  <2>1. CASE i = m
    BY <1>9, <2>1
  <2>2. CASE i # m
    <3>1. i \in 1 .. m - 1
      BY <1>1, <1>9, <2>2
    <3> QED BY <1>6, <1>9, <3>1
  <2> QED BY <2>1, <2>2
<1>11. Len(v) = IF c <= Calls /\ b > LocalAt(Kind[c]) THEN b - LocalAt(Kind[c]) - 1 ELSE 0
  BY <1>1, <1>2, <1>5, <1>9
<1>12. GatheredIs(c, b, v)
  BY <1>9, <1>10, <1>11 DEF GatheredIs
<1> QED BY <1>4, <1>8, <1>12

\* MPI_Recv takes the next message from the wire.
LEMMA RecvKeeps ==
    ASSUME IInv, NEW n \in Nodes, MPI_Recv(n)
    PROVE  IInv'
<1> DEFINE c == call[n]
           a == at[n]
           m == Peer(n)
           w == wire[m][n]
           x == Len(inbox[n])
<1>1. PICK box : box = Append(inbox[n], Head(w).data)
  OBVIOUS
<1>2. PICK ends \in BOOLEAN : ends <=> Len(box) = Expected(n, box)
  OBVIOUS
<1>3. /\ Doing(n, "receive") /\ w # <<>>
      /\ wire' = [wire EXCEPT ![m][n] = Tail(w)]
      /\ inbox' = [inbox EXCEPT ![n] = IF ends THEN <<>> ELSE box]
      /\ ~ends => UNCHANGED <<call, at, held, gathered, results>>
      /\ ends /\ What(n) = "shuffle" => Advance(n, MergeMaps(held[n], Unpacked(n, box))) /\ gathered' = gathered
      /\ ends /\ What(n) # "shuffle" => Advance(n, held[n]) /\ gathered' = Append(gathered, Unpacked(n, box))
      /\ sent' = sent /\ blocked' = blocked /\ barrier' = barrier
  BY <1>1, <1>2 DEF MPI_Recv
<1>4. /\ c \in 1 .. Calls /\ a \in 1 .. Size(n, Kind[c]) /\ ~Done(n) /\ x \in Nat
      /\ m = Operation(n, c, a).peer /\ What(n) = Operation(n, c, a).what
      /\ Operation(n, c, a).do = "receive" /\ c <= Calls /\ c \in Nat
      /\ SendingIs(n, c, a, sent[n], blocked[n]) /\ HeldIs(n, c, a, held[n])
      /\ NodeIs(n, c, a, sent[n], blocked[n], inbox[n], held[n], barrier[n], results[n])
      /\ ~Doing(n, "send")
  BY <1>3, NodeNow, CallsType
<1>5. /\ m \in Nodes \ {n}
      /\ \/ What(n) = "shuffle" /\ Kind[c] = "GlobalH" /\ a < LocalAt(Kind[c]) /\ a = ReceiveAt(n, m)
         \/ What(n) = "result" /\ n = 0 /\ a = LocalAt(Kind[c]) + m
      /\ mpi_nodes > 1
  BY <1>4, ReceiveIs
<1>6. /\ box \in Seq(Data) /\ Len(box) = x + 1
      /\ Arrived(n, m, c, What(n), box, x + 1)
      /\ x + 1 \in 1 .. Count(n, What(n)) /\ Expected(n, box) = Count(n, What(n))
      /\ Tail(w) \in Seq(Message)
      /\ WireIs(m, n, Tail(w), SentTo(m, n), GotBy(n, m, c, a, x + 1))
  BY <1>1, <1>3, HeadIs
<1>7. sent[n] = 0 /\ blocked[n] = FALSE
  BY <1>4 DEF SendingIs
<1>8. Number(sent[n], blocked[n]) = 0
  BY <1>7, NumberIs
<1>9. wire \in [Nodes -> [Nodes -> Seq(Message)]] /\ gathered \in Seq(Maps)
  BY DEF IInv, Shape
<1>10. /\ wire' \in [Nodes -> [Nodes -> Seq(Message)]] /\ wire'[m][n] = Tail(w)
       /\ \A p, q \in Nodes : p # m \/ q # n => wire'[p][q] = wire[p][q]
  BY <1>3, <1>5, <1>6, <1>9
<1>11. ASSUME NEW q \in Nodes \ {n}
       PROVE  /\ WireIs(n, q, wire'[n][q], SentBy(n, q, c, a, 0), GotFrom(q, n))
              /\ WireIs(q, n, wire'[q][n], SentTo(q, n), GotBy(n, q, c, a, x + 1))
  <2>1. WireIs(n, q, wire[n][q], SentTo(n, q), GotFrom(q, n)) /\ wire'[n][q] = wire[n][q]
    BY <1>10 DEF IInv
  <2>2. SentTo(n, q) = SentBy(n, q, c, a, 0)
    BY <1>8 DEF SentTo
  <2>3. WireIs(q, n, wire'[q][n], SentTo(q, n), GotBy(n, q, c, a, x + 1))
    <3>1. CASE q = m
      BY <1>6, <1>10, <3>1
    <3>2. CASE q # m
      <4>1. WireIs(q, n, wire[q][n], SentTo(q, n), GotFrom(n, q)) /\ wire'[q][n] = wire[q][n]
        BY <1>10, <3>2 DEF IInv
      <4>2. GotFrom(n, q) = GotBy(n, q, c, a, x + 1)
        BY <1>4, <3>2, GotStays DEF GotFrom
      <4> QED BY <4>1, <4>2
    <3> QED BY <3>1, <3>2
  <2> QED BY <2>1, <2>2, <2>3
<1>12. n = 0 => GatheredIs(c, a, gathered)
  BY DEF IInv
<1>13. Calls \in Nat /\ Kind[c] \in Kinds /\ LocalAt(Kind[c]) \in Nat /\ Size(n, Kind[c]) \in Nat /\ a \in Nat
  BY <1>4, CallsType, LocalAtIs, SizeIs
<1>14. Goes(n, 0, x + 1, gathered') /\ gathered' \in Seq(Maps) /\ (n # 0 => gathered' = gathered)
  <2>1. CASE ~ends
    <3>1. x + 1 < Count(n, What(n))
      <4>1. Count(n, What(n)) \in Nat
        BY CountType
      <4> QED BY <1>2, <1>4, <1>6, <2>1, <4>1
    <3>2. InboxIs(n, c, a, box)
      BY <1>4, <1>6, <3>1 DEF InboxIs
    <3>3. NodeIs(n, c, a, sent[n], blocked[n], box, held[n], barrier[n], results[n])
      BY <1>4, <3>2 DEF NodeIs
    <3>4. Moves(n, c, a, sent[n], blocked[n], box, held[n], barrier[n], results[n])
      BY <1>3, <2>1 DEF IInv, Shape, Moves
    <3>5. gathered' = gathered
      BY <1>3, <2>1
    <3>6. /\ \A q \in Nodes \ {n} :
              /\ SentBy(n, q, c, a, Number(sent[n], blocked[n])) = SentBy(n, q, c, a, 0)
              /\ GotBy(n, q, c, a, Len(box)) = GotBy(n, q, c, a, x + 1)
      BY <1>6, <1>8
    <3>7. Goes(n, 0, x + 1, gathered)
      BY <1>12, <3>3, <3>4, <3>6, GoesStays
    <3> QED BY <1>9, <3>5, <3>7
  <2>2. CASE ends
    <3>1. x + 1 = Count(n, What(n))
      BY <1>2, <1>6, <2>2
    <3>2. /\ sent' = [sent EXCEPT ![n] = 0] /\ blocked' = [blocked EXCEPT ![n] = FALSE]
          /\ inbox' = [inbox EXCEPT ![n] = <<>>]
      BY <1>3, <1>7, <2>2 DEF IInv, Shape
    <3>3. Operation(n, c, a).do # "barrier"
      BY <1>4
    <3>4. CASE What(n) = "shuffle"
      <4>1. Advance(n, MergeMaps(held[n], Unpacked(n, box))) /\ gathered' = gathered
        BY <1>3, <2>2, <3>4
      <4>2. /\ Unpacked(n, box) \in Maps /\ DOMAIN Unpacked(n, box) = Home(n, "GlobalH")
            /\ \A k \in Home(n, "GlobalH") : Unpacked(n, box)[k] = Collected(m, c)[k]
        BY <1>4, <1>5, <1>6, <3>1, <3>4, ShuffleUnpacked
      <4>3. PICK new : new = Unpacked(n, box)
        OBVIOUS
      <4>4. HeldIs(n, c, a + 1, MergeMaps(held[n], new)) /\ a < Size(n, Kind[c])
        BY <1>4, <1>5, <3>4, <4>2, <4>3, ShuffleMerged
      <4>5. n = 0 => GatheredIs(NextCall(n, c, a), NextAt(n, c, a), gathered)
        BY <1>4, <1>12, <3>4, GatheredStays
      <4>6. Goes(n, 0, x + 1, gathered)
        BY <1>3, <1>4, <3>1, <3>2, <3>3, <4>1, <4>3, <4>4, <4>5, OperationEnds
      <4> QED BY <1>9, <4>1, <4>6
    <3>5. CASE What(n) = "result"
      <4>1. Advance(n, held[n]) /\ gathered' = Append(gathered, Unpacked(n, box)) /\ n = 0
            /\ a = LocalAt(Kind[c]) + m
        BY <1>3, <1>5, <2>2, <3>5
      <4>2. Answer(Unpacked(n, box), Home(m, Kind[c]), From(m, Kind[c]), c)
        <5>1. Count(n, "result") = 3
          BY CountType
        <5> QED BY <1>4, <1>5, <1>6, <3>1, <3>5, <5>1, ResultUnpacked
      <4>3. GatheredIs(c, a + 1, gathered')
        BY <1>4, <1>5, <1>12, <4>1, <4>2, GatheredMore
      <4>4. m \in Nat /\ m > 0 /\ m < mpi_nodes /\ mpi_nodes \in Nat
        BY <1>5, <4>1, ExchangeAssumption DEF Nodes
      <4>5. a < Size(n, Kind[c]) /\ a > LocalAt(Kind[c]) /\ a + 1 > LocalAt(Kind[c])
        <5>1. Size(n, Kind[c]) = LocalAt(Kind[c]) + mpi_nodes
          BY <1>5, <4>1 DEF Size
        <5> QED BY <1>13, <4>1, <4>4, <5>1
      <4>6. HeldIs(n, c, a + 1, held[n])
        <5>1. held[n] \in Maps /\ Answer(held[n], Home(n, Kind[c]), From(n, Kind[c]), c)
          BY <1>4, <4>5 DEF HeldIs
        <5>2. PICK b \in Nat : b = a + 1
          BY <1>13
        <5>3. b > LocalAt(Kind[c]) /\ ~(b <= LocalAt(Kind[c]))
          BY <1>13, <4>5, <5>2
        <5>4. HeldIs(n, c, b, held[n])
          BY <5>1, <5>3 DEF HeldIs
        <5> QED BY <5>2, <5>4
      <4>7. NextCall(n, c, a) = c /\ NextAt(n, c, a) = a + 1
        BY <1>4, <4>5, NextIs
      <4>8. n = 0 => GatheredIs(NextCall(n, c, a), NextAt(n, c, a), gathered')
        BY <4>3, <4>7
      <4>9. Goes(n, 0, x + 1, gathered')
        BY <1>3, <1>4, <3>1, <3>2, <3>3, <4>1, <4>5, <4>6, <4>8, OperationEnds
      <4>10. gathered' \in Seq(Maps)
        BY <4>3 DEF GatheredIs
      <4> QED BY <4>1, <4>9, <4>10
    <3> QED BY <1>5, <3>4, <3>5
  <2> QED BY <2>1, <2>2
<1>15. \A p \in Nodes \ {n}, q \in Nodes \ {n} : wire'[p][q] = wire[p][q]
  BY <1>10
<1> QED BY <1>10, <1>11, <1>14, <1>15, GoesKeeps

-----------------------------------------------------------------------------
(* The steps of a node by itself.                                          *)

\* A node enters the barrier.
LEMMA BarrierKeeps ==
    ASSUME IInv, NEW n \in Nodes, MPI_Barrier(n)
    PROVE  IInv'
<1> DEFINE c == call[n]
           a == at[n]
<1>1. /\ barrier' = [barrier EXCEPT ![n] = c]
      /\ UNCHANGED <<call, at, sent, blocked, inbox, wire, held, gathered, results>>
      /\ Doing(n, "barrier")
  BY DEF MPI_Barrier
<1>2. /\ c \in 1 .. Calls
      /\ NodeIs(n, c, a, sent[n], blocked[n], inbox[n], held[n], barrier[n], results[n])
  BY <1>1, NodeNow
<1>3. Moves(n, c, a, sent[n], blocked[n], inbox[n], held[n], c, results[n])
  BY <1>1 DEF IInv, Shape, Moves
<1>4. BarrierIs(n, c, a, c)
  BY <1>2, CallsType DEF BarrierIs
<1>5. NodeIs(n, c, a, sent[n], blocked[n], inbox[n], held[n], c, results[n])
  BY <1>2, <1>4 DEF NodeIs
<1>6. gathered \in Seq(Maps) /\ (n = 0 => GatheredIs(c, a, gathered))
  BY DEF IInv, Shape
<1>7. Goes(n, Number(sent[n], blocked[n]), Len(inbox[n]), gathered)
  BY <1>3, <1>5, <1>6, GoesStays
<1> QED BY <1>1, <1>6, <1>7, QuietKeeps

\* A step of a node by itself that ends its operation.
LEMMA LocalStep ==
    ASSUME IInv, NEW n \in Nodes, ~Done(n), ~Doing(n, "send"), ~Doing(n, "receive"), NEW map, Advance(n, map),
           at[n] < Size(n, Kind[call[n]]) => HeldIs(n, call[n], at[n] + 1, map),
           ~(at[n] < Size(n, Kind[call[n]])) =>
                /\ map \in Maps
                /\ IF n > 0 THEN map = Empty ELSE Answer(map, Keys, Nodes, call[n]),
           Operation(n, call[n], at[n]).do = "barrier" => call[n] <= barrier[n],
           UNCHANGED <<sent, blocked, inbox, wire, barrier>>,
           gathered' \in Seq(Maps), n # 0 => gathered' = gathered,
           n = 0 => GatheredIs(NextCall(n, call[n], at[n]), NextAt(n, call[n], at[n]), gathered')
    PROVE  IInv'
<1> DEFINE c == call[n]
           a == at[n]
<1>1. /\ c \in 1 .. Calls /\ Operation(n, c, a).do # "send" /\ Operation(n, c, a).do # "receive"
      /\ SendingIs(n, c, a, sent[n], blocked[n]) /\ InboxIs(n, c, a, inbox[n])
  BY NodeNow
<1>2. sent[n] = 0 /\ blocked[n] = FALSE /\ inbox[n] = <<>>
  BY <1>1 DEF SendingIs, InboxIs
<1>3. /\ sent' = [sent EXCEPT ![n] = 0] /\ blocked' = [blocked EXCEPT ![n] = FALSE]
      /\ inbox' = [inbox EXCEPT ![n] = <<>>] /\ barrier' = barrier
  BY <1>2 DEF IInv, Shape
<1>4. PICK x, y : x = Number(sent[n], blocked[n]) /\ y = Len(inbox[n])
  OBVIOUS
<1>5. Goes(n, x, y, gathered')
  BY <1>3, OperationEnds
<1> QED BY <1>4, <1>5, QuietKeeps

\* A node leaves the barrier.
LEMMA LeaveBarrierKeeps ==
    ASSUME IInv, NEW n \in Nodes, LeaveBarrier(n)
    PROVE  IInv'
<1> DEFINE c == call[n]
           a == at[n]
<1>1. /\ Doing(n, "barrier") /\ barrier[n] >= c /\ Advance(n, held[n])
      /\ UNCHANGED <<sent, blocked, inbox, wire, barrier>> /\ gathered' = gathered
  BY DEF LeaveBarrier
<1>2. /\ c \in 1 .. Calls /\ a \in 1 .. Size(n, Kind[c]) /\ ~Done(n)
      /\ Operation(n, c, a).do = "barrier" /\ ~Doing(n, "send") /\ ~Doing(n, "receive")
      /\ HeldIs(n, c, a, held[n]) /\ BarrierIs(n, c, a, barrier[n])
  BY <1>1, NodeNow
<1>3. a < LocalAt(Kind[c])
  BY <1>2, OthersIs
<1>4. HeldIs(n, c, a + 1, held[n]) /\ a < Size(n, Kind[c])
  BY <1>2, <1>3, HeldStays
<1>5. gathered \in Seq(Maps) /\ (n = 0 => GatheredIs(c, a, gathered))
  BY DEF IInv, Shape
<1>6. n = 0 => GatheredIs(NextCall(n, c, a), NextAt(n, c, a), gathered)
  BY <1>2, <1>5, GatheredStays
<1>7. c <= barrier[n]
  BY <1>1, <1>2, CallsType DEF BarrierIs
<1> QED BY <1>1, <1>2, <1>4, <1>5, <1>6, <1>7, LocalStep

\* Before the local reduction all nodes have been heard.
LEMMA HeardAll ==
    ASSUME NEW n \in Nodes, NEW kind \in Kinds, kind = "GlobalH"
    PROVE  Heard(n, LocalAt(kind)) = Nodes
<1>1. LocalAt(kind) = 2 * (mpi_nodes - 1) + 1
  BY LocalAtIs
<1>2. \A m \in Nodes \ {n} : LocalAt(kind) > ReceiveAt(n, m)
  BY <1>1, TurnsApart, ExchangeAssumption
<1> QED BY <1>2 DEF Heard

\* The local reduction leaves one value for each key of the node.
LEMMA ReducedIs ==
    ASSUME NEW n \in Nodes, NEW c \in 1 .. Calls, HeldIs(n, c, LocalAt(Kind[c]), held[n])
    PROVE  Answer(Reduced(IF Kind[c] = "GlobalH" THEN Share(n, n) ELSE held[n]), Home(n, Kind[c]), From(n, Kind[c]), c)
<1>1. Calls \in Nat /\ c <= Calls /\ c \in Nat /\ Kind[c] \in Kinds /\ LocalAt(Kind[c]) \in Nat
  BY CallsType, LocalAtIs
<1>2. LocalAt(Kind[c]) <= LocalAt(Kind[c])
  BY <1>1
<1>3. Home(n, Kind[c]) \in SUBSET Keys
  BY HomeType
<1>4. CASE Kind[c] = "GlobalH"
  <2> DEFINE D == {k \in Keys : Distributer[k] = n}
  <2>1. /\ DOMAIN held[n] = Keys
        /\ \A k \in Keys : IF Distributer[k] = n
                           THEN Carries(held[n][k], Contributions(Heard(n, LocalAt(Kind[c])), c, k))
                           ELSE held[n][k] = Collected(n, c)[k]
    BY <1>1, <1>2, <1>4 DEF HeldIs
  <2>2. Heard(n, LocalAt(Kind[c])) = Nodes
    BY <1>1, <1>4, HeardAll
  <2>3. Share(n, n) = [k \in D |-> held[n][k]]
    BY <2>1 DEF Share
  <2>4. \A k \in D : Carries(held[n][k], Contributions(Nodes, c, k)) /\ held[n][k] \in Seq(Seq(Contribution))
    BY <2>1, <2>2 DEF Carries
  <2>5. Covers(Share(n, n), D, Nodes, c)
    BY <2>3, <2>4 DEF Covers
  <2>6. Home(n, Kind[c]) = D /\ From(n, Kind[c]) = Nodes
    BY <1>4 DEF Home, From
  <2>7. PICK map : map = Share(n, n)
    OBVIOUS
  <2>8. Answer(Reduced(map), D, Nodes, c)
    BY <2>5, <2>7, <1>3, <2>6, ReducedAnswer
  <2> QED BY <1>4, <2>6, <2>7, <2>8
<1>5. CASE Kind[c] # "GlobalH"
  <2>1. held[n] = Collected(n, c)
    BY <1>1, <1>2, <1>5 DEF HeldIs
  <2>2. Covers(held[n], Keys, {n}, c)
    BY <1>1, <2>1, CollectedType
  <2>3. Home(n, Kind[c]) = Keys /\ From(n, Kind[c]) = {n}
    BY <1>5 DEF Home, From
  <2>4. Answer(Reduced(held[n]), Keys, {n}, c)
    BY <1>3, <2>2, <2>3, ReducedAnswer
  <2> QED BY <1>5, <2>3, <2>4
<1> QED BY <1>4, <1>5

\* A node reduces what it has.
LEMMA ReduceKeeps ==
    ASSUME IInv, NEW n \in Nodes, Reduce(n)
    PROVE  IInv'
<1> DEFINE c == call[n]
           a == at[n]
           L == LocalAt(Kind[c])
<1>1. PICK map : map = Reduced(IF Kind[c] = "GlobalH" THEN Share(n, n) ELSE held[n])
  OBVIOUS
<1>2. /\ Doing(n, "reduce") /\ Advance(n, map)
      /\ UNCHANGED <<sent, blocked, inbox, wire, barrier>> /\ gathered' = gathered
  BY <1>1 DEF Reduce
<1>3. /\ c \in 1 .. Calls /\ a \in 1 .. Size(n, Kind[c]) /\ ~Done(n)
      /\ Operation(n, c, a).do = "reduce" /\ ~Doing(n, "send") /\ ~Doing(n, "receive")
      /\ HeldIs(n, c, a, held[n])
  BY <1>2, NodeNow
<1>4. a = L
  BY <1>3, OthersIs
<1>5. /\ Calls \in Nat /\ Kind[c] \in Kinds /\ L \in Nat /\ Size(n, Kind[c]) \in Nat
      /\ mpi_nodes > 1 => Size(n, Kind[c]) > L
  BY <1>3, CallsType, LocalAtIs, SizeIs
<1>6. Answer(map, Home(n, Kind[c]), From(n, Kind[c]), c)
  BY <1>1, <1>3, <1>4, ReducedIs
<1>7. map \in Maps
  BY <1>6, HomeType, CoversType DEF Answer
<1>8. ASSUME a < Size(n, Kind[c]) PROVE HeldIs(n, c, a + 1, map)
  <2>1. PICK b \in Nat : b = a + 1
    BY <1>3
  <2>2. b > L /\ ~(b <= L)
    BY <1>4, <1>5, <2>1
  <2>3. HeldIs(n, c, b, map)
    BY <1>6, <1>7, <2>2 DEF HeldIs
  <2> QED BY <2>1, <2>3
<1>9. ASSUME ~(a < Size(n, Kind[c]))
      PROVE  IF n > 0 THEN map = Empty ELSE Answer(map, Keys, Nodes, c)
  <2>1. mpi_nodes = 1
    BY <1>4, <1>5, <1>9, ExchangeAssumption
  <2>2. n = 0 /\ Nodes = {0}
    BY <2>1 DEF Nodes
  <2>3. Home(n, Kind[c]) = Keys
    <3>1. \A k \in Keys : Distributer[k] = n
      BY <2>2, ExchangeAssumption
    <3> QED BY <3>1 DEF Home
  <2>4. From(n, Kind[c]) = Nodes
    BY <2>2 DEF From
  <2> QED BY <1>6, <2>2, <2>3, <2>4
<1>10. gathered \in Seq(Maps) /\ (n = 0 => GatheredIs(c, a, gathered))
  BY DEF IInv, Shape
<1>11. n = 0 => GatheredIs(NextCall(n, c, a), NextAt(n, c, a), gathered)
  BY <1>3, <1>10, GatheredStays
<1>12. Operation(n, c, a).do # "barrier"
  BY <1>3
<1> QED BY <1>2, <1>3, <1>7, <1>8, <1>9, <1>10, <1>11, <1>12, LocalStep

\* Rank 0 returns the result of the call.
LEMMA CombineKeeps ==
    ASSUME IInv, NEW n \in Nodes, Combine(n)
    PROVE  IInv'
<1> DEFINE c == call[n]
           a == at[n]
           L == LocalAt(Kind[c])
<1>1. PICK maps : maps = <<held[n]>> \o gathered
  OBVIOUS
<1>2. /\ Doing(n, "combine") /\ Advance(n, Combined(c, maps)) /\ gathered' = <<>>
      /\ UNCHANGED <<sent, blocked, inbox, wire, barrier>>
  BY <1>1 DEF Combine
<1>3. /\ c \in 1 .. Calls /\ a \in 1 .. Size(n, Kind[c]) /\ ~Done(n)
      /\ Operation(n, c, a).do = "combine" /\ ~Doing(n, "send") /\ ~Doing(n, "receive")
      /\ HeldIs(n, c, a, held[n])
  BY <1>2, NodeNow
<1>4. mpi_nodes > 1 /\ n = 0 /\ a = L + mpi_nodes
  BY <1>3, OthersIs
<1>5. Calls \in Nat /\ c <= Calls /\ Kind[c] \in Kinds /\ L \in Nat /\ mpi_nodes \in Nat
  BY <1>3, CallsType, LocalAtIs, ExchangeAssumption
<1>6. a > L /\ a - L - 1 = mpi_nodes - 1 /\ ~(a < Size(n, Kind[c]))
  BY <1>4, <1>5 DEF Size
<1>7. held[n] \in Maps /\ Answer(held[n], Home(n, Kind[c]), From(n, Kind[c]), c)
  BY <1>3, <1>5, <1>6 DEF HeldIs
<1>8. /\ gathered \in Seq(Maps) /\ Len(gathered) = mpi_nodes - 1
      /\ \A i \in 1 .. Len(gathered) : Answer(gathered[i], Home(i, Kind[c]), From(i, Kind[c]), c)
  <2>1. GatheredIs(c, a, gathered)
    BY <1>4 DEF IInv
  <2>2. /\ gathered \in Seq(Maps) /\ Len(gathered) = a - L - 1
        /\ \A i \in 1 .. Len(gathered) : Answer(gathered[i], Home(i, Kind[c]), From(i, Kind[c]), c)
    BY <1>5, <1>6, <2>1 DEF GatheredIs
  <2> QED BY <1>6, <2>2
<1>9. PICK first : first = <<held[n]>>
  OBVIOUS
<1>10. first \in Seq(Maps) /\ Len(first) = 1 /\ first[1] = held[n]
  BY <1>7, <1>9
<1>11. /\ maps \in Seq(Maps) /\ Len(maps) = Len(first) + Len(gathered)
       /\ \A i \in 1 .. Len(first) + Len(gathered) :
            maps[i] = IF i <= Len(first) THEN first[i] ELSE gathered[i - Len(first)]
  <2>1. maps = first \o gathered
    BY <1>1, <1>9
  <2> QED BY <1>8, <1>10, <2>1, ConcatProperties
<1>12. Len(maps) = mpi_nodes
  BY <1>5, <1>8, <1>10, <1>11
<1>13. ASSUME NEW i \in 1 .. mpi_nodes
       PROVE  Answer(maps[i], Home(i - 1, Kind[c]), From(i - 1, Kind[c]), c)
  <2>1. CASE i = 1
    <3>1. maps[i] = held[n] /\ i - 1 = n
      BY <1>4, <1>5, <1>8, <1>10, <1>11, <2>1
    <3> QED BY <1>7, <3>1
  <2>2. CASE i # 1
    <3>1. PICK j \in Nat : j = i - 1
      OBVIOUS
    <3>2. j \in 1 .. Len(gathered) /\ i \in 1 .. Len(first) + Len(gathered) /\ ~(i <= Len(first)) /\ i - Len(first) = j
      BY <1>5, <1>8, <1>10, <2>2, <3>1
    <3>3. maps[i] = gathered[j]
      BY <1>11, <3>2
    <3> QED BY <1>8, <3>1, <3>2, <3>3
  <2> QED BY <2>1, <2>2
<1>14. Answer(Combined(c, maps), Keys, Nodes, c)
  BY <1>5, <1>11, <1>12, <1>13, CombinedAnswer
<1>15. PICK map : map = Combined(c, maps)
  OBVIOUS
<1>16. Advance(n, map) /\ Answer(map, Keys, Nodes, c)
  BY <1>2, <1>14, <1>15
<1>17. map \in Maps /\ (IF n > 0 THEN map = Empty ELSE Answer(map, Keys, Nodes, c))
  BY <1>4, <1>16, CoversType DEF Answer
<1>18. gathered' \in Seq(Maps)
  BY <1>2
<1>19. GatheredIs(NextCall(n, c, a), NextAt(n, c, a), gathered')
  <2>1. PICK nc : nc = c + 1
    OBVIOUS
  <2>2. NextCall(n, c, a) = nc /\ NextAt(n, c, a) = 1
    BY <1>3, <1>6, <2>1, NextIs
  <2>3. nc <= Calls => ~(1 > LocalAt(Kind[nc]))
    <3>1. SUFFICES ASSUME nc <= Calls PROVE ~(1 > LocalAt(Kind[nc]))
      OBVIOUS
    <3>2. nc \in 1 .. Calls
      BY <1>3, <1>5, <2>1, <3>1
    <3> QED BY <3>2, CallsType, LocalAtIs
  <2>4. Len(<<>>) = 0 /\ \A i \in 1 .. Len(<<>>) : FALSE
    OBVIOUS
  <2>5. GatheredIs(nc, 1, gathered')
    BY <1>2, <1>18, <2>3, <2>4 DEF GatheredIs
  <2> QED BY <2>2, <2>5
<1>20. Operation(n, c, a).do # "barrier"
  BY <1>3
<1> QED BY <1>2, <1>3, <1>4, <1>6, <1>16, <1>17, <1>18, <1>19, <1>20, LocalStep

\* At the beginning nothing is on its way.
LEMMA InitIInv == Init => IInv
<1> SUFFICES ASSUME Init PROVE IInv
  OBVIOUS
<1>1. /\ call = [n \in Nodes |-> 1] /\ at = [n \in Nodes |-> 1]
      /\ sent = [n \in Nodes |-> 0] /\ blocked = [n \in Nodes |-> FALSE]
      /\ inbox = [n \in Nodes |-> <<>>] /\ wire = [n \in Nodes |-> [m \in Nodes |-> <<>>]]
      /\ barrier = [n \in Nodes |-> 0] /\ held = [n \in Nodes |-> Collected(n, 1)]
      /\ gathered = <<>> /\ results = [n \in Nodes |-> <<>>]
  BY DEF Init
<1>2. Calls \in Nat /\ 0 \in Nodes
  BY CallsType, ExchangeAssumption DEF Nodes
<1>3. \A n \in Nodes : Collected(n, 1) \in Maps
  BY CollectedType
<1>4. Shape
  BY <1>1, <1>2, <1>3 DEF Shape
<1>5. 1 <= Calls => Kind[1] \in Kinds
  BY <1>2, CallsType
<1>6. ASSUME NEW n \in Nodes
      PROVE  NodeIs(n, call[n], at[n], sent[n], blocked[n], inbox[n], held[n], barrier[n], results[n])
  <2>1. 1 <= Calls => 1 <= Size(n, Kind[1])
    <3>1. SUFFICES ASSUME 1 <= Calls PROVE 1 <= Size(n, Kind[1])
      OBVIOUS
    <3>2. LocalAt(Kind[1]) \in Nat /\ LocalAt(Kind[1]) >= 1 /\ Size(n, Kind[1]) \in Nat
          /\ Size(n, Kind[1]) >= LocalAt(Kind[1])
      BY <1>5, <3>1, LocalAtIs, SizeIs
    <3> QED BY <3>2
  <2>2. Position(n, 1, 1)
    BY <1>2, <2>1 DEF Position
  <2>3. SendingIs(n, 1, 1, 0, FALSE) /\ InboxIs(n, 1, 1, <<>>)
    BY TransferBegins
  <2>4. HeldIs(n, 1, 1, Collected(n, 1))
    BY CallBegins
  <2>5. BarrierIs(n, 1, 1, 0)
    BY <1>2 DEF BarrierIs
  <2>6. ResultsIs(n, 1, <<>>)
    BY DEF ResultsIs
  <2>7. NodeIs(n, 1, 1, 0, FALSE, <<>>, Collected(n, 1), 0, <<>>)
    BY <2>2, <2>3, <2>4, <2>5, <2>6 DEF NodeIs
  <2> QED BY <1>1, <2>7
<1>7. GatheredIs(call[0], at[0], gathered)
  <2>1. 1 <= Calls => ~(1 > LocalAt(Kind[1]))
    <3>1. SUFFICES ASSUME 1 <= Calls PROVE ~(1 > LocalAt(Kind[1]))
      OBVIOUS
    <3>2. LocalAt(Kind[1]) \in Nat /\ LocalAt(Kind[1]) >= 1
      BY <1>5, <3>1, LocalAtIs
    <3> QED BY <3>2
  <2>2. <<>> \in Seq(Maps) /\ Len(<<>>) = 0 /\ \A i \in 1 .. Len(<<>>) : FALSE
    OBVIOUS
  <2>3. GatheredIs(1, 1, <<>>)
    BY <2>1, <2>2 DEF GatheredIs
  <2> QED BY <1>1, <1>2, <2>3
<1>8. ASSUME NEW n \in Nodes, NEW m \in Nodes \ {n}
      PROVE  WireIs(n, m, wire[n][m], SentTo(n, m), GotFrom(m, n))
  <2>1. SentTo(n, m) = SentBy(n, m, 1, 1, Number(0, FALSE)) /\ Number(0, FALSE) = 0
    BY <1>1, TransferBegins DEF SentTo
  <2>2. GotFrom(m, n) = GotBy(m, n, 1, 1, 0)
    BY <1>1 DEF GotFrom
  <2>3. SentTo(n, m) = 0 /\ GotFrom(m, n) = 0
    BY <2>1, <2>2, StreamBegins
  <2>4. WireIs(n, m, <<>>, 0, 0)
    BY DEF WireIs
  <2> QED BY <1>1, <2>3, <2>4
<1> QED BY <1>4, <1>6, <1>7, <1>8 DEF IInv

\* A step that changes nothing.
LEMMA StutterKeeps == IInv /\ UNCHANGED vars => IInv'
<1> SUFFICES ASSUME IInv, UNCHANGED vars PROVE IInv'
  OBVIOUS
<1> QED BY DEF IInv, vars, Shape, SentTo, GotFrom

\* Every step keeps the invariant.
LEMMA NextKeeps == IInv /\ [Next]_vars => IInv'
<1> SUFFICES ASSUME IInv, [Next]_vars PROVE IInv'
  OBVIOUS
<1>1. CASE UNCHANGED vars
  BY <1>1, StutterKeeps
<1>2. CASE Terminated
  BY <1>2, StutterKeeps DEF Terminated
<1>3. ASSUME NEW n \in Nodes, Step(n) PROVE IInv'
  <2>1. CASE \E buffered \in BOOLEAN : MPI_Send(n, buffered)
    BY <2>1, SendKeeps
  <2>2. CASE MPI_SendReturns(n)
    BY <2>2, SendReturnsKeeps
  <2>3. CASE MPI_Recv(n)
    BY <2>3, RecvKeeps
  <2>4. CASE MPI_Barrier(n)
    BY <2>4, BarrierKeeps
  <2>5. CASE LeaveBarrier(n)
    BY <2>5, LeaveBarrierKeeps
  <2>6. CASE Reduce(n)
    BY <2>6, ReduceKeeps
  <2>7. CASE Combine(n)
    BY <2>7, CombineKeeps
  <2> QED BY <1>3, <2>1, <2>2, <2>3, <2>4, <2>5, <2>6, <2>7 DEF Step
<1> QED BY <1>1, <1>2, <1>3 DEF Next

\* Types, the nodes one by one, and the wires between two positions of a stream: the
\* inductive invariant that the theorems about MpiExchange rest on.
THEOREM Invariance == Spec => []IInv
BY InitIInv, NextKeeps, PTL DEF Spec

-----------------------------------------------------------------------------
\* Every variable has its type.
LEMMA TypeHolds == ASSUME IInv PROVE TypeOK
<1>1. Shape
  BY DEF IInv
<1>2. Calls \in Nat /\ pre_size \in Nat /\ mpi_nodes \in Nat \ {0} /\ 0 \in Nodes
  BY CallsType, ExchangeAssumption DEF Nodes
<1>3. ASSUME NEW n \in Nodes
      PROVE  /\ at[n] \in Nat /\ (~Done(n) => at[n] \in DOMAIN Ops(n))
             /\ sent[n] \in 0 .. 3 + pre_size /\ Len(inbox[n]) \in 0 .. 3 + pre_size
             /\ DOMAIN held[n] \subseteq Keys /\ Len(results[n]) = call[n] - 1
  <2>1. at[n] \in Nat /\ sent[n] \in Nat /\ held[n] \in Maps /\ Len(inbox[n]) \in Nat
    BY <1>1, NodeNow DEF Shape
  <2>2. ASSUME ~Done(n) PROVE at[n] \in DOMAIN Ops(n)
    <3>1. /\ call[n] \in 1 .. Calls /\ at[n] \in 1 .. Size(n, Kind[call[n]])
          /\ Len(Ops(n)) = Size(n, Kind[call[n]])
      BY <2>2, NodeNow
    <3>2. Ops(n) \in Seq(Operations)
      BY <3>1, CallsType, ScriptIs DEF Ops
    <3> QED BY <3>1, <3>2, LenProperties
  <2>3. sent[n] <= 3 + pre_size
    <3>1. SendingIs(n, call[n], at[n], sent[n], blocked[n])
      BY NodeNow
    <3>2. \A m, what : Count(m, what) \in Nat /\ Count(m, what) <= 3 + pre_size
      BY CountType
    <3>3. sent[n] = 0 \/ \E m, what : sent[n] < Count(m, what)
      BY <3>1 DEF SendingIs
    <3> QED BY <1>2, <2>1, <3>2, <3>3
  <2>4. Len(inbox[n]) <= 3 + pre_size
    <3>1. InboxIs(n, call[n], at[n], inbox[n])
      BY NodeNow
    <3>2. \A m, what : Count(m, what) \in Nat /\ Count(m, what) <= 3 + pre_size
      BY CountType
    <3>3. Len(inbox[n]) = 0 \/ \E m, what : Len(inbox[n]) < Count(m, what)
      BY <3>1 DEF InboxIs
    <3> QED BY <1>2, <2>1, <3>2, <3>3
  <2>5. Len(results[n]) = call[n] - 1
    BY NodeNow DEF ResultsIs
  <2>6. DOMAIN held[n] \subseteq Keys
    BY <2>1, MapsType
  <2> QED BY <1>2, <2>1, <2>2, <2>3, <2>4, <2>5, <2>6
<1>4. Len(gathered) < mpi_nodes
  <2> DEFINE c == call[0]
             a == at[0]
  <2>1. /\ GatheredIs(c, a, gathered) /\ Position(0, c, a) /\ c \in Nat /\ c \in 1 .. Calls + 1 /\ a \in Nat
    BY <1>1, <1>2, NodeNow DEF IInv, Shape
  <2>2. CASE c <= Calls /\ a > LocalAt(Kind[c])
    <3>1. c \in 1 .. Calls
      BY <1>2, <2>1, <2>2
    <3>2. LocalAt(Kind[c]) \in Nat /\ LocalAt(Kind[c]) >= 1 /\ Kind[c] \in Kinds
      BY <3>1, CallsType, LocalAtIs
    <3>3. a <= Size(0, Kind[c])
      BY <2>1, <2>2 DEF Position
    <3>4. Size(0, Kind[c]) = IF mpi_nodes > 1 THEN LocalAt(Kind[c]) + mpi_nodes ELSE 1
      BY DEF Size
    <3>5. Len(gathered) = a - LocalAt(Kind[c]) - 1
      BY <2>1, <2>2 DEF GatheredIs
    <3> QED BY <1>2, <2>1, <2>2, <3>2, <3>3, <3>4, <3>5
  <2>3. CASE ~(c <= Calls /\ a > LocalAt(Kind[c]))
    BY <1>2, <2>1, <2>3 DEF GatheredIs
  <2> QED BY <2>2, <2>3
<1> QED BY <1>1, <1>3, <1>4 DEF TypeOK, Shape

SizedAs(i, box, data) ==
    /\ i = 1 => Len(data) = 1
    /\ i \in {2, 3} => Len(data) = box[1][1]
    /\ i \notin {1, 2, 3} => Len(data) = box[3][i - 3]

\* The size of the message that arrives follows from those before it.
LEMMA SizeExpected ==
    ASSUME NEW n \in Nodes, NEW m \in Nodes, NEW c \in 1 .. Calls, NEW what \in {"shuffle", "result"},
           NEW x \in Nat, NEW i, i = x + 1, i \in 1 .. Count(n, what), NEW box, Arrived(n, m, c, what, box, x),
           NEW data, Carried(m, n, c, what, i, data)
    PROVE  SizedAs(i, box, data)
<1> DEFINE D == TransferKeys(m, n, c, what)
           size == Cardinality(D)
           keys == Ascending(D)
<1>1. D \in SUBSET Keys /\ size \in Nat
  BY HomeType DEF TransferKeys
<1>2. Len(keys) = size /\ \A j \in 1 .. size : keys[j] \in D
  BY <1>1, AscendingIs
<1>3. Count(n, what) = IF what = "shuffle" THEN 3 + size ELSE 3
  BY DEF Count, TransferKeys
<1>4. i \in Nat /\ i >= 1 /\ i <= 3 + size /\ (i > 3 => what = "shuffle")
  BY <1>1, <1>3
<1>5. CASE i = 1
  <2>1. data = <<size>>
    BY <1>5 DEF Carried
  <2> QED BY <1>5, <2>1 DEF SizedAs
<1>6. ASSUME i > 1 PROVE box[1][1] = size
  <2>1. 1 \in 1 .. x
    BY <1>4, <1>6
  <2>2. box[1] = <<size>>
    BY <2>1 DEF Arrived, Carried
  <2> QED BY <2>2
<1>7. CASE i = 2
  <2>1. data = keys
    BY <1>7 DEF Carried
  <2> QED BY <1>2, <1>6, <1>7, <2>1 DEF SizedAs
<1>8. CASE i = 3
  <2>1. Len(data) = size
    BY <1>8 DEF Carried
  <2> QED BY <1>6, <1>8, <2>1 DEF SizedAs
<1>9. CASE i > 3
  <2>1. PICK j \in Nat : j = i - 3
    BY <1>4, <1>9
  <2>2. j \in 1 .. size /\ what = "shuffle" /\ 3 \in 1 .. x
    BY <1>1, <1>4, <1>9, <2>1
  <2>3. data = Collected(m, c)[keys[j]]
    BY <1>9, <2>1 DEF Carried
  <2>4. Len(data) = Emits[m][keys[j]]
    <3>1. PICK k \in Keys : k = keys[j]
      BY <1>1, <1>2, <2>2
    <3>2. c \in Nat /\ data = Collected(m, c)[k]
      BY <2>3, <3>1
    <3>3. Len(Collected(m, c)[k]) = Emits[m][k]
      BY <3>2, CarriesCollected
    <3> QED BY <3>1, <3>2, <3>3
  <2>5. Carried(m, n, c, what, 3, box[3])
    BY <2>2 DEF Arrived
  <2>6. box[3][j] = Emits[m][keys[j]]
    BY <2>2, <2>5 DEF Carried
  <2>7. i # 1 /\ i \notin {2, 3}
    BY <1>4, <1>9
  <2> QED BY <2>1, <2>4, <2>6, <2>7 DEF SizedAs
<1> QED BY <1>4, <1>5, <1>7, <1>8, <1>9

\* The message at the head of a wire is the one its receiver expects.
LEMMA MatchedHolds == ASSUME IInv PROVE Matched
<1>1. ASSUME NEW n \in Nodes, Doing(n, "receive"), wire[Peer(n)][n] # <<>>
      PROVE  LET message == Head(wire[Peer(n)][n])
                 number == Len(inbox[n]) + 1
             IN  /\ message.part = [call |-> call[n], what |-> What(n), number |-> number]
                 /\ Len(message.data) = CASE number = 1 -> 1
                                          [] number \in {2, 3} -> inbox[n][1][1]
                                          [] OTHER -> inbox[n][3][number - 3]
  <2> DEFINE m == Peer(n)
             h == Head(wire[m][n])
             x == Len(inbox[n])
  <2>1. /\ m \in Nodes /\ h.part = [call |-> call[n], what |-> What(n), number |-> x + 1]
        /\ Carried(m, n, call[n], What(n), x + 1, h.data)
        /\ x + 1 \in 1 .. Count(n, What(n))
        /\ Arrived(n, m, call[n], What(n), inbox[n], x)
    BY <1>1, HeadIs
  <2>2. /\ call[n] \in 1 .. Calls /\ x \in Nat /\ What(n) \in {"shuffle", "result"}
    <3>1. /\ call[n] \in 1 .. Calls /\ at[n] \in 1 .. Size(n, Kind[call[n]]) /\ x \in Nat
          /\ Operation(n, call[n], at[n]).do = "receive" /\ What(n) = Operation(n, call[n], at[n]).what
      BY <1>1, NodeNow
    <3> QED BY <3>1, ReceiveIs
  <2>3. PICK i : i = x + 1
    OBVIOUS
  <2>4. i \in 1 .. Count(n, What(n))
    BY <2>1, <2>3
  <2>5. /\ i = 1 => Len(h.data) = 1
        /\ i \in {2, 3} => Len(h.data) = inbox[n][1][1]
        /\ i \notin {1, 2, 3} => Len(h.data) = inbox[n][3][i - 3]
    <3>1. PICK p, c, w, box, y, data :
            p = m /\ c = call[n] /\ w = What(n) /\ box = inbox[n] /\ y = x /\ data = h.data
      OBVIOUS
    <3>2. /\ p \in Nodes /\ c \in 1 .. Calls /\ w \in {"shuffle", "result"} /\ y \in Nat /\ i = y + 1
          /\ i \in 1 .. Count(n, w) /\ Arrived(n, p, c, w, box, y) /\ Carried(p, n, c, w, i, data)
      BY <2>1, <2>2, <2>3, <2>4, <3>1
    <3>3. SizedAs(i, box, data)
      BY <3>2, SizeExpected
    <3> QED BY <3>1, <3>3 DEF SizedAs
  <2> QED BY <2>1, <2>3, <2>5
<1> QED BY <1>1, TypeHolds DEF Matched

(***************************************************************************)
(* Every MPI_Recv gets the message that was sent for it, although all      *)
(* messages have one tag and no receiver looks at more than the data: for  *)
(* any number of nodes, calls of any kinds in any order, any keys with any *)
(* distributer and any buffering.                                          *)
(***************************************************************************)
THEOREM MatchedCorrect == Spec => []Matched
BY Invariance, MatchedHolds, PTL

\* What the invariant says of the values, as the property says it.
LEMMA CompleteHolds == ASSUME IInv PROVE Complete
<1>1. ASSUME NEW n \in Nodes, Doing(n, "reduce"), Kind[call[n]] = "GlobalH",
             NEW k \in Keys, Distributer[k] = n
      PROVE  Gathers(FlattenSeq(held[n][k]), Contributions(Nodes, call[n], k))
  <2>1. /\ call[n] \in 1 .. Calls /\ at[n] \in 1 .. Size(n, Kind[call[n]])
        /\ Operation(n, call[n], at[n]).do = "reduce" /\ HeldIs(n, call[n], at[n], held[n])
    BY <1>1, NodeNow
  <2>2. at[n] = LocalAt(Kind[call[n]]) /\ call[n] <= Calls /\ Kind[call[n]] \in Kinds
    BY <2>1, OthersIs, CallsType
  <2>3. at[n] <= LocalAt(Kind[call[n]])
    BY <2>2, LocalAtIs
  <2>4. Carries(held[n][k], Contributions(Heard(n, at[n]), call[n], k))
    BY <1>1, <2>1, <2>2, <2>3 DEF HeldIs
  <2>5. Heard(n, at[n]) = Nodes
    BY <1>1, <2>2, HeardAll
  <2>6. Lists(FlattenSeq(held[n][k]), Contributions(Nodes, call[n], k))
    BY <2>4, <2>5 DEF Carries
  <2> QED BY <2>6, ListsHolds
<1>2. ASSUME NEW n \in Nodes, NEW c \in DOMAIN results[n]
      PROVE  IF n > 0 THEN results[n][c] = Empty
             ELSE /\ DOMAIN results[n][c] = Keys
                  /\ \A k \in Keys : Gathers(results[n][c][k][1], Contributions(Nodes, c, k))
  <2>1. ResultsIs(n, call[n], results[n]) /\ call[n] \in Nat \ {0}
    BY NodeNow
  <2>2. /\ DOMAIN results[n] = 1 .. call[n] - 1
        /\ \A d \in 1 .. call[n] - 1 : IF n > 0 THEN results[n][d] = Empty ELSE Answer(results[n][d], Keys, Nodes, d)
    BY <2>1, LenProperties DEF ResultsIs
  <2>3. IF n > 0 THEN results[n][c] = Empty ELSE Answer(results[n][c], Keys, Nodes, c)
    BY <2>2
  <2>4. CASE n > 0
    BY <2>3, <2>4
  <2>5. CASE ~(n > 0)
    <3>1. Answer(results[n][c], Keys, Nodes, c)
      BY <2>3, <2>5
    <3>2. DOMAIN results[n][c] = Keys
      BY <3>1 DEF Answer, Covers
    <3>3. \A k \in Keys : Lists(results[n][c][k][1], Contributions(Nodes, c, k))
      BY <3>1, AnswerValue
    <3>4. \A k \in Keys : Gathers(results[n][c][k][1], Contributions(Nodes, c, k))
      BY <3>3, ListsHolds
    <3> QED BY <2>5, <3>2, <3>4
  <2> QED BY <2>4, <2>5
<1> QED BY <1>1, <1>2 DEF Complete, AtHome, AtRoot

(***************************************************************************)
(* Every key comes to the node that reduces it, and rank 0 returns every   *)
(* value of every node exactly once, whatever MPI buffers and however the  *)
(* nodes' calls overlap.                                                   *)
(***************************************************************************)
THEOREM CompleteCorrect == Spec => []Complete
BY Invariance, CompleteHolds, PTL

-----------------------------------------------------------------------------
(* Nobody waits in a circle: within a call every node goes through its     *)
(* operations in one common order.                                         *)

\* The place of an operation of node n in this order.  A message has the same place
\* for its sender and its receiver.
Rank(n, o) ==
    IF o.do \in {"barrier", "reduce", "combine"} THEN 0
    ELSE IF o.what = "shuffle"
    THEN 2 * (n + o.peer) + (IF (o.do = "send" /\ n > o.peer) \/ (o.do # "send" /\ o.peer > n) THEN 1 ELSE 0)
    ELSE 5 * mpi_nodes + (IF o.do = "send" THEN n ELSE o.peer)

\* The place of the operations of a call.
LEMMA RankOf ==
    ASSUME NEW n \in Nodes, NEW c \in 1 .. Calls, NEW a \in 1 .. Size(n, Kind[c])
    PROVE  LET o == Operation(n, c, a) IN
           /\ Rank(n, o) \in Nat
           /\ o.do \in {"send", "receive"} /\ o.what = "shuffle" =>
                /\ o.peer \in Nat /\ a < LocalAt(Kind[c]) /\ Kind[c] = "GlobalH"
                /\ Rank(n, o) = 2 * n + a + (IF a > 2 * n THEN 1 ELSE -1)
           /\ o.do = "send" /\ o.what = "result" => Rank(n, o) = 5 * mpi_nodes + n
           /\ o.do = "receive" /\ o.what = "result" => Rank(n, o) = 5 * mpi_nodes + o.peer
           /\ a < LocalAt(Kind[c]) => Rank(n, o) < 5 * mpi_nodes
<1> DEFINE o == Operation(n, c, a)
           L == LocalAt(Kind[c])
           N == mpi_nodes
<1>1. o.do \in {"send", "receive", "barrier", "reduce", "combine"}
      /\ (a < L => /\ o.do \in {"send", "receive", "barrier"}
                   /\ o.do \in {"send", "receive"} => o.what = "shuffle")
  BY PlaceIs
<1>2. N \in Nat /\ N > 0 /\ n \in Nat /\ n < N /\ a \in Nat /\ Kind[c] \in Kinds /\ L \in Nat
  BY CallsType, LocalAtIs, ExchangeAssumption DEF Nodes
<1>3. CASE o.do \in {"barrier", "reduce", "combine"}
  <2>1. Rank(n, o) = 0 /\ o.do # "send" /\ o.do # "receive"
    BY <1>3 DEF Rank
  <2> QED BY <1>2, <2>1
<1>4. CASE o.do = "send"
  <2>1. /\ o.peer \in Nodes \ {n}
        /\ \/ o.what = "shuffle" /\ Kind[c] = "GlobalH" /\ a < L /\ a = SendAt(n, o.peer)
           \/ o.what = "result" /\ n > 0 /\ o.peer = 0 /\ a = L + 1
    BY <1>4, SendIs
  <2>2. PICK p : p = o.peer
    OBVIOUS
  <2>3. p \in Nat /\ p < N /\ p # n
    BY <1>2, <2>1, <2>2 DEF Nodes
  <2>4. CASE o.what = "shuffle"
    <3>1. a = SendAt(n, p) /\ Kind[c] = "GlobalH" /\ a < L
      BY <2>1, <2>2, <2>4
    <3>2. Rank(n, o) = 2 * (n + p) + (IF n > p THEN 1 ELSE 0)
      BY <1>4, <2>2, <2>4 DEF Rank
    <3>3. a = IF n < p THEN 2 * p - 1 ELSE 2 * (p + 1)
      BY <1>2, <2>3, <3>1 DEF SendAt, Turn
    <3>4. Rank(n, o) = 2 * n + a + (IF a > 2 * n THEN 1 ELSE -1)
      BY <1>2, <2>3, <3>2, <3>3
    <3>5. Rank(n, o) < 5 * N /\ Rank(n, o) \in Nat
      BY <1>2, <2>3, <3>2
    <3> QED BY <1>4, <2>2, <2>3, <2>4, <3>1, <3>4, <3>5
  <2>5. CASE o.what = "result"
    <3>1. Rank(n, o) = 5 * N + n
      BY <1>4, <2>5 DEF Rank
    <3>2. ~(a < L)
      BY <1>2, <2>1, <2>5
    <3> QED BY <1>2, <1>4, <2>5, <3>1, <3>2
  <2> QED BY <2>1, <2>4, <2>5
<1>5. CASE o.do = "receive"
  <2>1. /\ o.peer \in Nodes \ {n}
        /\ \/ o.what = "shuffle" /\ Kind[c] = "GlobalH" /\ a < L /\ a = ReceiveAt(n, o.peer)
           \/ o.what = "result" /\ n = 0 /\ a = L + o.peer
    BY <1>5, ReceiveIs
  <2>2. PICK p : p = o.peer
    OBVIOUS
  <2>3. p \in Nat /\ p < N /\ p # n
    BY <1>2, <2>1, <2>2 DEF Nodes
  <2>4. CASE o.what = "shuffle"
    <3>1. a = ReceiveAt(n, p) /\ Kind[c] = "GlobalH" /\ a < L
      BY <2>1, <2>2, <2>4
    <3>2. Rank(n, o) = 2 * (n + p) + (IF p > n THEN 1 ELSE 0)
      BY <1>5, <2>2, <2>4 DEF Rank
    <3>3. a = IF n < p THEN 2 * p ELSE 2 * (p + 1) - 1
      BY <1>2, <2>3, <3>1 DEF ReceiveAt, Turn
    <3>4. Rank(n, o) = 2 * n + a + (IF a > 2 * n THEN 1 ELSE -1)
      BY <1>2, <2>3, <3>2, <3>3
    <3>5. Rank(n, o) < 5 * N /\ Rank(n, o) \in Nat
      BY <1>2, <2>3, <3>2
    <3> QED BY <1>5, <2>2, <2>3, <2>4, <3>1, <3>4, <3>5
  <2>5. CASE o.what = "result"
    <3>1. Rank(n, o) = 5 * N + p
      BY <1>5, <2>2, <2>5 DEF Rank
    <3>2. ~(a < L)
      BY <1>2, <2>1, <2>2, <2>3, <2>5
    <3>3. 5 * N + p \in Nat
      BY <1>2, <2>3
    <3> QED BY <1>5, <2>2, <2>5, <3>1, <3>2, <3>3
  <2> QED BY <2>1, <2>4, <2>5
<1> QED BY <1>1, <1>3, <1>4, <1>5

\* The sender and the receiver of a message give it the same place.
LEMMA RankShared ==
    ASSUME NEW n, NEW m, NEW o, NEW p, o.do = "send", o.what = "shuffle", o.peer = m,
           p.do = "receive", p.what = "shuffle", p.peer = n, n \in Nat, m \in Nat
    PROVE  Rank(n, o) = Rank(m, p)
BY DEF Rank

\* The shuffle goes through the order.
LEMMA RankGrows ==
    ASSUME NEW n \in Nodes, NEW c \in 1 .. Calls, Kind[c] = "GlobalH",
           NEW a \in 1 .. Size(n, Kind[c]), NEW b \in 1 .. Size(n, Kind[c]), a < b, b < LocalAt(Kind[c])
    PROVE  Rank(n, Operation(n, c, a)) < Rank(n, Operation(n, c, b))
<1>1. LocalAt(Kind[c]) \in Nat /\ n \in Nat
  BY CallsType, LocalAtIs DEF Nodes
<1>2. a < LocalAt(Kind[c])
  BY <1>1
<1>3. ASSUME NEW d \in 1 .. Size(n, Kind[c]), d < LocalAt(Kind[c])
      PROVE  Rank(n, Operation(n, c, d)) = 2 * n + d + (IF d > 2 * n THEN 1 ELSE -1)
  <2>1. /\ Operation(n, c, d).do \in {"send", "receive", "barrier"}
        /\ Operation(n, c, d).do \in {"send", "receive"} => Operation(n, c, d).what = "shuffle"
    BY <1>3, PlaceIs
  <2>2. Operation(n, c, d).do # "barrier"
    BY OthersIs
  <2> QED BY <2>1, <2>2, RankOf
<1> QED BY <1>1, <1>2, <1>3

-----------------------------------------------------------------------------
(* What is at a position.                                                  *)

\* A node receives at the position of a receive.
LEMMA AtReceive ==
    ASSUME NEW n \in Nodes, NEW m \in Nodes \ {n}, NEW c \in 1 .. Calls, NEW a \in 1 .. Size(n, Kind[c]),
           \/ Kind[c] = "GlobalH" /\ a < LocalAt(Kind[c]) /\ a = ReceiveAt(n, m)
           \/ n = 0 /\ a = LocalAt(Kind[c]) + m
    PROVE  Operation(n, c, a).do = "receive" /\ Operation(n, c, a).peer = m
           /\ (Operation(n, c, a).what = "shuffle" <=> a < LocalAt(Kind[c]))
<1> DEFINE o == Operation(n, c, a)
           L == LocalAt(Kind[c])
<1>1. L \in Nat /\ n \in Nat /\ m \in Nat /\ n < mpi_nodes /\ m < mpi_nodes /\ m # n /\ mpi_nodes \in Nat
  BY CallsType, LocalAtIs, ExchangeAssumption DEF Nodes
<1>2. o.do \in {"send", "receive", "barrier", "reduce", "combine"}
  BY PlaceIs
<1>3. CASE Kind[c] = "GlobalH" /\ a < L /\ a = ReceiveAt(n, m)
  <2>1. o.do # "barrier" /\ o.do # "reduce" /\ o.do # "combine"
    BY <1>1, <1>3, OthersIs
  <2>2. ASSUME o.do = "send" PROVE FALSE
    <3>1. o.peer \in Nodes \ {n} /\ (a = SendAt(n, o.peer) \/ a = L + 1)
      BY <2>2, SendIs
    <3>2. a = SendAt(n, o.peer)
      BY <1>1, <1>3, <3>1
    <3> QED BY <1>3, <3>1, <3>2, TurnsApart
  <2>3. o.do = "receive"
    BY <1>2, <2>1, <2>2
  <2>4. /\ o.peer \in Nodes \ {n}
        /\ \/ o.what = "shuffle" /\ a = ReceiveAt(n, o.peer)
           \/ o.what = "result" /\ a = L + o.peer
    BY <2>3, ReceiveIs
  <2>5. ~(a = L + o.peer)
    <3>1. o.peer \in Nat
      BY <2>4 DEF Nodes
    <3> QED BY <1>1, <1>3, <3>1
  <2>6. o.peer = m
    BY <1>3, <2>4, <2>5, TurnsApart
  <2> QED BY <1>3, <2>3, <2>4, <2>5, <2>6
<1>4. CASE n = 0 /\ a = L + m
  <2>1. m > 0 /\ a > L /\ ~(a < L)
    BY <1>1, <1>4
  <2>2. o.do \in {"send", "receive", "combine"} /\ (o.do \in {"send", "receive"} => o.what = "result")
    BY <2>1, PlaceIs
  <2>3. o.do # "send"
    BY <1>4, <2>2, SendIs
  <2>4. o.do # "combine"
    <3>1. o.do = "combine" => a = L + mpi_nodes
      BY OthersIs
    <3> QED BY <1>1, <1>4, <3>1
  <2>5. o.do = "receive" /\ o.what = "result"
    BY <2>2, <2>3, <2>4
  <2>6. o.peer \in Nodes /\ a = L + o.peer
    BY <2>5, ReceiveIs
  <2>7. o.peer = m
    BY <1>1, <1>4, <2>6 DEF Nodes
  <2> QED BY <2>1, <2>5, <2>7
<1> QED BY <1>3, <1>4

\* Beyond its local phase a node sends its results to the first one.
LEMMA AtResult ==
    ASSUME NEW n \in Nodes, n # 0, NEW c \in 1 .. Calls, NEW a \in 1 .. Size(n, Kind[c]),
           a > LocalAt(Kind[c])
    PROVE  /\ Operation(n, c, a).do = "send" /\ Operation(n, c, a).peer = 0
           /\ Operation(n, c, a).what = "result"
<1> DEFINE o == Operation(n, c, a)
           L == LocalAt(Kind[c])
<1>1. L \in Nat /\ ~(a < L) /\ a \in Nat
  BY CallsType, LocalAtIs
<1>2. o.do \in {"send", "receive", "combine"} /\ (o.do \in {"send", "receive"} => o.what = "result")
  BY PlaceIs
<1>3. o.do # "receive"
  BY <1>1, <1>2, ReceiveIs
<1>4. o.do # "combine"
  BY <1>1, OthersIs
<1>5. o.do = "send" /\ o.what = "result"
  BY <1>2, <1>3, <1>4
<1>6. o.peer = 0
  BY <1>5, SendIs
<1> QED BY <1>5, <1>6

\* A node sends at the position of a send.
LEMMA AtSend ==
    ASSUME NEW n \in Nodes, NEW m \in Nodes \ {n}, NEW c \in 1 .. Calls, NEW a \in 1 .. Size(n, Kind[c]),
           \/ Kind[c] = "GlobalH" /\ a < LocalAt(Kind[c]) /\ a = SendAt(n, m)
           \/ n > 0 /\ m = 0 /\ a > LocalAt(Kind[c])
    PROVE  Operation(n, c, a).do = "send" /\ Operation(n, c, a).peer = m
           /\ (Operation(n, c, a).what = "shuffle" <=> a < LocalAt(Kind[c]))
<1> DEFINE o == Operation(n, c, a)
           L == LocalAt(Kind[c])
<1>1. L \in Nat /\ n \in Nat /\ m \in Nat /\ n < mpi_nodes /\ m < mpi_nodes /\ m # n /\ mpi_nodes \in Nat
  BY CallsType, LocalAtIs, ExchangeAssumption DEF Nodes
<1>2. o.do \in {"send", "receive", "barrier", "reduce", "combine"}
  BY PlaceIs
<1>3. CASE Kind[c] = "GlobalH" /\ a < L /\ a = SendAt(n, m)
  <2>1. o.do # "barrier" /\ o.do # "reduce" /\ o.do # "combine"
    BY <1>1, <1>3, OthersIs
  <2>2. ASSUME o.do = "receive" PROVE FALSE
    <3>1. o.peer \in Nodes \ {n} /\ (a = ReceiveAt(n, o.peer) \/ a = L + o.peer)
      BY <2>2, ReceiveIs
    <3>2. o.peer \in Nat
      BY <3>1 DEF Nodes
    <3>3. a = ReceiveAt(n, o.peer)
      BY <1>1, <1>3, <3>1, <3>2
    <3> QED BY <1>3, <3>1, <3>3, TurnsApart
  <2>3. o.do = "send"
    BY <1>2, <2>1, <2>2
  <2>4. /\ o.peer \in Nodes \ {n}
        /\ \/ o.what = "shuffle" /\ a = SendAt(n, o.peer)
           \/ o.what = "result" /\ a = L + 1
    BY <2>3, SendIs
  <2>5. ~(a = L + 1)
    BY <1>1, <1>3
  <2>6. o.peer = m
    BY <1>3, <2>4, <2>5, TurnsApart
  <2> QED BY <1>3, <2>3, <2>4, <2>5, <2>6
<1>4. CASE n > 0 /\ m = 0 /\ a > L
  <2>1. ~(a < L) /\ n # 0
    BY <1>1, <1>4
  <2>2. o.do = "send" /\ o.peer = 0 /\ o.what = "result"
    BY <1>4, <2>1, AtResult
  <2> QED BY <1>4, <2>1, <2>2
<1> QED BY <1>3, <1>4

-----------------------------------------------------------------------------
(* How far a node is follows from how much it has sent or received.        *)

\* What a node has received at least at a position.
LEMMA GotBound ==
    ASSUME NEW n \in Nodes, NEW m \in Nodes \ {n}, NEW c \in Nat \ {0}, NEW a, NEW x \in Nat
    PROVE  /\ GotBy(n, m, c, a, x) >= Base(n, c) /\ Base(n, c) \in Nat /\ GotBy(n, m, c, a, x) \in Nat
           /\ c <= Calls /\ Kind[c] = "GlobalH" /\ a > ReceiveAt(n, m)
                => GotBy(n, m, c, a, x) >= Base(n, c) + Count(n, "shuffle")
           /\ c <= Calls /\ n = 0 /\ a > LocalAt(Kind[c]) + m /\ Kind[c] # "GlobalH"
                => GotBy(n, m, c, a, x) >= Base(n, c) + 3
           /\ c <= Calls /\ n = 0 /\ a > LocalAt(Kind[c]) + m /\ Kind[c] = "GlobalH" /\ a > ReceiveAt(n, m)
                => GotBy(n, m, c, a, x) >= Base(n, c) + Count(n, "shuffle") + 3
<1>1. PICK b, k, s, r, y :
        /\ b = Base(n, c) /\ k = Count(n, "shuffle")
        /\ s = (IF c <= Calls /\ Kind[c] = "GlobalH" /\ a > ReceiveAt(n, m) THEN k ELSE 0)
        /\ r = (IF c <= Calls /\ n = 0 /\ a > LocalAt(Kind[c]) + m THEN 3 ELSE 0)
        /\ y = (IF Does(n, c, a, "receive", m) THEN x ELSE 0)
  OBVIOUS
<1>2. b \in Nat /\ k \in Nat
  BY <1>1, BaseStep, CountType
<1>3. s \in Nat /\ r \in Nat /\ y \in Nat
  BY <1>1, <1>2
<1>4. GotBy(n, m, c, a, x) = b + s + r + y
  BY <1>1 DEF GotBy
<1> QED BY <1>1, <1>2, <1>3, <1>4

\* What a node has sent at least at a position.
LEMMA SentBound ==
    ASSUME NEW n \in Nodes, NEW m \in Nodes \ {n}, NEW c \in Nat \ {0}, NEW a, NEW x \in Nat
    PROVE  /\ SentBy(n, m, c, a, x) >= Base(m, c) /\ Base(m, c) \in Nat /\ SentBy(n, m, c, a, x) \in Nat
           /\ c <= Calls /\ Kind[c] = "GlobalH" /\ a > SendAt(n, m)
                => SentBy(n, m, c, a, x) >= Base(m, c) + Count(m, "shuffle")
<1>1. PICK b, k, s, y :
        /\ b = Base(m, c) /\ k = Count(m, "shuffle")
        /\ s = (IF c <= Calls /\ Kind[c] = "GlobalH" /\ a > SendAt(n, m) THEN k ELSE 0)
        /\ y = (IF Does(n, c, a, "send", m) THEN x ELSE 0)
  OBVIOUS
<1>2. b \in Nat /\ k \in Nat
  BY <1>1, BaseStep, CountType
<1>3. s \in Nat /\ y \in Nat
  BY <1>1, <1>2
<1>4. SentBy(n, m, c, a, x) = b + s + y
  BY <1>1 DEF SentBy
<1> QED BY <1>1, <1>2, <1>3, <1>4

\* The messages of a call come before those of the next one.
LEMMA CallOfIndex ==
    ASSUME NEW m \in Nodes, NEW part, Valid(m, part)
    PROVE  /\ Index(m, part) \in Nat /\ part.call \in Nat \ {0}
           /\ \A d \in Nat \ {0} : Base(m, d) < Index(m, part) => d <= part.call
           /\ part.what = "shuffle" => Index(m, part) <= Base(m, part.call) + Count(m, "shuffle")
           /\ part.what = "result" => m = 0 /\ Index(m, part) <=
                Base(m, part.call) + (IF Kind[part.call] = "GlobalH" THEN Count(m, "shuffle") ELSE 0) + 3
<1>1. Index(m, part) \in Nat /\ Index(m, part) <= Base(m, part.call + 1)
  BY IndexInCall
<1>2. /\ part.call \in Nat \ {0} /\ part.number \in Nat /\ part.number <= Count(m, part.what)
      /\ (part.what = "result" => m = 0)
  BY CallsType, CountType DEF Valid, Parts
<1>3. ASSUME NEW d \in Nat \ {0}, Base(m, d) < Index(m, part) PROVE d <= part.call
  <2>1. SUFFICES ASSUME ~(d <= part.call) PROVE FALSE
    OBVIOUS
  <2>2. part.call + 1 <= d /\ part.call + 1 \in Nat \ {0}
    BY <1>2, <2>1
  <2>3. Base(m, part.call + 1) \in Nat /\ Base(m, d) \in Nat /\ Base(m, part.call + 1) <= Base(m, d)
    BY <2>2, BaseMonotone
  <2> QED BY <1>1, <1>3, <2>3
<1>4. Count(m, "result") = 3 /\ Count(m, "shuffle") \in Nat /\ Base(m, part.call) \in Nat
  BY <1>2, CountType, BaseStep
<1>5. part.what = "shuffle" => Index(m, part) <= Base(m, part.call) + Count(m, "shuffle")
  <2>1. SUFFICES ASSUME part.what = "shuffle" PROVE Index(m, part) <= Base(m, part.call) + Count(m, "shuffle")
    OBVIOUS
  <2>2. Index(m, part) = Base(m, part.call) + 0 + part.number
    BY <2>1 DEF Index
  <2> QED BY <1>2, <1>4, <2>1, <2>2
<1>6. part.what = "result" => m = 0 /\ Index(m, part) <=
                Base(m, part.call) + (IF Kind[part.call] = "GlobalH" THEN Count(m, "shuffle") ELSE 0) + 3
  <2>1. SUFFICES ASSUME part.what = "result"
                 PROVE  Index(m, part) <=
                    Base(m, part.call) + (IF Kind[part.call] = "GlobalH" THEN Count(m, "shuffle") ELSE 0) + 3
    BY <1>2
  <2>2. Index(m, part) = Base(m, part.call) + (IF Kind[part.call] = "GlobalH" THEN Count(m, "shuffle") ELSE 0)
                            + part.number
    BY <2>1 DEF Index
  <2>3. part.number <= 3
    BY <1>2, <1>4, <2>1
  <2> QED BY <1>2, <1>4, <2>2, <2>3
<1> QED BY <1>1, <1>2, <1>3, <1>5, <1>6

-----------------------------------------------------------------------------
\* A node whose message is not taken waits for one that receives it now or does
\* something before, in the same call or an earlier one.
LEMMA SenderWaits ==
    ASSUME IInv, NEW n \in Nodes, Doing(n, "send"), blocked[n], wire[n][Peer(n)] # <<>>,
           call[Peer(n)] >= call[n]
    PROVE  LET p == Peer(n) IN
           /\ p \in Nodes \ {n} /\ ~Done(p) /\ call[p] = call[n]
           /\ \/ Doing(p, "receive") /\ Peer(p) = n
              \/ Doing(p, "reduce")
              \/ Rank(p, Operation(p, call[p], at[p])) < Rank(n, Operation(n, call[n], at[n]))
<1> DEFINE c == call[n]
           a == at[n]
           p == Peer(n)
           b == at[p]
           s == sent[n]
           o == Operation(n, c, a)
           q == Operation(p, c, b)
           L == LocalAt(Kind[c])
<1>0. /\ ~Done(n) /\ SendingIs(n, c, a, s, blocked[n]) /\ s \in Nat /\ c <= Calls /\ c \in Nat \ {0}
  <2>1. ~Done(n) /\ SendingIs(n, c, a, s, blocked[n]) /\ s \in Nat
    BY NodeNow DEF Doing
  <2>2. c \in 1 .. Calls
    BY <2>1, NodeNow
  <2>3. c <= Calls /\ c \in Nat \ {0}
    BY <2>2, CallsType
  <2> QED BY <2>1, <2>3
<1>1. /\ c \in 1 .. Calls /\ a \in 1 .. Size(n, Kind[c]) /\ s \in Nat /\ p = o.peer /\ o.do = "send"
      /\ SendingIs(n, c, a, s, blocked[n]) /\ c <= Calls /\ c \in Nat \ {0}
  BY <1>0, NodeNow
<1>2. /\ p \in Nodes \ {n} /\ s < Count(p, o.what)
      /\ mpi_nodes > 1
      /\ \/ o.what = "shuffle" /\ Kind[c] = "GlobalH" /\ a < L /\ a = SendAt(n, p)
         \/ o.what = "result" /\ n > 0 /\ p = 0 /\ a = L + 1
  BY <1>1, SendIs DEF SendingIs
<1>3. PICK part : part = Part(n, c, a, s + 1)
  OBVIOUS
<1>4. part.call = c /\ part.what = o.what
  BY <1>3 DEF Part
<1>5. /\ Valid(p, part) /\ Index(p, part) = SentBy(n, p, c, a, s + 1)
  BY <1>1, <1>2, <1>3, PartSent
<1>6. GotFrom(p, n) < Index(p, part) /\ GotFrom(p, n) \in Nat
  <2>1. SentTo(n, p) = Index(p, part)
    <3>1. Number(s, blocked[n]) = s + 1
      BY <1>1, NumberIs
    <3> QED BY <1>5, <3>1 DEF SentTo
  <2>2. WireIs(n, p, wire[n][p], SentTo(n, p), GotFrom(p, n))
    BY <1>2 DEF IInv
  <2>3. Len(wire[n][p]) \in Nat /\ Len(wire[n][p]) > 0 /\ SentTo(n, p) = GotFrom(p, n) + Len(wire[n][p])
    BY <2>2, WireType, EmptySeq
  <2>4. GotFrom(p, n) \in Nat
    BY <1>2, NodeNow, GotType DEF GotFrom
  <2> QED BY <2>1, <2>3, <2>4
<1>7. /\ call[p] \in Nat \ {0} /\ Len(inbox[p]) \in Nat /\ (Done(p) <=> call[p] > Calls)
      /\ (~Done(p) => b \in 1 .. Size(p, Kind[call[p]]))
      /\ (~Done(p) => Peer(p) = Operation(p, call[p], b).peer)
      /\ \A do : Doing(p, do) <=> ~Done(p) /\ Operation(p, call[p], b).do = do
  BY <1>2, NodeNow
<1>8. call[p] = c /\ ~Done(p)
  <2>1. Base(p, call[p]) <= GotFrom(p, n) /\ Base(p, call[p]) \in Nat
    BY <1>2, <1>7, GotBound DEF GotFrom
  <2>2. Index(p, part) \in Nat /\ (Base(p, call[p]) < Index(p, part) => call[p] <= part.call)
    BY <1>2, <1>5, <1>7, CallOfIndex
  <2>3. call[p] <= c
    BY <1>4, <1>6, <2>1, <2>2
  <2>4. call[p] = c
    BY <1>1, <1>7, <2>3
  <2> QED BY <1>1, <1>7, <2>4, CallsType
<1>9. /\ b \in 1 .. Size(p, Kind[c]) /\ Peer(p) = q.peer
      /\ \A do : Doing(p, do) <=> q.do = do
  BY <1>7, <1>8
<1>10. GotFrom(p, n) = GotBy(p, n, c, b, Len(inbox[p]))
  BY <1>8 DEF GotFrom
<1>11. /\ L \in Nat /\ mpi_nodes \in Nat /\ n \in Nat /\ p \in Nat /\ b \in Nat /\ a \in Nat
       /\ n < mpi_nodes /\ p < mpi_nodes /\ Kind[c] \in Kinds
       /\ Kind[c] = "GlobalH" => L = 2 * (mpi_nodes - 1) + 1
       /\ ReceiveAt(p, n) \in 1 .. 2 * (mpi_nodes - 1)
  <2>1. /\ mpi_nodes \in Nat /\ n \in Nat /\ p \in Nat /\ p # n /\ n < mpi_nodes /\ p < mpi_nodes
    BY <1>2, ExchangeAssumption DEF Nodes
  <2>2. b \in Nat /\ a \in Nat
    BY <1>1, <1>9
  <2>3. Kind[c] \in Kinds
    BY <1>1, CallsType
  <2>4. L \in Nat /\ (Kind[c] = "GlobalH" => L = 2 * (mpi_nodes - 1) + 1)
    BY <1>2, <2>1, <2>3, LocalAtIs
  <2>5. ReceiveAt(p, n) \in 1 .. 2 * (mpi_nodes - 1)
    BY <1>2, TurnsApart
  <2> QED BY <2>1, <2>2, <2>3, <2>4, <2>5
<1>12. Base(p, c) \in Nat /\ Count(p, "shuffle") \in Nat /\ Index(p, part) \in Nat
  BY <1>1, <1>2, <1>5, BaseStep, CountType, CallOfIndex
<1>13. CASE o.what = "shuffle"
  <2>1. Kind[c] = "GlobalH" /\ a < L
    BY <1>2, <1>13
  <2>2. Index(p, part) <= Base(p, c) + Count(p, "shuffle")
    BY <1>2, <1>4, <1>5, <1>13, CallOfIndex
  <2>3. ~(b > ReceiveAt(p, n))
    <3>1. SUFFICES ASSUME b > ReceiveAt(p, n) PROVE FALSE
      OBVIOUS
    <3>2. GotFrom(p, n) >= Base(p, c) + Count(p, "shuffle")
      BY <1>1, <1>2, <1>7, <1>10, <2>1, <3>1, GotBound
    <3> QED BY <1>6, <1>12, <2>2, <3>2
  <2>4. CASE b = ReceiveAt(p, n)
    <3>1. b < L
      BY <1>11, <2>1, <2>4
    <3>2. q.do = "receive" /\ q.peer = n
      BY <1>1, <1>2, <1>9, <2>1, <2>4, <3>1, AtReceive
    <3> QED BY <1>2, <1>8, <1>9, <3>2
  <2>5. CASE b < ReceiveAt(p, n)
    <3>1. PICK r : r = ReceiveAt(p, n)
      OBVIOUS
    <3>2. r \in 1 .. Size(p, Kind[c]) /\ r < L /\ b < r
      <4>1. Size(p, Kind[c]) \in Nat /\ Size(p, Kind[c]) >= L
        BY <1>2, <1>11, SizeIs
      <4> QED BY <1>11, <2>1, <2>5, <3>1, <4>1
    <3>3. /\ Operation(p, c, r).do = "receive" /\ Operation(p, c, r).peer = n
          /\ Operation(p, c, r).what = "shuffle"
      BY <1>1, <1>2, <2>1, <3>1, <3>2, AtReceive
    <3>4. Rank(p, q) < Rank(p, Operation(p, c, r))
      BY <1>1, <1>2, <1>9, <2>1, <3>2, RankGrows
    <3>5. Rank(n, o) = Rank(p, Operation(p, c, r))
      BY <1>1, <1>11, <1>13, <3>3, RankShared
    <3> QED BY <1>2, <1>8, <3>4, <3>5
  <2> QED BY <1>11, <2>3, <2>4, <2>5
<1>14. CASE o.what = "result"
  <2>1. n > 0 /\ p = 0 /\ a = L + 1
    BY <1>2, <1>14
  <2>2. Index(p, part) <= Base(p, c) + (IF Kind[c] = "GlobalH" THEN Count(p, "shuffle") ELSE 0) + 3
    BY <1>2, <1>4, <1>5, <1>14, CallOfIndex
  <2>3. ~(b > L + n)
    <3>1. SUFFICES ASSUME b > L + n PROVE FALSE
      OBVIOUS
    <3>2. CASE Kind[c] = "GlobalH"
      <4>1. b > ReceiveAt(p, n)
        BY <1>11, <3>1, <3>2
      <4>2. GotFrom(p, n) >= Base(p, c) + Count(p, "shuffle") + 3
        BY <1>1, <1>2, <1>7, <1>10, <2>1, <3>1, <3>2, <4>1, GotBound
      <4> QED BY <1>6, <1>12, <2>2, <3>2, <4>2
    <3>3. CASE Kind[c] # "GlobalH"
      <4>1. GotFrom(p, n) >= Base(p, c) + 3
        BY <1>1, <1>2, <1>7, <1>10, <2>1, <3>1, <3>3, GotBound
      <4> QED BY <1>6, <1>12, <2>2, <3>3, <4>1
    <3> QED BY <3>2, <3>3
  <2>4. Rank(n, o) = 5 * mpi_nodes + n
    BY <1>1, <1>14, RankOf
  <2>5. CASE b = L + n
    <3>1. q.do = "receive" /\ q.peer = n
      BY <1>1, <1>2, <1>9, <2>1, <2>5, AtReceive
    <3> QED BY <1>2, <1>8, <1>9, <3>1
  <2>6. CASE b > L /\ b < L + n
    <3>1. PICK m : m = b - L
      OBVIOUS
    <3>2. m \in Nodes \ {p} /\ b = L + m /\ m < n /\ m \in Nat /\ ~(b < L)
      BY <1>11, <2>1, <2>6, <3>1 DEF Nodes
    <3>3. q.do = "receive" /\ q.peer = m /\ q.what # "shuffle"
      BY <1>1, <1>2, <1>9, <2>1, <3>2, AtReceive
    <3>4. q.what = "result"
      BY <1>1, <1>2, <1>9, <3>3, ReceiveIs
    <3>5. Rank(p, q) = 5 * mpi_nodes + m
      BY <1>1, <1>2, <1>9, <3>3, <3>4, RankOf
    <3>6. Rank(p, q) < Rank(n, o)
      BY <1>11, <2>4, <3>2, <3>5
    <3> QED BY <1>2, <1>8, <3>6
  <2>7. CASE b = L
    <3>1. q.do = "reduce"
      BY <1>1, <1>2, <1>9, <2>7, PlaceIs
    <3> QED BY <1>2, <1>8, <1>9, <3>1
  <2>8. CASE b < L
    <3>1. Rank(p, q) < 5 * mpi_nodes /\ Rank(p, q) \in Nat
      BY <1>1, <1>2, <1>9, <2>8, RankOf
    <3>2. Rank(p, q) < Rank(n, o)
      BY <1>11, <2>4, <3>1
    <3> QED BY <1>2, <1>8, <3>2
  <2> QED BY <1>11, <2>3, <2>5, <2>6, <2>7, <2>8
<1> QED BY <1>2, <1>13, <1>14

\* A node for which there is no message waits for one that sends it now or does
\* something before, in the same call or an earlier one.
LEMMA ReceiverWaits ==
    ASSUME IInv, NEW n \in Nodes, Doing(n, "receive"), wire[Peer(n)][n] = <<>>,
           call[Peer(n)] >= call[n]
    PROVE  LET p == Peer(n) IN
           /\ p \in Nodes \ {n} /\ ~Done(p) /\ call[p] = call[n]
           /\ \/ Doing(p, "send") /\ Peer(p) = n
              \/ Doing(p, "reduce")
              \/ Rank(p, Operation(p, call[p], at[p])) < Rank(n, Operation(n, call[n], at[n]))
<1> DEFINE c == call[n]
           a == at[n]
           p == Peer(n)
           b == at[p]
           x == Len(inbox[n])
           o == Operation(n, c, a)
           q == Operation(p, c, b)
           L == LocalAt(Kind[c])
<1>1. /\ c \in 1 .. Calls /\ a \in 1 .. Size(n, Kind[c]) /\ x \in Nat /\ p = o.peer /\ o.do = "receive"
      /\ InboxIs(n, c, a, inbox[n]) /\ c <= Calls /\ c \in Nat \ {0}
  BY NodeNow, CallsType
<1>2. /\ p \in Nodes \ {n} /\ x < Count(n, o.what)
      /\ mpi_nodes > 1
      /\ \/ o.what = "shuffle" /\ Kind[c] = "GlobalH" /\ a < L /\ a = ReceiveAt(n, p)
         \/ o.what = "result" /\ n = 0 /\ a = L + p
  BY <1>1, ReceiveIs DEF InboxIs
<1>3. PICK part : part = Part(n, c, a, x + 1)
  OBVIOUS
<1>4. part.call = c /\ part.what = o.what
  BY <1>3 DEF Part
<1>5. /\ Valid(n, part) /\ Index(n, part) = GotBy(n, p, c, a, x) + 1
  BY <1>1, <1>2, <1>3, PartGot
<1>6. SentTo(p, n) < Index(n, part) /\ SentTo(p, n) \in Nat
  <2>1. WireIs(p, n, wire[p][n], SentTo(p, n), GotFrom(n, p))
    BY <1>2 DEF IInv
  <2>2. GotFrom(n, p) \in Nat /\ GotFrom(n, p) = GotBy(n, p, c, a, x)
    BY <1>1, <1>2, GotType DEF GotFrom
  <2>3. SentTo(p, n) = GotFrom(n, p)
    BY <2>1, <2>2 DEF WireIs
  <2> QED BY <1>5, <2>2, <2>3
<1>7. /\ call[p] \in Nat \ {0} /\ Number(sent[p], blocked[p]) \in Nat /\ (Done(p) <=> call[p] > Calls)
      /\ (~Done(p) => b \in 1 .. Size(p, Kind[call[p]]))
      /\ (~Done(p) => Peer(p) = Operation(p, call[p], b).peer)
      /\ \A do : Doing(p, do) <=> ~Done(p) /\ Operation(p, call[p], b).do = do
  BY <1>2, NodeNow, NodeType
<1>8. call[p] = c /\ ~Done(p)
  <2>1. Base(n, call[p]) <= SentTo(p, n) /\ Base(n, call[p]) \in Nat
    BY <1>2, <1>7, SentBound DEF SentTo
  <2>2. Index(n, part) \in Nat /\ (Base(n, call[p]) < Index(n, part) => call[p] <= part.call)
    BY <1>2, <1>5, <1>7, CallOfIndex
  <2>3. call[p] <= c
    BY <1>4, <1>6, <2>1, <2>2
  <2>4. call[p] = c
    BY <1>1, <1>7, <2>3
  <2> QED BY <1>1, <1>7, <2>4, CallsType
<1>9. /\ b \in 1 .. Size(p, Kind[c]) /\ Peer(p) = q.peer
      /\ \A do : Doing(p, do) <=> q.do = do
  BY <1>7, <1>8
<1>10. SentTo(p, n) = SentBy(p, n, c, b, Number(sent[p], blocked[p]))
  BY <1>8 DEF SentTo
<1>11. /\ L \in Nat /\ mpi_nodes \in Nat /\ n \in Nat /\ p \in Nat /\ b \in Nat /\ a \in Nat /\ p # n
       /\ n < mpi_nodes /\ p < mpi_nodes /\ Kind[c] \in Kinds
       /\ Kind[c] = "GlobalH" => L = 2 * (mpi_nodes - 1) + 1
       /\ SendAt(p, n) \in 1 .. 2 * (mpi_nodes - 1)
  <2>1. /\ mpi_nodes \in Nat /\ n \in Nat /\ p \in Nat /\ p # n /\ n < mpi_nodes /\ p < mpi_nodes
    BY <1>2, ExchangeAssumption DEF Nodes
  <2>2. b \in Nat /\ a \in Nat
    BY <1>1, <1>9
  <2>3. Kind[c] \in Kinds
    BY <1>1, CallsType
  <2>4. L \in Nat /\ (Kind[c] = "GlobalH" => L = 2 * (mpi_nodes - 1) + 1)
    BY <1>2, <2>1, <2>3, LocalAtIs
  <2>5. SendAt(p, n) \in 1 .. 2 * (mpi_nodes - 1)
    BY <1>2, TurnsApart
  <2> QED BY <2>1, <2>2, <2>3, <2>4, <2>5
<1>12. Base(n, c) \in Nat /\ Count(n, "shuffle") \in Nat /\ Index(n, part) \in Nat
  BY <1>1, <1>2, <1>5, BaseStep, CountType, CallOfIndex
<1>13. CASE o.what = "shuffle"
  <2>1. Kind[c] = "GlobalH" /\ a < L
    BY <1>2, <1>13
  <2>2. Index(n, part) <= Base(n, c) + Count(n, "shuffle")
    BY <1>2, <1>4, <1>5, <1>13, CallOfIndex
  <2>3. ~(b > SendAt(p, n))
    <3>1. SUFFICES ASSUME b > SendAt(p, n) PROVE FALSE
      OBVIOUS
    <3>2. SentTo(p, n) >= Base(n, c) + Count(n, "shuffle")
      BY <1>1, <1>2, <1>7, <1>10, <2>1, <3>1, SentBound
    <3> QED BY <1>6, <1>12, <2>2, <3>2
  <2>4. CASE b = SendAt(p, n)
    <3>1. b < L
      BY <1>11, <2>1, <2>4
    <3>2. q.do = "send" /\ q.peer = n
      BY <1>1, <1>2, <1>9, <2>1, <2>4, <3>1, AtSend
    <3> QED BY <1>2, <1>8, <1>9, <3>2
  <2>5. CASE b < SendAt(p, n)
    <3>1. PICK r : r = SendAt(p, n)
      OBVIOUS
    <3>2. r \in 1 .. Size(p, Kind[c]) /\ r < L /\ b < r
      <4>1. Size(p, Kind[c]) \in Nat /\ Size(p, Kind[c]) >= L
        BY <1>2, <1>11, SizeIs
      <4> QED BY <1>11, <2>1, <2>5, <3>1, <4>1
    <3>3. /\ Operation(p, c, r).do = "send" /\ Operation(p, c, r).peer = n
          /\ Operation(p, c, r).what = "shuffle"
      BY <1>1, <1>2, <2>1, <3>1, <3>2, AtSend
    <3>4. Rank(p, q) < Rank(p, Operation(p, c, r))
      BY <1>1, <1>2, <1>9, <2>1, <3>2, RankGrows
    <3>5. Rank(n, o) = Rank(p, Operation(p, c, r))
      BY <1>1, <1>11, <1>13, <3>3, RankShared
    <3> QED BY <1>2, <1>8, <3>4, <3>5
  <2> QED BY <1>11, <2>3, <2>4, <2>5
<1>14. CASE o.what = "result"
  <2>1. n = 0 /\ a = L + p /\ p > 0
    BY <1>2, <1>11, <1>14
  <2>2. Rank(n, o) = 5 * mpi_nodes + p
    BY <1>1, <1>14, RankOf
  <2>3. CASE b > L
    <3>2. p > 0 /\ n = 0 /\ b > LocalAt(Kind[c]) /\ n \in Nodes \ {p} /\ b \in 1 .. Size(p, Kind[c])
      BY <1>2, <1>9, <2>1, <2>3
    <3>3. p \in Nodes /\ n \in Nodes \ {p} /\ c \in 1 .. Calls /\ b \in 1 .. Size(p, Kind[c])
      BY <1>1, <1>2, <3>2
    <3>1. q.do = "send" /\ q.peer = 0
      BY <3>2, <3>3, AtResult
    <3> QED BY <1>2, <1>8, <1>9, <3>1, <3>2
  <2>4. CASE b = L
    <3>1. q.do = "reduce"
      BY <1>1, <1>2, <1>9, <2>4, PlaceIs
    <3> QED BY <1>2, <1>8, <1>9, <3>1
  <2>5. CASE b < L
    <3>1. Rank(p, q) < 5 * mpi_nodes /\ Rank(p, q) \in Nat
      BY <1>1, <1>2, <1>9, <2>5, RankOf
    <3>2. Rank(p, q) < Rank(n, o)
      BY <1>11, <2>2, <3>1
    <3> QED BY <1>2, <1>8, <3>2
  <2> QED BY <1>11, <2>3, <2>4, <2>5
<1> QED BY <1>2, <1>13, <1>14

-----------------------------------------------------------------------------
\* Of the nodes in the earliest call, one whose operation is the first in the order can go
\* on: a node it waits for would be before it.
LEMMA NoCircleHolds == ASSUME IInv PROVE NoCircle
<1>1. SUFFICES ASSUME NEW u \in Nodes, ~Done(u), \A n \in Nodes : ~CanStep(n) PROVE FALSE
  BY DEF NoCircle
<1>2. \A n \in Nodes : call[n] \in Nat /\ (Done(n) <=> call[n] > Calls)
  BY NodeNow
<1>3. PICK c \in {call[n] : n \in {m \in Nodes : ~Done(m)}} :
        \A d \in {call[n] : n \in {m \in Nodes : ~Done(m)}} : c <= d
  <2> DEFINE T == {call[n] : n \in {m \in Nodes : ~Done(m)}}
  <2>1. T \in SUBSET Nat /\ T # {}
    BY <1>1, <1>2
  <2> QED BY <2>1, Smallest
<1>4. c \in Nat /\ c <= Calls /\ \A n \in Nodes : call[n] >= c
  <2>1. c \in Nat /\ ~(c > Calls)
    BY <1>2, <1>3
  <2>2. ASSUME NEW n \in Nodes PROVE call[n] >= c
    <3>1. CASE Done(n)
      BY <1>2, <2>1, <3>1, CallsType
    <3>2. CASE ~Done(n)
      BY <1>2, <1>3, <2>1, <3>2
    <3> QED BY <3>1, <3>2
  <2> QED BY <2>1, <2>2, CallsType
<1> DEFINE Here == {n \in Nodes : ~Done(n) /\ call[n] = c}
           R(n) == Rank(n, Operation(n, call[n], at[n]))
<1>5. ASSUME NEW n \in Here
      PROVE  /\ n \in Nodes /\ ~Done(n) /\ call[n] = c /\ c \in 1 .. Calls /\ at[n] \in 1 .. Size(n, Kind[c])
             /\ R(n) \in Nat /\ ~CanStep(n)
  <2>1. n \in Nodes /\ ~Done(n) /\ call[n] = c
    OBVIOUS
  <2>2. c \in 1 .. Calls /\ at[n] \in 1 .. Size(n, Kind[c])
    BY <2>1, NodeNow
  <2>3. R(n) \in Nat
    BY <2>1, <2>2, RankOf
  <2> QED BY <1>1, <2>1, <2>2, <2>3
<1>6. PICK n \in Here : \A m \in Here : R(n) <= R(m)
  <2> DEFINE T == {R(m) : m \in Here}
  <2>1. T \in SUBSET Nat
    BY <1>5
  <2>2. T # {}
    BY <1>3
  <2>3. PICK r \in T : \A y \in T : r <= y
    BY <2>1, <2>2, Smallest
  <2> QED BY <2>3
<1>7. /\ n \in Nodes /\ ~Done(n) /\ call[n] = c /\ c \in 1 .. Calls /\ at[n] \in 1 .. Size(n, Kind[c])
      /\ R(n) \in Nat /\ ~CanStep(n)
  BY <1>5, <1>6
<1>8. /\ SendingIs(n, c, at[n], sent[n], blocked[n])
      /\ \A do : Doing(n, do) <=> Operation(n, c, at[n]).do = do
      /\ Operation(n, c, at[n]).do \in {"send", "receive", "barrier", "reduce", "combine"}
  BY <1>7, NodeNow, PlaceIs
\* The nodes that can always go on.
<1>9. ASSUME NEW m \in Here, Doing(m, "reduce") \/ Doing(m, "combine") PROVE FALSE
  <2>1. SendingIs(m, c, at[m], sent[m], blocked[m]) /\ Operation(m, c, at[m]).do \in {"reduce", "combine"}
    BY <1>5, <1>9, NodeNow
  <2>2. ~blocked[m] /\ ~Doing(m, "receive") /\ ~Doing(m, "barrier")
    BY <1>5, <2>1, NodeNow DEF SendingIs
  <2> QED BY <1>5, <2>2 DEF CanStep
<1>10. ASSUME NEW m \in Here, R(m) < R(n) PROVE FALSE
  BY <1>5, <1>6, <1>7, <1>10
<1>11. CASE Doing(n, "send")
  <2>1. ~Doing(n, "receive") /\ ~Doing(n, "barrier")
    BY <1>8, <1>11
  <2>2. blocked[n] /\ wire[n][Peer(n)] # <<>>
    BY <1>7, <2>1 DEF CanStep
  <2>3. Peer(n) \in Nodes
    BY <1>11, TransferMessages
  <2>4. call[Peer(n)] >= call[n]
    BY <1>4, <1>7, <2>3
  <2>5. PICK p : p = Peer(n)
    OBVIOUS
  <2>6. /\ p \in Nodes /\ ~Done(p) /\ call[p] = call[n]
        /\ (Doing(p, "receive") /\ Peer(p) = n) \/ Doing(p, "reduce") \/ R(p) < R(n)
    BY <1>7, <1>11, <2>2, <2>4, <2>5, SenderWaits
  <2>7. p \in Here
    BY <1>7, <2>6
  <2>8. CASE Doing(p, "receive") /\ Peer(p) = n
    <3>1. SendingIs(p, c, at[p], sent[p], blocked[p]) /\ Operation(p, c, at[p]).do = "receive"
      BY <1>5, <2>7, <2>8, NodeNow
    <3>2. ~blocked[p]
      BY <3>1 DEF SendingIs
    <3>3. wire[Peer(p)][p] # <<>>
      BY <2>2, <2>5, <2>8
    <3>4. ~Doing(p, "barrier")
      BY <1>5, <2>7, <3>1, NodeNow
    <3> QED BY <1>5, <2>7, <2>8, <3>2, <3>3, <3>4 DEF CanStep
  <2> QED BY <1>9, <1>10, <2>6, <2>7, <2>8
<1>12. CASE Doing(n, "receive")
  <2>1. ~blocked[n]
    BY <1>8, <1>12 DEF SendingIs
  <2>2. wire[Peer(n)][n] = <<>>
    BY <1>7, <1>8, <1>12, <2>1 DEF CanStep
  <2>3. Peer(n) \in Nodes
    <3>1. Operation(n, c, at[n]).do = "receive" /\ Peer(n) = Operation(n, c, at[n]).peer
      BY <1>7, <1>12, NodeNow
    <3> QED BY <1>7, <3>1, ReceiveIs
  <2>4. call[Peer(n)] >= call[n]
    BY <1>4, <1>7, <2>3
  <2>5. PICK p : p = Peer(n)
    OBVIOUS
  <2>6. /\ p \in Nodes /\ ~Done(p) /\ call[p] = call[n]
        /\ (Doing(p, "send") /\ Peer(p) = n) \/ Doing(p, "reduce") \/ R(p) < R(n)
    BY <1>7, <1>12, <2>2, <2>4, <2>5, ReceiverWaits
  <2>7. p \in Here
    BY <1>7, <2>6
  <2>8. CASE Doing(p, "send") /\ Peer(p) = n
    <3>1. wire[p][Peer(p)] = <<>>
      BY <2>2, <2>5, <2>8
    <3>2. ~Doing(p, "receive") /\ ~Doing(p, "barrier")
      BY <1>5, <2>7, <2>8, NodeNow
    <3> QED BY <1>5, <2>7, <3>1, <3>2 DEF CanStep
  <2> QED BY <1>9, <1>10, <2>6, <2>7, <2>8
<1>13. CASE Doing(n, "barrier")
  <2>1. ~blocked[n] /\ ~Doing(n, "receive")
    BY <1>8, <1>13 DEF SendingIs
  <2>2. ~(barrier[n] < call[n]) /\ ~(\A m \in Nodes : barrier[m] >= call[n])
    BY <1>7, <1>13, <2>1 DEF CanStep
  <2>3. PICK m \in Nodes : ~(barrier[m] >= c)
    BY <1>7, <2>2
  <2>4. /\ BarrierIs(m, call[m], at[m], barrier[m]) /\ call[m] \in Nat /\ call[m] >= c
        /\ barrier[m] \in Nat /\ at[m] \in Nat \ {0}
    <3>1. BarrierIs(m, call[m], at[m], barrier[m]) /\ call[m] \in Nat /\ Position(m, call[m], at[m])
      BY NodeNow
    <3>2. barrier[m] \in Nat
      BY <3>1, CallsType DEF BarrierIs
    <3> QED BY <1>4, <3>1, <3>2 DEF Position
  <2>5. Kind[c] = "LocalH" /\ mpi_nodes > 1 /\ LocalAt(Kind[c]) = 2
    BY <1>7, <1>8, <1>13, OthersIs
  <2>6. ~(c < call[m] \/ (c = call[m] /\ at[m] > 1))
    BY <1>7, <1>4, <2>3, <2>4, <2>5 DEF BarrierIs
  <2>7. call[m] = c /\ at[m] = 1
    BY <1>4, <2>4, <2>6
  <2>8. m \in Here
    BY <1>2, <1>4, <2>7, CallsType
  <2>9. Operation(m, c, at[m]).do = "barrier"
    <3>1. /\ Operation(m, c, at[m]).do \in {"send", "receive", "barrier"}
          /\ Operation(m, c, at[m]).do \in {"send", "receive"} => Operation(m, c, at[m]).what = "shuffle"
      BY <1>5, <2>5, <2>7, <2>8, PlaceIs
    <3>2. Operation(m, c, at[m]).do # "send"
      BY <1>5, <2>5, <2>8, <3>1, SendIs
    <3>3. Operation(m, c, at[m]).do # "receive"
      BY <1>5, <2>5, <2>8, <3>1, ReceiveIs
    <3> QED BY <3>1, <3>2, <3>3
  <2>10. SendingIs(m, c, at[m], sent[m], blocked[m]) /\ Doing(m, "barrier") /\ ~Doing(m, "receive")
    BY <1>5, <2>8, <2>9, NodeNow
  <2>11. ~blocked[m]
    BY <2>9, <2>10 DEF SendingIs
  <2>12. barrier[m] < call[m]
    BY <1>4, <2>3, <2>4, <2>7
  <2> QED BY <1>5, <2>8, <2>10, <2>11, <2>12 DEF CanStep
<1> QED BY <1>6, <1>8, <1>9, <1>11, <1>12, <1>13

(***************************************************************************)
(* The nodes never wait for each other in a circle, also if MPI buffers    *)
(* nothing: until all calls have returned, some node can go on.            *)
(***************************************************************************)
THEOREM NoCircleCorrect == Spec => []NoCircle
BY Invariance, NoCircleHolds, PTL

=============================================================================
