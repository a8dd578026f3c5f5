---------------------------- MODULE StreamLemmas ----------------------------
(***************************************************************************)
(* What a push and a pop do to a queue of FIFO streams, one for each       *)
(* member of P, as the queues of the patterns are: a push appends to the   *)
(* stream of the caller, a pop takes the head of any stream.  Before that, *)
(* what any sequences of sequences flatten to, and finite sets of numbers  *)
(* as sequences.                                                           *)
(***************************************************************************)
EXTENDS Integers, SequencesExt, SequenceTheorems, FiniteSetTheorems, WellFoundedInduction, TLAPS

-----------------------------------------------------------------------------
(* Sequences of sequences.                                                 *)

\* A set of numbers has a smallest one.
LEMMA Smallest ==
    ASSUME NEW T \in SUBSET Nat, T # {}
    PROVE  \E n \in T : \A m \in T : n <= m
<1>1. IsWellFoundedOn({ss \in Nat \X Nat : ss[1] < ss[2]}, Nat)
  BY NatLessThanWellFounded DEF OpToRel
<1>2. PICK n \in T : \A m \in T : ~(<<m, n>> \in {ss \in Nat \X Nat : ss[1] < ss[2]})
  BY <1>1, WFMin
<1>3. ASSUME NEW m \in T, m < n PROVE FALSE
  <2>1. <<m, n>> \in {ss \in Nat \X Nat : ss[1] < ss[2]}
    BY <1>3
  <2> QED BY <1>2, <2>1
<1> QED BY <1>3

\* A set of numbers with the predecessor of each is empty.
LEMMA Descent ==
    ASSUME NEW T \in SUBSET Nat, \A n \in T : n - 1 \in T
    PROVE  T = {}
<1>1. ASSUME NEW n \in T, \A m \in T : n <= m PROVE FALSE
  <2>1. n - 1 \in T /\ n \in Nat
    BY <1>1
  <2> QED BY <1>1, <2>1
<1> QED BY <1>1, Smallest

\* What the recursive function of FlattenSeq computes.
Flattens(s, n, f) == f = [i \in 1 .. n |-> IF i = 1 THEN s[i] ELSE f[i - 1] \o s[i]]

\* There is such a function.
LEMMA FlattensExists ==
    ASSUME NEW S, NEW s \in Seq(Seq(S))
    PROVE  \A n \in 0 .. Len(s) : \E f \in [1 .. n -> Seq(S)] : Flattens(s, n, f)
<1> DEFINE T == {n \in Nat : n <= Len(s) /\ ~\E f \in [1 .. n -> Seq(S)] : Flattens(s, n, f)}
<1>0. Len(s) \in Nat /\ \A i \in 1 .. Len(s) : s[i] \in Seq(S)
  BY ElementOfSeq, LenProperties
<1>1. ASSUME NEW n \in T PROVE n - 1 \in T
  <2>0. n \in Nat /\ n <= Len(s) /\ ~\E f \in [1 .. n -> Seq(S)] : Flattens(s, n, f)
    OBVIOUS
  <2>1. CASE n = 0
    <3>1. <<>> \in [1 .. 0 -> Seq(S)] /\ Flattens(s, 0, <<>>)
      BY DEF Flattens
    <3> QED BY <2>0, <2>1, <3>1
  <2>2. CASE n # 0
    <3>1. n - 1 \in Nat /\ n - 1 <= Len(s) /\ n \in 1 .. Len(s)
      BY <1>0, <2>0, <2>2
    <3> SUFFICES ASSUME n - 1 \notin T PROVE FALSE
      OBVIOUS
    <3>2. PICK f \in [1 .. n - 1 -> Seq(S)] : Flattens(s, n - 1, f)
      BY <3>1
    <3> DEFINE g == [i \in 1 .. n |-> IF i < n THEN f[i] ELSE IF n = 1 THEN s[n] ELSE f[n - 1] \o s[n]]
    <3>3. \A i \in 1 .. n - 1 : f[i] = IF i = 1 THEN s[i] ELSE f[i - 1] \o s[i]
      BY <3>2, <3>1 DEF Flattens
    <3>4. \A i \in 1 .. n : g[i] \in Seq(S)
      <4> SUFFICES ASSUME NEW i \in 1 .. n PROVE g[i] \in Seq(S)
        OBVIOUS
      <4>1. CASE i < n
        BY <4>1, <3>1, <3>2
      <4>2. CASE i = n /\ n = 1
        BY <4>2, <1>0, <3>1
      <4>3. CASE i = n /\ n # 1
        <5>1. n - 1 \in 1 .. n - 1 /\ s[n] \in Seq(S)
          BY <1>0, <3>1, <4>3
        <5>2. f[n - 1] \o s[n] \in Seq(S)
          BY <5>1, <3>2, ConcatProperties
        <5> QED BY <4>3, <5>2
      <4> QED BY <4>1, <4>2, <4>3, <3>1
    <3>5. \A i \in 1 .. n : g[i] = IF i = 1 THEN s[i] ELSE g[i - 1] \o s[i]
      <4> SUFFICES ASSUME NEW i \in 1 .. n PROVE g[i] = IF i = 1 THEN s[i] ELSE g[i - 1] \o s[i]
        OBVIOUS
      <4>1. i # 1 => g[i - 1] = f[i - 1]
        BY <3>1
      <4>2. CASE i < n
        <5>1. i \in 1 .. n - 1 /\ g[i] = f[i]
          BY <3>1, <4>2
        <5> HIDE DEF g
        <5> QED BY <4>1, <5>1, <3>3
      <4>3. CASE i = n
        BY <4>1, <4>3, <3>1
      <4> QED BY <4>2, <4>3, <3>1
    <3>6. g \in [1 .. n -> Seq(S)] /\ Flattens(s, n, g)
      BY <3>4, <3>5 DEF Flattens
    <3> HIDE DEF g
    <3> QED BY <2>0, <3>6
  <2> QED BY <2>1, <2>2
<1>2. T = {}
  <2> HIDE DEF T
  <2>1. T \in SUBSET Nat
    BY DEF T
  <2> QED BY <1>1, <2>1, Descent
<1> SUFFICES ASSUME NEW n \in 0 .. Len(s) PROVE \E f \in [1 .. n -> Seq(S)] : Flattens(s, n, f)
  OBVIOUS
<1>3. n \in Nat /\ n <= Len(s)
  BY <1>0
<1>4. n \notin T
  <2> HIDE DEF T
  <2> QED BY <1>2
<1> QED BY <1>3, <1>4

\* And no other.
LEMMA FlattensUnique ==
    ASSUME NEW s, NEW n \in Nat, NEW f, NEW g, Flattens(s, n, f), Flattens(s, n, g)
    PROVE  f = g
<1> DEFINE T == {i \in 1 .. n : f[i] # g[i]}
<1>1. ASSUME NEW i \in T PROVE i - 1 \in T
  <2>1. i \in 1 .. n /\ f[i] # g[i]
    OBVIOUS
  <2>2. /\ f[i] = IF i = 1 THEN s[i] ELSE f[i - 1] \o s[i]
        /\ g[i] = IF i = 1 THEN s[i] ELSE g[i - 1] \o s[i]
    BY <2>1 DEF Flattens
  <2>3. i # 1 /\ f[i - 1] # g[i - 1]
    BY <2>1, <2>2
  <2> QED BY <2>1, <2>3
<1>2. T = {}
  <2> HIDE DEF T
  <2>1. T \in SUBSET Nat
    BY DEF T
  <2> QED BY <1>1, <2>1, Descent
<1>3. f = [i \in 1 .. n |-> f[i]] /\ g = [i \in 1 .. n |-> g[i]]
  BY DEF Flattens
<1> QED BY <1>2, <1>3

\* FlattenSeq is the last value of that function.
LEMMA FlattenIs ==
    ASSUME NEW S, NEW s \in Seq(Seq(S)), Len(s) # 0,
           NEW f \in [1 .. Len(s) -> Seq(S)], Flattens(s, Len(s), f)
    PROVE  FlattenSeq(s) = f[Len(s)]
<1> DEFINE h == CHOOSE g : g = [i \in 1 .. Len(s) |-> IF i = 1 THEN s[i] ELSE g[i - 1] \o s[i]]
<1>1. h = [i \in 1 .. Len(s) |-> IF i = 1 THEN s[i] ELSE h[i - 1] \o s[i]]
  BY DEF Flattens
<1>2. h = f
  <2>1. Flattens(s, Len(s), h)
    BY <1>1 DEF Flattens
  <2> HIDE DEF h
  <2>2. Len(s) \in Nat
    BY LenProperties
  <2> QED BY <2>1, <2>2, FlattensUnique
<1>3. FlattenSeq(s) = h[Len(s)]
  BY DEF FlattenSeq
<1> QED BY <1>2, <1>3

\* Nothing flattens to nothing.
LEMMA FlattenEmpty == FlattenSeq(<<>>) = <<>>
BY DEF FlattenSeq

\* Flattening goes on at the end.
LEMMA FlattenAppend ==
    ASSUME NEW S, NEW s \in Seq(Seq(S)), NEW x \in Seq(S)
    PROVE  FlattenSeq(s) \in Seq(S) /\ FlattenSeq(Append(s, x)) = FlattenSeq(s) \o x
<1> DEFINE n == Len(s)
           t == Append(s, x)
<1>1. n \in Nat
  BY LenProperties
<1>2. t \in Seq(Seq(S)) /\ Len(t) = n + 1 /\ t[n + 1] = x /\ \A i \in 1 .. n : t[i] = s[i]
  BY AppendProperties
<1> HIDE DEF t
<1>3. PICK g \in [1 .. n + 1 -> Seq(S)] : Flattens(t, n + 1, g)
  <2>1. n + 1 \in 0 .. Len(t)
    BY <1>1, <1>2
  <2> QED BY <1>2, <2>1, FlattensExists
<1>4. FlattenSeq(t) = g[n + 1]
  BY <1>1, <1>2, <1>3, FlattenIs
<1>5. \A i \in 1 .. n + 1 : g[i] = IF i = 1 THEN t[i] ELSE g[i - 1] \o t[i]
  BY <1>3 DEF Flattens
<1>6. CASE n = 0
  <2>1. s = <<>>
    BY <1>6, EmptySeq
  <2>2. g[1] = x
    <3>1. 1 \in 1 .. n + 1 /\ t[1] = x
      BY <1>2, <1>6
    <3> QED BY <1>5, <3>1
  <2>3. FlattenSeq(t) = x /\ FlattenSeq(s) = <<>>
    BY <1>4, <1>6, <2>1, <2>2, FlattenEmpty
  <2>4. <<>> \in Seq(S) /\ <<>> \o x = x
    BY EmptySeq, ConcatEmptySeq
  <2> QED BY <2>3, <2>4 DEF t
<1>7. CASE n # 0
  <2> DEFINE f == [i \in 1 .. n |-> g[i]]
  <2>1. f \in [1 .. n -> Seq(S)]
    BY <1>1, <1>3
  <2>2. \A i \in 1 .. n : f[i] = IF i = 1 THEN s[i] ELSE f[i - 1] \o s[i]
    <3> SUFFICES ASSUME NEW i \in 1 .. n PROVE f[i] = IF i = 1 THEN s[i] ELSE f[i - 1] \o s[i]
      OBVIOUS
    <3>1. i \in 1 .. n + 1 /\ t[i] = s[i] /\ (i # 1 => i - 1 \in 1 .. n)
      BY <1>1, <1>2
    <3>2. f[i] = g[i] /\ (i # 1 => f[i - 1] = g[i - 1])
      BY <3>1
    <3> HIDE DEF f
    <3> QED BY <1>5, <3>1, <3>2
  <2>3. Flattens(s, n, f)
    BY <2>2 DEF Flattens
  <2>4. f[n] = g[n] /\ n \in 1 .. n
    BY <1>1, <1>7
  <2> HIDE DEF f
  <2>5. FlattenSeq(s) = g[n]
    BY <1>7, <2>1, <2>3, <2>4, FlattenIs
  <2>6. g[n + 1] = g[n] \o x
    <3>1. n + 1 \in 1 .. n + 1 /\ n + 1 # 1 /\ n + 1 - 1 = n
      BY <1>1, <1>7
    <3> HIDE DEF n
    <3>2. \A k \in 1 .. n + 1 : k # 1 => g[k] = g[k - 1] \o t[k]
      BY <1>5
    <3>3. PICK k \in 1 .. n + 1 : k = n + 1 /\ k # 1 /\ k - 1 = n
      BY <1>1, <3>1
    <3> QED BY <1>2, <3>2, <3>3
  <2>7. g[n] \in Seq(S)
    BY <2>1, <2>4
  <2> QED BY <1>4, <2>5, <2>6, <2>7 DEF t
<1> QED BY <1>6, <1>7

\* A single sequence flattens to itself.
LEMMA FlattenOne ==
    ASSUME NEW S, NEW x \in Seq(S)
    PROVE  FlattenSeq(<<x>>) = x
<1>1. <<>> \in Seq(Seq(S)) /\ Append(<<>>, x) = <<x>>
  BY EmptySeq
<1>2. FlattenSeq(<<x>>) = <<>> \o x
  BY <1>1, FlattenAppend, FlattenEmpty
<1> QED BY <1>2, ConcatEmptySeq

\* Flattening the parts of a sequence flattens the whole.
LEMMA FlattenConcatStep ==
    ASSUME NEW S, NEW a \in Seq(Seq(S)), NEW d \in Seq(Seq(S)), NEW x \in Seq(S),
           FlattenSeq(a \o d) = FlattenSeq(a) \o FlattenSeq(d)
    PROVE  FlattenSeq(a \o Append(d, x)) = FlattenSeq(a) \o FlattenSeq(Append(d, x))
<1>1. a \o Append(d, x) = Append(a \o d, x) /\ a \o d \in Seq(Seq(S))
  <2>1. <<x>> \in Seq(Seq(S)) /\ a \o d \in Seq(Seq(S))
    BY ConcatProperties
  <2>2. Append(d, x) = d \o <<x>> /\ Append(a \o d, x) = (a \o d) \o <<x>>
    BY <2>1, AppendIsConcat
  <2>3. (a \o d) \o <<x>> = a \o (d \o <<x>>)
    BY <2>1, ConcatAssociative
  <2> QED BY <2>1, <2>2, <2>3
<1>2. FlattenSeq(Append(a \o d, x)) = FlattenSeq(a \o d) \o x
  BY <1>1, FlattenAppend
<1>3. /\ FlattenSeq(Append(d, x)) = FlattenSeq(d) \o x
      /\ FlattenSeq(d) \in Seq(S) /\ FlattenSeq(a) \in Seq(S)
  BY FlattenAppend
<1>4. (FlattenSeq(a) \o FlattenSeq(d)) \o x = FlattenSeq(a) \o (FlattenSeq(d) \o x)
  BY <1>3, ConcatAssociative
<1> QED BY <1>1, <1>2, <1>3, <1>4

\* The whole is flattened by flattening two parts of it.
LEMMA FlattenConcat ==
    ASSUME NEW S, NEW a \in Seq(Seq(S)), NEW b \in Seq(Seq(S))
    PROVE  FlattenSeq(a \o b) = FlattenSeq(a) \o FlattenSeq(b)
<1> DEFINE T == {n \in Nat : \E c \in Seq(Seq(S)) :
                    Len(c) = n /\ FlattenSeq(a \o c) # FlattenSeq(a) \o FlattenSeq(c)}
<1>1. ASSUME NEW n \in T PROVE n - 1 \in T
  <2>1. PICK c \in Seq(Seq(S)) :
            Len(c) = n /\ FlattenSeq(a \o c) # FlattenSeq(a) \o FlattenSeq(c)
    BY <1>1
  <2> HIDE DEF T
  <2>2. c # <<>>
    <3>1. FlattenSeq(a) \in Seq(S)
      BY FlattenAppend, EmptySeq
    <3>2. FlattenSeq(a \o <<>>) = FlattenSeq(a) \o FlattenSeq(<<>>)
      BY <3>1, FlattenEmpty, ConcatEmptySeq
    <3> QED BY <2>1, <3>2
  <2>3. PICK d \in Seq(Seq(S)), x \in Seq(S) : c = Append(d, x)
    BY <2>1, <2>2, SequenceEmptyOrAppend
  <2>4. Len(d) \in Nat /\ Len(d) = n - 1
    BY <2>1, <2>3, AppendProperties, LenProperties
  <2>5. FlattenSeq(a \o d) # FlattenSeq(a) \o FlattenSeq(d)
    BY <2>1, <2>3, FlattenConcatStep
  <2> QED BY <2>3, <2>4, <2>5 DEF T
<1>2. T = {}
  <2> HIDE DEF T
  <2>1. T \in SUBSET Nat
    BY DEF T
  <2> QED BY <1>1, <2>1, Descent
<1>3. Len(b) \in Nat
  BY LenProperties
<1> QED BY <1>2, <1>3
-----------------------------------------------------------------------------
(* Finite sets of numbers.                                                 *)

\* A finite set of numbers has a largest one.
LEMMA Largest ==
    ASSUME NEW S \in SUBSET Nat, IsFiniteSet(S), S # {}
    PROVE  \E x \in S : \A y \in S : y <= x
<1> DEFINE T == {n \in Nat : \E U \in SUBSET S : U # {} /\ Cardinality(U) = n /\ ~\E x \in U : \A y \in U : y <= x}
<1>1. ASSUME NEW n \in T PROVE n - 1 \in T
  <2>1. PICK U \in SUBSET S : U # {} /\ Cardinality(U) = n /\ ~\E x \in U : \A y \in U : y <= x
    BY <1>1
  <2> HIDE DEF T
  <2>2. PICK x \in U : TRUE
    BY <2>1
  <2>3. IsFiniteSet(U) /\ \A y \in U : y \in Nat
    BY FS_Subset
  <2>4. Cardinality(U \ {x}) = n - 1 /\ Cardinality(U \ {x}) \in Nat
    BY <2>1, <2>3, FS_RemoveElement, FS_CardinalityType
  <2>5. U \ {x} # {}
    <3>1. ASSUME U \ {x} = {} PROVE \A y \in U : y <= x
      BY <2>3, <3>1
    <3> QED BY <2>1, <3>1
  <2>6. ASSUME NEW y \in U \ {x}, \A z \in U \ {x} : z <= y PROVE FALSE
    <3>1. CASE x <= y
      <4>1. \A z \in U : z <= y
        BY <2>6, <3>1
      <4> QED BY <2>1, <4>1
    <3>2. CASE ~(x <= y)
      <4>1. \A z \in U : z <= x
        BY <2>3, <2>6, <3>2
      <4> QED BY <2>1, <4>1
    <3> QED BY <3>1, <3>2
  <2> QED BY <2>4, <2>5, <2>6 DEF T
<1>2. T = {}
  <2> HIDE DEF T
  <2>1. T \in SUBSET Nat
    BY DEF T
  <2> QED BY <1>1, <2>1, Descent
<1>3. Cardinality(S) \in Nat
  BY FS_CardinalityType
<1> QED BY <1>2, <1>3

\* The numbers of a set in ascending order.
Enumerates(S, s) ==
    /\ s \in [1 .. Cardinality(S) -> S]
    /\ \A i, j \in 1 .. Cardinality(S) : i < j => s[i] < s[j]

\* One more number at the end.
LEMMA EnumeratesStep ==
    ASSUME NEW S \in SUBSET Nat, IsFiniteSet(S), NEW x \in S, \A y \in S : y <= x,
           NEW s, Enumerates(S \ {x}, s)
    PROVE  \E t : Enumerates(S, t)
<1> DEFINE n == Cardinality(S)
           t == [i \in 1 .. n |-> IF i = n THEN x ELSE s[i]]
<1>1. n \in Nat /\ Cardinality(S \ {x}) = n - 1
  BY FS_CardinalityType, FS_RemoveElement
<1>2. s \in [1 .. n - 1 -> S \ {x}] /\ \A i, j \in 1 .. n - 1 : i < j => s[i] < s[j]
  BY <1>1 DEF Enumerates
<1> HIDE DEF n
<1>3. \A y \in S : y \in Nat
  OBVIOUS
<1>4. \A i \in 1 .. n : i # n => i \in 1 .. n - 1 /\ s[i] \in S /\ s[i] < x
  <2> SUFFICES ASSUME NEW i \in 1 .. n, i # n PROVE i \in 1 .. n - 1 /\ s[i] \in S /\ s[i] < x
    OBVIOUS
  <2>1. i \in 1 .. n - 1
    BY <1>1
  <2>2. s[i] \in S /\ s[i] # x
    BY <1>2, <2>1
  <2>3. s[i] <= x /\ s[i] \in Nat /\ x \in Nat
    BY <1>3, <2>2
  <2> QED BY <2>1, <2>2, <2>3
<1>5. t \in [1 .. n -> S]
  BY <1>4
<1>6. ASSUME NEW i \in 1 .. n, NEW j \in 1 .. n, i < j PROVE t[i] < t[j]
  <2>1. i # n /\ t[i] = s[i]
    BY <1>1, <1>6
  <2>2. CASE j = n
    BY <1>4, <2>1, <2>2
  <2>3. CASE j # n
    <3>1. t[j] = s[j] /\ i \in 1 .. n - 1 /\ j \in 1 .. n - 1
      BY <1>4, <2>1, <2>3
    <3> HIDE DEF t
    <3> QED BY <1>2, <1>6, <2>1, <3>1
  <2> QED BY <2>2, <2>3
<1> HIDE DEF t
<1> QED BY <1>5, <1>6 DEF Enumerates, n

\* Every finite set of numbers can be put in order.
LEMMA EnumeratesExists == ASSUME NEW S \in SUBSET Nat, IsFiniteSet(S) PROVE \E s : Enumerates(S, s)
<1> DEFINE T == {n \in Nat : \E U \in SUBSET S : Cardinality(U) = n /\ ~\E s : Enumerates(U, s)}
<1>1. ASSUME NEW n \in T PROVE n - 1 \in T
  <2>1. PICK U \in SUBSET S : Cardinality(U) = n /\ ~\E s : Enumerates(U, s)
    BY <1>1
  <2> HIDE DEF T
  <2>2. U # {}
    <3>1. Cardinality({}) = 0 /\ 1 .. 0 = {}
      BY FS_EmptySet
    <3>2. Enumerates({}, <<>>)
      BY <3>1 DEF Enumerates
    <3> QED BY <2>1, <3>2
  <2>3. IsFiniteSet(U) /\ U \in SUBSET Nat /\ Cardinality(U) \in Nat
    BY FS_Subset, FS_CardinalityType
  <2>4. PICK x \in U : \A y \in U : y <= x
    BY <2>2, <2>3, Largest
  <2>5. U \ {x} \in SUBSET S /\ Cardinality(U \ {x}) = n - 1 /\ Cardinality(U \ {x}) \in Nat
    BY <2>1, <2>3, <2>4, FS_RemoveElement, FS_CardinalityType
  <2>6. ~\E s : Enumerates(U \ {x}, s)
    BY <2>1, <2>3, <2>4, EnumeratesStep
  <2> QED BY <2>5, <2>6 DEF T
<1>2. T = {}
  <2> HIDE DEF T
  <2>1. T \in SUBSET Nat
    BY DEF T
  <2> QED BY <1>1, <2>1, Descent
<1>3. Cardinality(S) \in Nat
  BY FS_CardinalityType
<1> QED BY <1>2, <1>3

\* A sequence in order has every element of the set once.
LEMMA EnumeratesIs ==
    ASSUME NEW S \in SUBSET Nat, IsFiniteSet(S), NEW s, Enumerates(S, s)
    PROVE  /\ s \in Seq(S) /\ Len(s) = Cardinality(S) /\ Cardinality(S) \in Nat
           /\ \A i \in 1 .. Cardinality(S) : s[i] \in S
           /\ \A i, j \in 1 .. Cardinality(S) : s[i] = s[j] => i = j
           /\ \A k \in S : \E i \in 1 .. Cardinality(S) : s[i] = k
<1> DEFINE n == Cardinality(S)
<1>1. n \in Nat
  BY FS_CardinalityType
<1>3. s \in [1 .. n -> S] /\ \A i, j \in 1 .. n : i < j => s[i] < s[j]
  BY DEF Enumerates
<1> HIDE DEF n
<1>4. \A i \in 1 .. n : s[i] \in S /\ s[i] \in Nat
  BY <1>3
<1>5. s \in Seq(S) /\ Len(s) = n
  <2>1. s = [i \in 1 .. n |-> s[i]]
    BY <1>3
  <2> QED BY <1>1, <1>4, <2>1, IsASeq
<1>6. \A i, j \in 1 .. n : s[i] = s[j] => i = j
  <2> SUFFICES ASSUME NEW i \in 1 .. n, NEW j \in 1 .. n, i # j PROVE s[i] # s[j]
    OBVIOUS
  <2>1. i < j \/ j < i
    BY <1>1
  <2>2. s[i] < s[j] \/ s[j] < s[i]
    BY <1>3, <2>1
  <2> QED BY <1>4, <2>2
<1>7. \A k \in S : \E i \in 1 .. n : s[i] = k
  <2>1. s \in Injection(1 .. n, S)
    BY <1>3, <1>6 DEF Injection, IsInjective
  <2>2. Cardinality(1 .. n) = Cardinality(S)
    <3>1. Cardinality(1 .. n) = n
      BY <1>1, FS_Interval
    <3> QED BY <3>1 DEF n
  <2>3. s \in Surjection(1 .. n, S)
    BY <1>1, <2>1, <2>2, FS_Injection
  <2> QED BY <2>3 DEF Surjection
<1> QED BY <1>1, <1>4, <1>5, <1>6, <1>7 DEF n

-----------------------------------------------------------------------------
(* Streams.                                                                *)

\* Queue q after a push of v on stream c, and after a pop from stream c.
PushOn(q, c, v) == [q EXCEPT ![c] = Append(@, v)]

PopOf(q, c) == [q EXCEPT ![c] = Tail(@)]

\* Value x is somewhere in queue q.
Holds(q, P, x) == \E c \in P : \E i \in 1 .. Len(q[c]) : q[c][i] = x

\* No value is at two places.
Once(q, P) ==
    \A c, d \in P : \A m \in 1 .. Len(q[c]), n \in 1 .. Len(q[d]) :
        q[c][m] = q[d][n] => c = d /\ m = n

\* A value is in its owner's stream.
Belongs(q, P, owner) == \A c \in P : \A m \in 1 .. Len(q[c]) : owner[q[c][m]] = c

\* A value is behind the one it depends on, if both are in one stream.
Ordered(q, P, dep) ==
    \A c \in P : \A m, n \in 1 .. Len(q[c]) : dep[q[c][m]] = q[c][n] => n < m

\* Every value is at one place at most, in its owner's stream.
Apart(q, P, owner) == Once(q, P) /\ Belongs(q, P, owner)

\* What the queue of a pattern keeps, whose callers chain only their own calls.
InOrder(q, P, owner, dep) == Apart(q, P, owner) /\ Ordered(q, P, dep)

\* Read from the end, two streams agree as far as both go.
SameEnd(a, b) ==
    \A k \in Nat : k < Len(a) /\ k < Len(b) => a[Len(a) - k] = b[Len(b) - k]

-----------------------------------------------------------------------------
\* Queue r has value v at the end of stream c, and is as q otherwise.
Grown(q, r, P, V, c, v) ==
    /\ r \in [P -> Seq(V)]
    /\ \A d \in P : d # c => r[d] = q[d]
    /\ Len(q[c]) \in Nat /\ Len(r[c]) = Len(q[c]) + 1 /\ r[c][Len(r[c])] = v
    /\ \A i \in 1 .. Len(q[c]) : r[c][i] = q[c][i]
    /\ \A d \in P : \A m \in 1 .. Len(r[d]) :
         \/ m \in 1 .. Len(q[d]) /\ r[d][m] = q[d][m]
         \/ d = c /\ m = Len(q[c]) + 1 /\ r[d][m] = v

\* A push puts the value at the end of one stream and leaves all else.
LEMMA PushPlaces ==
    ASSUME NEW P, NEW V, NEW q \in [P -> Seq(V)], NEW c \in P, NEW v \in V,
           NEW r, r = PushOn(q, c, v)
    PROVE  Grown(q, r, P, V, c, v)
<1>1. q[c] \in Seq(V) /\ r[c] = Append(q[c], v) /\ \A d \in P : d # c => r[d] = q[d]
  BY DEF PushOn
<1>2. /\ Len(q[c]) \in Nat
      /\ r[c] \in Seq(V)
      /\ Len(r[c]) = Len(q[c]) + 1
      /\ \A i \in 1 .. Len(q[c]) : r[c][i] = q[c][i]
      /\ r[c][Len(q[c]) + 1] = v
  BY <1>1, AppendProperties, LenProperties
<1>3. r \in [P -> Seq(V)]
  BY <1>2 DEF PushOn
<1>4. ASSUME NEW d \in P, NEW m \in 1 .. Len(r[d])
      PROVE  \/ m \in 1 .. Len(q[d]) /\ r[d][m] = q[d][m]
             \/ d = c /\ m = Len(q[c]) + 1 /\ r[d][m] = v
  <2>1. CASE d = c
    <3>1. m \in 1 .. Len(q[c]) \/ m = Len(q[c]) + 1
      BY <1>2, <2>1
    <3> QED BY <1>2, <2>1, <3>1
  <2>2. CASE d # c
    BY <1>1, <2>2
  <2> QED BY <2>1, <2>2
<1> QED BY <1>1, <1>2, <1>3, <1>4 DEF Grown

\* The value joins those the queue holds.
LEMMA PushHolds ==
    ASSUME NEW P, NEW V, NEW q \in [P -> Seq(V)], NEW c \in P, NEW v \in V,
           NEW r, r = PushOn(q, c, v)
    PROVE  \A x : Holds(r, P, x) <=> Holds(q, P, x) \/ x = v
<1> Grown(q, r, P, V, c, v)
  BY PushPlaces
<1> USE DEF Grown
<1>1. ASSUME NEW x, Holds(r, P, x) PROVE Holds(q, P, x) \/ x = v
  BY <1>1 DEF Holds
<1>2. ASSUME NEW x, Holds(q, P, x) PROVE Holds(r, P, x)
  <2>1. PICK d \in P : \E i \in 1 .. Len(q[d]) : q[d][i] = x
    BY <1>2 DEF Holds
  <2>2. PICK i \in 1 .. Len(q[d]) : q[d][i] = x
    BY <2>1
  <2>3. i \in 1 .. Len(r[d]) /\ r[d][i] = x
    BY <2>2
  <2> QED BY <2>3 DEF Holds
<1>3. Holds(r, P, v)
  <2>1. Len(r[c]) \in 1 .. Len(r[c]) /\ r[c][Len(r[c])] = v
    OBVIOUS
  <2> HIDE DEF Grown
  <2> QED BY <2>1 DEF Holds
<1> HIDE DEF Grown
<1> QED BY <1>1, <1>2, <1>3

\* A push of a value leaves a queue of values.
LEMMA PushTypes ==
    ASSUME NEW P, NEW V, NEW q \in [P -> Seq(V)], NEW c \in P, NEW v \in V
    PROVE  PushOn(q, c, v) \in [P -> Seq(V)]
<1> DEFINE r == PushOn(q, c, v)
<1>1. Grown(q, r, P, V, c, v)
  BY PushPlaces
<1> HIDE DEF r
<1>2. r \in [P -> Seq(V)]
  BY <1>1 DEF Grown
<1> QED BY <1>2 DEF r

\* A push of a new value puts none at two places,
LEMMA PushOnce ==
    ASSUME NEW P, NEW V, NEW q \in [P -> Seq(V)], NEW c \in P, NEW v \in V,
           Once(q, P), ~Holds(q, P, v)
    PROVE  Once(PushOn(q, c, v), P)
<1> DEFINE r == PushOn(q, c, v)
<1>1. Grown(q, r, P, V, c, v)
  BY PushPlaces
<1> HIDE DEF r
<1>2. /\ Len(q[c]) \in Nat
      /\ \A d \in P : \A m \in 1 .. Len(r[d]) :
           \/ m \in 1 .. Len(q[d]) /\ r[d][m] = q[d][m]
           \/ d = c /\ m = Len(q[c]) + 1 /\ r[d][m] = v
  BY <1>1 DEF Grown
<1>3. \A d \in P : \A m \in 1 .. Len(q[d]) : q[d][m] # v
  BY DEF Holds
<1>4. Once(r, P)
  BY <1>2, <1>3 DEF Once
<1> QED BY <1>4 DEF r

\* and keeps the values apart, on its owner's stream.
LEMMA PushApart ==
    ASSUME NEW P, NEW V, NEW q \in [P -> Seq(V)], NEW c \in P, NEW v \in V,
           NEW owner, Apart(q, P, owner), ~Holds(q, P, v), owner[v] = c,
           NEW r, r = PushOn(q, c, v)
    PROVE  Apart(r, P, owner)
<1>1. Grown(q, r, P, V, c, v)
  BY PushPlaces
<1>2. /\ r \in [P -> Seq(V)] /\ Len(q[c]) \in Nat
      /\ \A d \in P : \A m \in 1 .. Len(r[d]) :
           \/ m \in 1 .. Len(q[d]) /\ r[d][m] = q[d][m]
           \/ d = c /\ m = Len(q[c]) + 1 /\ r[d][m] = v
  BY <1>1 DEF Grown
<1>3. Once(r, P)
  BY PushOnce DEF Apart
<1>4. Belongs(r, P, owner)
  BY <1>2 DEF Apart, Belongs
<1> QED BY <1>3, <1>4 DEF Apart

\* It keeps the queue in order when no value that is there depends on the
\* new one.
LEMMA PushKeeps ==
    ASSUME NEW P, NEW V, NEW q \in [P -> Seq(V)], NEW c \in P, NEW v \in V,
           NEW owner, NEW dep, InOrder(q, P, owner, dep), ~Holds(q, P, v),
           owner[v] = c, dep[v] # v, \A x \in V : Holds(q, P, x) => dep[x] # v,
           NEW r, r = PushOn(q, c, v)
    PROVE  InOrder(r, P, owner, dep)
<1>1. Grown(q, r, P, V, c, v)
  BY PushPlaces
<1>2. /\ r \in [P -> Seq(V)] /\ Len(q[c]) \in Nat
      /\ \A d \in P : \A m \in 1 .. Len(r[d]) :
           \/ m \in 1 .. Len(q[d]) /\ r[d][m] = q[d][m]
           \/ d = c /\ m = Len(q[c]) + 1 /\ r[d][m] = v
  BY <1>1 DEF Grown
<1>3. \A d \in P : \A m \in 1 .. Len(q[d]) : q[d][m] \in V /\ q[d][m] # v /\ Holds(q, P, q[d][m])
  <2> SUFFICES ASSUME NEW d \in P, NEW m \in 1 .. Len(q[d])
               PROVE  q[d][m] \in V /\ q[d][m] # v /\ Holds(q, P, q[d][m])
    OBVIOUS
  <2>1. q[d][m] \in V
    BY ElementOfSeq
  <2>2. Holds(q, P, q[d][m])
    BY DEF Holds
  <2> QED BY <2>1, <2>2
<1>4. Apart(r, P, owner)
  BY PushApart DEF InOrder
<1>5. Ordered(r, P, dep)
  <2> SUFFICES ASSUME NEW d \in P, NEW m \in 1 .. Len(r[d]), NEW n \in 1 .. Len(r[d]),
                      dep[r[d][m]] = r[d][n]
               PROVE  n < m
    BY DEF Ordered
  <2>1. CASE r[d][n] = v
    BY <1>2, <1>3, <2>1
  <2>2. CASE r[d][n] # v
    <3>1. n \in 1 .. Len(q[d]) /\ r[d][n] = q[d][n]
      BY <1>2, <2>2
    <3>2. CASE m \in 1 .. Len(q[d]) /\ r[d][m] = q[d][m]
      BY <3>1, <3>2 DEF InOrder, Ordered
    <3>3. CASE d = c /\ m = Len(q[c]) + 1
      BY <1>2, <3>1, <3>3
    <3> QED BY <1>2, <3>2, <3>3
  <2> QED BY <2>1, <2>2
<1> QED BY <1>4, <1>5 DEF InOrder

-----------------------------------------------------------------------------
\* Queue r has lost the head of stream c, and is as q otherwise.
Shrunk(q, r, P, V, c) ==
    /\ r \in [P -> Seq(V)]
    /\ Len(q[c]) \in Nat \ {0} /\ Len(r[c]) = Len(q[c]) - 1
    /\ Head(q[c]) = q[c][1] /\ Head(q[c]) \in V
    /\ \A d \in P : d # c => r[d] = q[d]
    /\ \A m \in 1 .. Len(r[c]) : m + 1 \in 1 .. Len(q[c]) /\ r[c][m] = q[c][m + 1]

\* A pop takes the head of one stream and moves the rest up by one place.
LEMMA PopPlaces ==
    ASSUME NEW P, NEW V, NEW q \in [P -> Seq(V)], NEW c \in P, q[c] # <<>>,
           NEW r, r = PopOf(q, c)
    PROVE  Shrunk(q, r, P, V, c)
<1>1. q[c] \in Seq(V) /\ r[c] = Tail(q[c]) /\ \A d \in P : d # c => r[d] = q[d]
  BY DEF PopOf
<1>2. /\ Len(q[c]) \in Nat \ {0}
      /\ r[c] \in Seq(V) /\ Head(q[c]) \in V
      /\ Len(r[c]) = Len(q[c]) - 1
      /\ \A i \in 1 .. Len(r[c]) : r[c][i] = q[c][i + 1]
      /\ Head(q[c]) = q[c][1]
  BY <1>1, HeadTailProperties, EmptySeq
<1>3. r \in [P -> Seq(V)]
  BY <1>2 DEF PopOf
<1>4. ASSUME NEW m \in 1 .. Len(r[c]) PROVE m + 1 \in 1 .. Len(q[c])
  BY <1>2
<1> QED BY <1>1, <1>2, <1>3, <1>4 DEF Shrunk

\* No other value than the head leaves the queue.
LEMMA PopLeaves ==
    ASSUME NEW P, NEW V, NEW q \in [P -> Seq(V)], NEW c \in P, q[c] # <<>>,
           NEW r, r = PopOf(q, c)
    PROVE  \A x : Holds(q, P, x) /\ x # Head(q[c]) => Holds(r, P, x)
<1>1. Shrunk(q, r, P, V, c)
  BY PopPlaces
<1>2. /\ Len(q[c]) \in Nat \ {0} /\ Len(r[c]) = Len(q[c]) - 1
      /\ Head(q[c]) = q[c][1] /\ \A d \in P : d # c => r[d] = q[d]
      /\ \A m \in 1 .. Len(r[c]) : m + 1 \in 1 .. Len(q[c]) /\ r[c][m] = q[c][m + 1]
  BY <1>1 DEF Shrunk
<1> SUFFICES ASSUME NEW x, Holds(q, P, x), x # q[c][1] PROVE Holds(r, P, x)
  BY <1>2
<1>3. PICK d \in P : \E i \in 1 .. Len(q[d]) : q[d][i] = x
  BY DEF Holds
<1>4. PICK i \in 1 .. Len(q[d]) : q[d][i] = x
  BY <1>3
<1>5. CASE d = c
  <2>1. i # 1
    BY <1>4, <1>5
  <2>2. i - 1 \in 1 .. Len(r[c]) /\ (i - 1) + 1 = i
    BY <1>2, <1>4, <1>5, <2>1
  <2>3. r[c][i - 1] = x
    BY <1>2, <1>4, <1>5, <2>2
  <2> QED BY <2>2, <2>3 DEF Holds
<1>6. CASE d # c
  BY <1>2, <1>4, <1>6 DEF Holds
<1> QED BY <1>5, <1>6

\* The head leaves those the queue holds, which holds it no more.
LEMMA PopHolds ==
    ASSUME NEW P, NEW V, NEW q \in [P -> Seq(V)], NEW c \in P, q[c] # <<>>,
           NEW r, r = PopOf(q, c), Once(q, P)
    PROVE  /\ Head(q[c]) \in V /\ Holds(q, P, Head(q[c]))
           /\ \A x : Holds(r, P, x) <=> Holds(q, P, x) /\ x # Head(q[c])
<1>1. Shrunk(q, r, P, V, c)
  BY PopPlaces
<1>2. /\ Len(q[c]) \in Nat \ {0} /\ Len(r[c]) = Len(q[c]) - 1 /\ 1 \in 1 .. Len(q[c])
      /\ Head(q[c]) = q[c][1] /\ Head(q[c]) \in V
      /\ \A d \in P : d # c => r[d] = q[d]
      /\ \A m \in 1 .. Len(r[c]) : m + 1 \in 1 .. Len(q[c]) /\ r[c][m] = q[c][m + 1]
  BY <1>1 DEF Shrunk
<1>3. Holds(q, P, q[c][1])
  BY <1>2 DEF Holds
<1>4. ASSUME NEW x, Holds(r, P, x) PROVE Holds(q, P, x) /\ x # q[c][1]
  <2>1. PICK d \in P : \E i \in 1 .. Len(r[d]) : r[d][i] = x
    BY <1>4 DEF Holds
  <2>2. PICK i \in 1 .. Len(r[d]) : r[d][i] = x
    BY <2>1
  <2>3. CASE d = c
    <3>1. i + 1 \in 1 .. Len(q[c]) /\ q[c][i + 1] = x /\ i + 1 # 1
      BY <1>2, <2>2, <2>3
    <3> QED BY <1>2, <3>1 DEF Holds, Once
  <2>4. CASE d # c
    <3>1. i \in 1 .. Len(q[d]) /\ q[d][i] = x
      BY <1>2, <2>2, <2>4
    <3> QED BY <1>2, <2>4, <3>1 DEF Holds, Once
  <2> QED BY <2>3, <2>4
<1>5. \A x : Holds(q, P, x) /\ x # Head(q[c]) => Holds(r, P, x)
  BY PopLeaves
<1> QED BY <1>2, <1>3, <1>4, <1>5

\* A pop takes a value and leaves values.
LEMMA PopTypes ==
    ASSUME NEW P, NEW V, NEW q \in [P -> Seq(V)], NEW c \in P, q[c] # <<>>
    PROVE  PopOf(q, c) \in [P -> Seq(V)] /\ Head(q[c]) \in V
<1> DEFINE r == PopOf(q, c)
<1>1. Shrunk(q, r, P, V, c)
  BY PopPlaces
<1> HIDE DEF r
<1>2. r \in [P -> Seq(V)] /\ Head(q[c]) \in V
  BY <1>1 DEF Shrunk
<1> QED BY <1>2 DEF r

\* A pop puts no value at two places,
LEMMA PopOnce ==
    ASSUME NEW P, NEW V, NEW q \in [P -> Seq(V)], NEW c \in P, q[c] # <<>>, Once(q, P)
    PROVE  Once(PopOf(q, c), P)
<1> DEFINE r == PopOf(q, c)
<1>1. Shrunk(q, r, P, V, c)
  BY PopPlaces
<1> HIDE DEF r
<1>2. /\ Len(q[c]) \in Nat \ {0} /\ Len(r[c]) = Len(q[c]) - 1
      /\ \A d \in P : d # c => r[d] = q[d]
      /\ \A m \in 1 .. Len(r[c]) : m + 1 \in 1 .. Len(q[c]) /\ r[c][m] = q[c][m + 1]
  BY <1>1 DEF Shrunk
<1>3. Once(r, P)
  <2> SUFFICES ASSUME NEW d \in P, NEW e \in P,
                      NEW m \in 1 .. Len(r[d]), NEW n \in 1 .. Len(r[e]), r[d][m] = r[e][n]
               PROVE  d = e /\ m = n
    BY DEF Once
  <2>1. PICK i \in 1 .. Len(q[d]) : r[d][m] = q[d][i] /\ i = IF d = c THEN m + 1 ELSE m
    BY <1>2
  <2>2. PICK h \in 1 .. Len(q[e]) : r[e][n] = q[e][h] /\ h = IF e = c THEN n + 1 ELSE n
    BY <1>2
  <2>3. q[d][i] = q[e][h]
    BY <2>1, <2>2
  <2>4. d = e /\ i = h
    BY <2>3 DEF Once
  <2> QED BY <2>1, <2>2, <2>4
<1> QED BY <1>3 DEF r

\* and keeps the values apart.
LEMMA PopApart ==
    ASSUME NEW P, NEW V, NEW q \in [P -> Seq(V)], NEW c \in P, q[c] # <<>>,
           NEW owner, Apart(q, P, owner),
           NEW r, r = PopOf(q, c)
    PROVE  /\ Apart(r, P, owner)
           /\ owner[Head(q[c])] = c
<1>1. Shrunk(q, r, P, V, c)
  BY PopPlaces
<1>2. /\ Len(q[c]) \in Nat \ {0} /\ Len(r[c]) = Len(q[c]) - 1 /\ 1 \in 1 .. Len(q[c])
      /\ Head(q[c]) = q[c][1] /\ r \in [P -> Seq(V)]
      /\ \A d \in P : d # c => r[d] = q[d]
      /\ \A m \in 1 .. Len(r[c]) : m + 1 \in 1 .. Len(q[c]) /\ r[c][m] = q[c][m + 1]
  BY <1>1 DEF Shrunk
<1>3. \A d \in P : \A m \in 1 .. Len(r[d]) :
         \/ d # c /\ m \in 1 .. Len(q[d]) /\ r[d][m] = q[d][m]
         \/ d = c /\ m + 1 \in 1 .. Len(q[d]) /\ r[d][m] = q[d][m + 1]
  BY <1>2
<1>4. Once(r, P)
  BY PopOnce DEF Apart
<1>5. owner[Head(q[c])] = c
  BY <1>2 DEF Apart, Belongs
<1>6. Belongs(r, P, owner)
  <2> SUFFICES ASSUME NEW d \in P, NEW m \in 1 .. Len(r[d]) PROVE owner[r[d][m]] = d
    BY DEF Belongs
  <2>1. PICK n \in 1 .. Len(q[d]) : r[d][m] = q[d][n]
    BY <1>3
  <2> QED BY <2>1 DEF Apart, Belongs
<1> QED BY <1>4, <1>5, <1>6 DEF Apart

\* It keeps the queue in order, and the head depends on none of those
\* that are left in its stream.
LEMMA PopKeeps ==
    ASSUME NEW P, NEW V, NEW q \in [P -> Seq(V)], NEW c \in P, q[c] # <<>>,
           NEW owner, NEW dep, InOrder(q, P, owner, dep),
           NEW r, r = PopOf(q, c)
    PROVE  /\ InOrder(r, P, owner, dep)
           /\ owner[Head(q[c])] = c
           /\ \A i \in 1 .. Len(q[c]) : dep[Head(q[c])] # q[c][i]
<1>1. Shrunk(q, r, P, V, c)
  BY PopPlaces
<1>2. /\ Len(q[c]) \in Nat \ {0} /\ Len(r[c]) = Len(q[c]) - 1 /\ 1 \in 1 .. Len(q[c])
      /\ Head(q[c]) = q[c][1] /\ r \in [P -> Seq(V)]
      /\ \A d \in P : d # c => r[d] = q[d]
      /\ \A m \in 1 .. Len(r[c]) : m + 1 \in 1 .. Len(q[c]) /\ r[c][m] = q[c][m + 1]
  BY <1>1 DEF Shrunk
<1>3. \A d \in P : \A m \in 1 .. Len(r[d]) :
         \/ d # c /\ m \in 1 .. Len(q[d]) /\ r[d][m] = q[d][m]
         \/ d = c /\ m + 1 \in 1 .. Len(q[d]) /\ r[d][m] = q[d][m + 1]
  BY <1>2
<1>4. Apart(r, P, owner) /\ owner[Head(q[c])] = c
  BY PopApart DEF InOrder
<1>5. \A i \in 1 .. Len(q[c]) : dep[Head(q[c])] # q[c][i]
  <2>1. ASSUME NEW i \in 1 .. Len(q[c]), dep[q[c][1]] = q[c][i] PROVE FALSE
    <3>1. i < 1
      BY <1>2, <2>1 DEF InOrder, Ordered
    <3> QED BY <3>1
  <2> QED BY <1>2, <2>1
<1>6. Ordered(r, P, dep)
  <2> SUFFICES ASSUME NEW d \in P, NEW m \in 1 .. Len(r[d]), NEW n \in 1 .. Len(r[d]),
                      dep[r[d][m]] = r[d][n]
               PROVE  n < m
    BY DEF Ordered
  <2>1. m \in Int /\ n \in Int
    OBVIOUS
  <2>2. CASE d = c
    <3>1. /\ m + 1 \in 1 .. Len(q[d]) /\ r[d][m] = q[d][m + 1]
          /\ n + 1 \in 1 .. Len(q[d]) /\ r[d][n] = q[d][n + 1]
      BY <1>3, <2>2
    <3>2. n + 1 < m + 1
      BY <3>1 DEF InOrder, Ordered
    <3> QED BY <2>1, <3>2
  <2>3. CASE d # c
    <3>1. r[d] = q[d]
      BY <1>2, <2>3
    <3> QED BY <3>1 DEF InOrder, Ordered
  <2> QED BY <2>2, <2>3
<1> QED BY <1>4, <1>5, <1>6 DEF InOrder

-----------------------------------------------------------------------------
\* Streams that agree at their ends still do after a push of one value on
\* both.
LEMMA SameEndPush ==
    ASSUME NEW V, NEW a \in Seq(V), NEW b \in Seq(V), NEW v \in V, SameEnd(a, b)
    PROVE  SameEnd(Append(a, v), Append(b, v))
<1>1. /\ Len(a) \in Nat /\ Len(b) \in Nat
      /\ Len(Append(a, v)) = Len(a) + 1 /\ Len(Append(b, v)) = Len(b) + 1
      /\ \A i \in 1 .. Len(a) : Append(a, v)[i] = a[i]
      /\ \A i \in 1 .. Len(b) : Append(b, v)[i] = b[i]
      /\ Append(a, v)[Len(a) + 1] = v /\ Append(b, v)[Len(b) + 1] = v
  BY AppendProperties, LenProperties
<1> SUFFICES ASSUME NEW k \in Nat, k < Len(a) + 1, k < Len(b) + 1
             PROVE  Append(a, v)[Len(a) + 1 - k] = Append(b, v)[Len(b) + 1 - k]
  BY <1>1 DEF SameEnd
<1>2. CASE k = 0
  BY <1>1, <1>2
<1>3. CASE k # 0
  <2>1. /\ k - 1 \in Nat /\ k - 1 < Len(a) /\ k - 1 < Len(b)
        /\ Len(a) + 1 - k = Len(a) - (k - 1) /\ Len(b) + 1 - k = Len(b) - (k - 1)
        /\ Len(a) + 1 - k \in 1 .. Len(a) /\ Len(b) + 1 - k \in 1 .. Len(b)
    BY <1>1, <1>3
  <2>2. a[Len(a) - (k - 1)] = b[Len(b) - (k - 1)]
    BY <2>1 DEF SameEnd
  <2> QED BY <1>1, <2>1, <2>2
<1> QED BY <1>2, <1>3

\* They still do after a pop of one of them.
LEMMA SameEndPop ==
    ASSUME NEW V, NEW a \in Seq(V), NEW b \in Seq(V), SameEnd(a, b)
    PROVE  /\ a # <<>> => SameEnd(Tail(a), b)
           /\ b # <<>> => SameEnd(a, Tail(b))
<1>1. Len(a) \in Nat /\ Len(b) \in Nat
  BY LenProperties
<1>2. ASSUME a # <<>> PROVE SameEnd(Tail(a), b)
  <2>1. /\ Len(Tail(a)) = Len(a) - 1
        /\ \A i \in 1 .. Len(Tail(a)) : Tail(a)[i] = a[i + 1]
    BY <1>2, HeadTailProperties
  <2> SUFFICES ASSUME NEW k \in Nat, k < Len(a) - 1, k < Len(b)
               PROVE  Tail(a)[Len(a) - 1 - k] = b[Len(b) - k]
    BY <2>1 DEF SameEnd
  <2>2. Len(a) - 1 - k \in 1 .. Len(Tail(a)) /\ (Len(a) - 1 - k) + 1 = Len(a) - k
    BY <1>1, <2>1
  <2>3. Tail(a)[Len(a) - 1 - k] = a[Len(a) - k]
    BY <2>1, <2>2
  <2>4. a[Len(a) - k] = b[Len(b) - k]
    BY <1>1 DEF SameEnd
  <2> QED BY <2>3, <2>4
<1>3. ASSUME b # <<>> PROVE SameEnd(a, Tail(b))
  <2>1. /\ Len(Tail(b)) = Len(b) - 1
        /\ \A i \in 1 .. Len(Tail(b)) : Tail(b)[i] = b[i + 1]
    BY <1>3, HeadTailProperties
  <2> SUFFICES ASSUME NEW k \in Nat, k < Len(b) - 1, k < Len(a)
               PROVE  a[Len(a) - k] = Tail(b)[Len(b) - 1 - k]
    BY <2>1 DEF SameEnd
  <2>2. Len(b) - 1 - k \in 1 .. Len(Tail(b)) /\ (Len(b) - 1 - k) + 1 = Len(b) - k
    BY <1>1, <2>1
  <2>3. Tail(b)[Len(b) - 1 - k] = b[Len(b) - k]
    BY <2>1, <2>2
  <2>4. a[Len(a) - k] = b[Len(b) - k]
    BY <1>1 DEF SameEnd
  <2> QED BY <2>3, <2>4
<1> QED BY <1>2, <1>3

\* So the values of one of them are at the end of the other.
LEMMA SameEndHolds ==
    ASSUME NEW V, NEW a \in Seq(V), NEW b \in Seq(V), SameEnd(a, b),
           NEW m \in 1 .. Len(a), NEW n \in 1 .. Len(b)
    PROVE  \/ \E i \in 1 .. Len(b) : b[i] = a[m]
           \/ \E i \in 1 .. Len(a) : a[i] = b[n]
<1>1. Len(a) \in Nat /\ Len(b) \in Nat
  BY LenProperties
<1>2. CASE Len(a) - m < Len(b)
  <2>1. Len(a) - m \in Nat /\ Len(a) - m < Len(a) /\ Len(a) - (Len(a) - m) = m
    BY <1>1
  <2>2. a[m] = b[Len(b) - (Len(a) - m)]
    BY <1>2, <2>1 DEF SameEnd
  <2>3. Len(b) - (Len(a) - m) \in 1 .. Len(b)
    BY <1>1, <1>2
  <2> QED BY <2>2, <2>3
<1>3. CASE Len(b) - n < Len(a)
  <2>1. Len(b) - n \in Nat /\ Len(b) - n < Len(b) /\ Len(b) - (Len(b) - n) = n
    BY <1>1
  <2>2. b[n] = a[Len(a) - (Len(b) - n)]
    BY <1>3, <2>1 DEF SameEnd
  <2>3. Len(a) - (Len(b) - n) \in 1 .. Len(a)
    BY <1>1, <1>3
  <2> QED BY <2>2, <2>3
<1>4. Len(a) - m < Len(b) \/ Len(b) - n < Len(a)
  BY <1>1
<1> QED BY <1>2, <1>3, <1>4

-----------------------------------------------------------------------------
\* Queue r is q with a new stream z, of value v only: S are the streams of r.
Opened(q, r, R, S, z, v) ==
    /\ z \notin R /\ S = R \union {z}
    /\ Len(r[z]) = 1 /\ r[z][1] = v
    /\ \A c \in R : r[c] = q[c]

\* A value the queue does not hold is at one place then.
LEMMA NewStream ==
    ASSUME NEW q, NEW r, NEW R, NEW S, NEW z, NEW v,
           Opened(q, r, R, S, z, v), Once(q, R), ~Holds(q, R, v)
    PROVE  Once(r, S)
<1>1. /\ \A c \in R : r[c] = q[c]
      /\ Len(r[z]) = 1 /\ r[z][1] = v /\ z \in S
      /\ \A c \in S : c \in R \/ c = z
      /\ \A c \in R : c \in S
  BY DEF Opened
<1>2. \A m \in 1 .. Len(r[z]) : m = 1
  BY <1>1
<1>3. Once(r, S)
  <2> SUFFICES ASSUME NEW c \in S, NEW d \in S,
                      NEW m \in 1 .. Len(r[c]), NEW n \in 1 .. Len(r[d]), r[c][m] = r[d][n]
               PROVE  c = d /\ m = n
    BY DEF Once
  <2>1. CASE c \in R /\ d \in R
    BY <1>1, <2>1 DEF Once
  <2>2. CASE c = z /\ d = z
    BY <1>2, <2>2
  <2>3. CASE c \in R /\ d = z
    <3>1. m \in 1 .. Len(q[c]) /\ q[c][m] = v
      BY <1>1, <1>2, <2>3
    <3> QED BY <2>3, <3>1 DEF Holds
  <2>4. CASE c = z /\ d \in R
    <3>1. n \in 1 .. Len(q[d]) /\ q[d][n] = v
      BY <1>1, <1>2, <2>4
    <3> QED BY <2>4, <3>1 DEF Holds
  <2> QED BY <1>1, <2>1, <2>2, <2>3, <2>4
<1> QED BY <1>3

\* The queue holds the value and those it held.
LEMMA NewStreamHolds ==
    ASSUME NEW q, NEW r, NEW R, NEW S, NEW z, NEW v,
           Opened(q, r, R, S, z, v)
    PROVE  \A x : Holds(r, S, x) <=> Holds(q, R, x) \/ x = v
<1>1. /\ \A c \in R : r[c] = q[c]
      /\ Len(r[z]) = 1 /\ r[z][1] = v /\ z \in S
      /\ \A c \in S : c \in R \/ c = z
      /\ \A c \in R : c \in S
  BY DEF Opened
<1>2. \A m \in 1 .. Len(r[z]) : m = 1
  BY <1>1
<1>3. ASSUME NEW x, Holds(r, S, x) PROVE Holds(q, R, x) \/ x = v
  <2>1. PICK c \in S : \E m \in 1 .. Len(r[c]) : r[c][m] = x
    BY <1>3 DEF Holds
  <2>2. CASE c = z
    BY <1>1, <1>2, <2>1, <2>2
  <2>3. CASE c \in R
    BY <1>1, <2>1, <2>3 DEF Holds
  <2> QED BY <1>1, <2>2, <2>3
<1>4. ASSUME NEW x, Holds(q, R, x) \/ x = v PROVE Holds(r, S, x)
  <2>1. CASE x = v
    <3>1. 1 \in 1 .. Len(r[z]) /\ r[z][1] = x
      BY <1>1, <2>1
    <3> QED BY <1>1, <3>1 DEF Holds
  <2>2. CASE Holds(q, R, x)
    <3>1. PICK c \in R : \E m \in 1 .. Len(q[c]) : q[c][m] = x
      BY <2>2 DEF Holds
    <3>2. r[c] = q[c] /\ c \in S
      BY <1>1
    <3> QED BY <3>1, <3>2 DEF Holds
  <2> QED BY <1>4, <2>1, <2>2
<1> QED BY <1>3, <1>4

\* Queue r is q with the streams a and b replaced by a new stream z, which has
\* the values of the one behind those of the other.
Joined(q, r, R, S, a, b, z) ==
    /\ z \notin R /\ a \in R /\ b \in R /\ a # b /\ S = (R \ {a, b}) \union {z}
    /\ r[z] = q[a] \o q[b]
    /\ \A c \in R : r[c] = q[c]

\* Every value is still at one place.
LEMMA JoinStreams ==
    ASSUME NEW K, NEW V, NEW q \in [K -> Seq(V)], NEW r \in [K -> Seq(V)], NEW R, R \subseteq K,
           NEW S, NEW a, NEW b, NEW z, Joined(q, r, R, S, a, b, z), Once(q, R)
    PROVE  Once(r, S)
<1> /\ z \notin R /\ a \in R /\ b \in R /\ a # b /\ S = (R \ {a, b}) \union {z}
    /\ r[z] = q[a] \o q[b]
    /\ \A c \in R : r[c] = q[c]
  BY DEF Joined
<1>1. q[a] \in Seq(V) /\ q[b] \in Seq(V)
  OBVIOUS
<1> DEFINE j == q[a] \o q[b]
           A == Len(q[a])
           B == Len(q[b])
<1>2. /\ j \in Seq(V) /\ A \in Nat /\ B \in Nat /\ Len(j) = A + B
      /\ \A i \in 1 .. A + B : j[i] = IF i <= A THEN q[a][i] ELSE q[b][i - A]
  <2>1. \A s, t \in Seq(V) :
          /\ s \o t \in Seq(V) /\ Len(s) \in Nat /\ Len(s \o t) = Len(s) + Len(t)
          /\ \A i \in 1 .. Len(s) + Len(t) : (s \o t)[i] = IF i <= Len(s) THEN s[i] ELSE t[i - Len(s)]
    BY ConcatProperties, LenProperties
  <2> QED BY <1>1, <2>1
<1> HIDE DEF j, A, B
<1>3. r[z] = j /\ \A c \in R : r[c] = q[c]
  BY DEF j
<1>4. \A i \in 1 .. Len(j) :
        \/ i \in 1 .. A /\ j[i] = q[a][i]
        \/ i - A \in 1 .. B /\ j[i] = q[b][i - A] /\ i \notin 1 .. A
  BY <1>2
<1>5. \A c \in R \ {a, b} : \A m \in 1 .. Len(q[c]), n \in 1 .. Len(j) : q[c][m] # j[n]
  <2> SUFFICES ASSUME NEW c \in R \ {a, b}, NEW m \in 1 .. Len(q[c]), NEW n \in 1 .. Len(j),
                      q[c][m] = j[n]
               PROVE  FALSE
    OBVIOUS
  <2>1. PICK d \in {a, b} : \E i \in 1 .. Len(q[d]) : q[d][i] = j[n]
    BY <1>4 DEF A, B
  <2>2. PICK i \in 1 .. Len(q[d]) : q[c][m] = q[d][i]
    BY <2>1
  <2>3. c = d
    BY <2>2 DEF Once
  <2> QED BY <2>3
<1>6. \A m, n \in 1 .. Len(j) : j[m] = j[n] => m = n
  <2> SUFFICES ASSUME NEW m \in 1 .. Len(j), NEW n \in 1 .. Len(j), j[m] = j[n] PROVE m = n
    OBVIOUS
  <2>1. CASE m \in 1 .. A /\ n \in 1 .. A
    <3>1. q[a][m] = q[a][n]
      BY <1>4, <2>1, <1>2
    <3> QED BY <2>1, <3>1 DEF Once, A
  <2>2. CASE m \notin 1 .. A /\ n \notin 1 .. A
    <3>1. m - A \in 1 .. B /\ n - A \in 1 .. B /\ q[b][m - A] = q[b][n - A]
      BY <1>4, <2>2
    <3>2. m - A = n - A
      BY <3>1 DEF Once, B
    <3> QED BY <1>2, <3>2
  <2>3. CASE m \in 1 .. A /\ n \notin 1 .. A
    <3>1. n - A \in 1 .. B /\ q[a][m] = q[b][n - A]
      BY <1>4, <2>3, <1>2
    <3> QED BY <2>3, <3>1 DEF Once, A, B
  <2>4. CASE m \notin 1 .. A /\ n \in 1 .. A
    <3>1. m - A \in 1 .. B /\ q[b][m - A] = q[a][n]
      BY <1>4, <2>4, <1>2
    <3> QED BY <2>4, <3>1 DEF Once, A, B
  <2> QED BY <2>1, <2>2, <2>3, <2>4
<1>7. Once(r, S)
  <2> SUFFICES ASSUME NEW c \in S, NEW d \in S,
                      NEW m \in 1 .. Len(r[c]), NEW n \in 1 .. Len(r[d]), r[c][m] = r[d][n]
               PROVE  c = d /\ m = n
    BY DEF Once
  <2>1. CASE c # z /\ d # z
    BY <1>3, <2>1 DEF Once
  <2>2. CASE c = z /\ d = z
    <3>1. m \in 1 .. Len(j) /\ n \in 1 .. Len(j) /\ j[m] = j[n]
      BY <1>3, <2>2
    <3> QED BY <1>6, <2>2, <3>1
  <2>3. CASE c # z /\ d = z
    <3>1. c \in R \ {a, b} /\ r[c] = q[c] /\ r[d] = j
      BY <1>3, <2>3
    <3>2. q[c][m] # j[n]
      BY <1>5, <3>1
    <3> QED BY <3>1, <3>2
  <2>4. CASE c = z /\ d # z
    <3>1. d \in R \ {a, b} /\ r[d] = q[d] /\ r[c] = j
      BY <1>3, <2>4
    <3>2. q[d][n] # j[m]
      BY <1>5, <3>1
    <3> QED BY <3>1, <3>2
  <2> QED BY <2>1, <2>2, <2>3, <2>4
<1> QED BY <1>7

\* It holds the values it held.
LEMMA JoinStreamsHold ==
    ASSUME NEW K, NEW V, NEW q \in [K -> Seq(V)], NEW r \in [K -> Seq(V)], NEW R, R \subseteq K,
           NEW S, NEW a, NEW b, NEW z, Joined(q, r, R, S, a, b, z)
    PROVE  \A x : Holds(r, S, x) <=> Holds(q, R, x)
<1> /\ z \notin R /\ a \in R /\ b \in R /\ a # b /\ S = (R \ {a, b}) \union {z}
    /\ r[z] = q[a] \o q[b]
    /\ \A c \in R : r[c] = q[c]
  BY DEF Joined
<1>1. q[a] \in Seq(V) /\ q[b] \in Seq(V)
  OBVIOUS
<1> DEFINE j == q[a] \o q[b]
           A == Len(q[a])
           B == Len(q[b])
<1>2. /\ j \in Seq(V) /\ A \in Nat /\ B \in Nat /\ Len(j) = A + B
      /\ \A i \in 1 .. A + B : j[i] = IF i <= A THEN q[a][i] ELSE q[b][i - A]
  <2>1. \A s, t \in Seq(V) :
          /\ s \o t \in Seq(V) /\ Len(s) \in Nat /\ Len(s \o t) = Len(s) + Len(t)
          /\ \A i \in 1 .. Len(s) + Len(t) : (s \o t)[i] = IF i <= Len(s) THEN s[i] ELSE t[i - Len(s)]
    BY ConcatProperties, LenProperties
  <2> QED BY <1>1, <2>1
<1> HIDE DEF j, A, B
<1>3. r[z] = j /\ \A c \in R : r[c] = q[c]
  BY DEF j
<1>4. \A i \in 1 .. Len(j) :
        \/ i \in 1 .. A /\ j[i] = q[a][i]
        \/ i - A \in 1 .. B /\ j[i] = q[b][i - A] /\ i \notin 1 .. A
  BY <1>2
<1>5. ASSUME NEW x, Holds(r, S, x) PROVE Holds(q, R, x)
  <2>1. PICK c \in S : \E m \in 1 .. Len(r[c]) : r[c][m] = x
    BY <1>5 DEF Holds
  <2>2. CASE c # z
    BY <1>3, <2>1, <2>2 DEF Holds
  <2>3. CASE c = z
    <3>1. PICK m \in 1 .. Len(j) : j[m] = x
      BY <1>3, <2>1, <2>3
    <3> QED BY <1>4, <3>1 DEF Holds, A, B
  <2> QED BY <2>2, <2>3
<1>6. ASSUME NEW x, Holds(q, R, x) PROVE Holds(r, S, x)
  <2>1. PICK c \in R : \E m \in 1 .. Len(q[c]) : q[c][m] = x
    BY <1>6 DEF Holds
  <2>2. PICK m \in 1 .. Len(q[c]) : q[c][m] = x
    BY <2>1
  <2>3. CASE c = a
    <3>1. m \in 1 .. A + B /\ m <= A /\ m \in 1 .. Len(j)
      BY <1>2, <2>2, <2>3 DEF A
    <3>2. r[z][m] = x /\ m \in 1 .. Len(r[z])
      BY <1>2, <1>3, <2>2, <2>3, <3>1
    <3> QED BY <3>2 DEF Holds
  <2>4. CASE c = b
    <3>1. PICK n \in Nat : n = m + A
      BY <1>2
    <3>2. n \in 1 .. A + B /\ ~(n <= A) /\ n - A = m /\ n \in 1 .. Len(j)
      BY <1>2, <2>2, <2>4, <3>1 DEF B
    <3>3. r[z][n] = x /\ n \in 1 .. Len(r[z])
      BY <1>2, <1>3, <2>2, <2>4, <3>2
    <3> QED BY <3>3 DEF Holds
  <2>5. CASE c \notin {a, b}
    <3>1. c \in S /\ r[c] = q[c]
      BY <1>3, <2>5
    <3> QED BY <2>2, <3>1 DEF Holds
  <2> QED BY <2>3, <2>4, <2>5
<1> QED BY <1>5, <1>6

=============================================================================
