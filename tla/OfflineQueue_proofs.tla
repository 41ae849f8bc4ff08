------------------------ MODULE OfflineQueue_proofs ------------------------
(***************************************************************************)
(* Theorems about OfflineQueue, for every value of its constants.          *)
(***************************************************************************)
EXTENDS OfflineQueue, FiniteSetTheorems, WellFoundedInduction, TLAPS

-----------------------------------------------------------------------------
(* Least and greatest elements                                             *)

\* A nonempty set of naturals has the minimum that findOldest looks for.
LEMMA MinIsLeast ==
    ASSUME NEW S, S \subseteq Nat, S # {}
    PROVE  Min(S) \in S /\ \A y \in S : Min(S) <= y
<1>1. PICK x \in S : \A y \in S : ~ (<<y, x>> \in OpToRel(<, Nat))
  BY WFMin, NatLessThanWellFounded
<1>2. \A y \in S : ~ (y < x)
  BY <1>1, Zenon DEF OpToRel
<1>3. \A y \in S : x <= y
  BY <1>2
<1> QED BY <1>3 DEF Min

\* A nonempty bounded set of naturals has a maximum.
LEMMA MaxIsGreatest ==
    ASSUME NEW n \in Nat, NEW S, S \subseteq 1..n, S # {}
    PROVE  Max(S) \in S /\ \A y \in S : y <= Max(S)
<1> DEFINE T == {m \in 0..n : \E x \in S : m = n - x}
<1>1. T \subseteq Nat /\ T # {}
  <2>1. PICK w \in S : w \in 1..n
    OBVIOUS
  <2>2. n - w \in T
    BY <2>1
  <2>3. T \subseteq Nat
    OBVIOUS
  <2> QED BY <2>2, <2>3, Zenon
<1>2. Min(T) \in T /\ \A y \in T : Min(T) <= y
  BY <1>1, MinIsLeast
<1>3. PICK x \in S : Min(T) = n - x
  BY <1>2
<1>4. \A y \in S : n - y \in T
  OBVIOUS
<1>5. \A y \in S : n - x <= n - y
  BY <1>2, <1>3, <1>4
<1>6. \A y \in S : x >= y
  BY <1>5
<1> QED BY <1>6 DEF Max

\* The two index values derived from a set of record numbers.
LEMMA OldestOfFiles ==
    ASSUME NEW S, S \subseteq Ids
    PROVE  /\ OldestOf(S) \in 0..MaxRecordId
           /\ S = {} => OldestOf(S) = 0
           /\ S # {} => OldestOf(S) \in S /\ \A y \in S : OldestOf(S) <= y
<1>0. MaxRecordId \in Nat
  BY QueueAssumption
<1>1. CASE S = {}
  BY <1>0, <1>1 DEF OldestOf
<1>2. CASE S # {}
  <2>1. S \subseteq Nat
    BY <1>0 DEF Ids
  <2>2. Min(S) \in S /\ \A y \in S : Min(S) <= y
    BY <1>2, <2>1, MinIsLeast
  <2>3. OldestOf(S) = Min(S)
    BY <1>2 DEF OldestOf
  <2>4. OldestOf(S) \in S /\ \A y \in S : OldestOf(S) <= y
    BY <2>2, <2>3
  <2>5. OldestOf(S) \in Ids
    BY <2>4
  <2>6. OldestOf(S) \in 0..MaxRecordId
    BY <1>0, <2>5 DEF Ids
  <2> QED BY <1>2, <2>4, <2>6
<1> QED BY <1>1, <1>2

\* The next number is above every file's, and one beyond the last at most.
LEMMA NextAfterFiles ==
    ASSUME NEW S, S \subseteq Ids
    PROVE  /\ NextAfter(S) \in 1..(MaxRecordId + 1)
           /\ \A y \in S : y < NextAfter(S)
<1>0. MaxRecordId \in Nat
  BY QueueAssumption
<1>1. CASE S = {}
  BY <1>0, <1>1 DEF NextAfter
<1>2. CASE S # {}
  <2>1. S \subseteq 1..MaxRecordId
    BY DEF Ids
  <2>2. Max(S) \in S /\ \A y \in S : y <= Max(S)
    BY <1>0, <1>2, <2>1, MaxIsGreatest, Zenon
  <2>3. NextAfter(S) = Max(S) + 1
    BY <1>2 DEF NextAfter
  <2>4. Max(S) \in 1..MaxRecordId
    BY <2>1, <2>2
  <2>5. \A y \in S : y \in Nat
    BY <2>1
  <2>6. \A y \in S : y < NextAfter(S)
    BY <2>2, <2>3, <2>4, <2>5
  <2> QED BY <1>0, <2>3, <2>4, <2>6
<1> QED BY <1>1, <1>2

\* A set of numbers of files is finite.
LEMMA FilesAreFinite ==
    ASSUME NEW S, S \subseteq Ids
    PROVE  IsFiniteSet(S) /\ Cardinality(S) \in Nat
<1>1. 1 \in Int /\ MaxRecordId \in Int
  BY QueueAssumption
<1>2. IsFiniteSet(Ids)
  BY <1>1, FS_Interval DEF Ids
<1> QED BY <1>2, FS_Subset, FS_CardinalityType

\* A remainder is below the divisor.
LEMMA Remainder ==
    ASSUME NEW a \in Nat, NEW b \in Nat \ {0}
    PROVE  a % b \in 0..(b - 1)
BY SMTT(30)

\* Quotient and remainder of a number.
LEMMA QuotientRemainder ==
    ASSUME NEW a \in Nat, NEW C \in Nat \ {0}
    PROVE  /\ a % C \in 0..(C - 1) /\ a \div C \in Nat
           /\ a = C * (a \div C) + (a % C)
<1>0. C \in Nat /\ C > 0
  OBVIOUS
<1>1. a = C * (a \div C) + (a % C)
  BY <1>0, Z3T(30)
<1>2. a \div C \in Nat
  <2>1. a \div C \in Int /\ a \div C >= 0
    BY <1>0, SMTT(30)
  <2> QED BY <2>1
<1>3. a % C \in 0..(C - 1)
  BY <1>0, SMTT(30)
<1> QED BY <1>1, <1>2, <1>3

\* The same, for the steps that only name them.
LEMMA Quotient ==
    ASSUME NEW C \in Nat \ {0}
    PROVE  \A a \in Nat : \E q \in Nat, r \in 0..(C - 1) : r = a % C /\ a = C * q + r
<1> TAKE a \in Nat
<1>1. /\ a % C \in 0..(C - 1) /\ a \div C \in Nat
      /\ a = C * (a \div C) + (a % C)
  BY QuotientRemainder
<1> QED BY <1>1, Zenon

\* A remainder is determined by the number.
LEMMA RemainderUnique ==
    ASSUME NEW C \in Nat \ {0}, NEW p \in Int, NEW q \in Int,
           NEW r \in 0..(C - 1), NEW s \in 0..(C - 1),
           C * p + r = C * q + s
    PROVE  r = s
<1>1. CASE p = q
  BY <1>1
<1>2. ASSUME NEW x \in Int, NEW y \in Int, x + 1 <= y PROVE C * x + C <= C * y
  <2>1. C * (y - x) >= C
    BY <1>2, SMTT(30)
  <2> QED BY <2>1, SMTT(30)
<1>3. CASE p + 1 <= q
  <2>1. C * p + C <= C * q
    BY <1>2, <1>3
  <2>2. C * p \in Int /\ C * q \in Int
    OBVIOUS
  <2> QED BY <2>1, <2>2
<1>4. CASE q + 1 <= p
  <2>1. C * q + C <= C * p
    BY <1>2, <1>4
  <2>2. C * p \in Int /\ C * q \in Int
    OBVIOUS
  <2> QED BY <2>1, <2>2
<1> QED BY <1>1, <1>3, <1>4

\* A counter that wraps around may be reduced early.
LEMMA RemainderAdd ==
    ASSUME NEW C \in Nat \ {0}, NEW a \in Nat, NEW b \in Nat
    PROVE  ((a % C) + b) % C = (a + b) % C
<1>1. PICK q \in Nat, r \in 0..(C - 1) : r = a % C /\ a = C * q + r
  BY Quotient, Zenon
<1>2. PICK u \in Nat, v \in 0..(C - 1) : v = (r + b) % C /\ r + b = C * u + v
  <2>1. r + b \in Nat
    OBVIOUS
  <2> QED BY <2>1, Quotient, Zenon
<1>3. PICK w \in Nat, x \in 0..(C - 1) : x = (a + b) % C /\ a + b = C * w + x
  <2>1. a + b \in Nat
    OBVIOUS
  <2> QED BY <2>1, Quotient, Zenon
<1>4. C * (q + u) = C * q + C * u
  BY SMTT(30)
<1>6. C * (q + u) + v = C * w + x
  <2> DEFINE A == C * q
             B == C * u
             D == C * w
             E == C * (q + u)
  <2>1. A \in Nat /\ B \in Nat /\ D \in Nat
    OBVIOUS
  <2>2. a = A + r /\ r + b = B + v /\ a + b = D + x /\ E = A + B
    BY <1>1, <1>2, <1>3, <1>4
  <2> HIDE DEF A, B, D, E
  <2>3. E + v = D + x
    BY <2>1, <2>2
  <2> QED BY <2>3, Zenon DEF D, E
<1>7. v = x
  BY <1>6, RemainderUnique
<1> QED BY <1>1, <1>2, <1>3, <1>7
-----------------------------------------------------------------------------
(* Induction, and the sum of the sizes of a set of files                   *)

\* The sum of the sizes of the files S of card c, TotalSize for any card.
SizeIn(c, S) == MapThenSumSet(LAMBDA id : c[id].size, S)
\* The sum takes one element away at a time; g holds the sums of the subsets.
Some(s) == CHOOSE x \in s : TRUE
Body(c, s, g) == IF s = {} THEN 0 ELSE c[Some(s)].size + g[s \ {Some(s)}]
SizesOf(c, S, g) == g = [s \in SUBSET S |-> Body(c, s, g)]

\* The sum is the one the recursive definition of the library chooses.
LEMMA SizeInIsChosen ==
    ASSUME NEW c, NEW S
    PROVE  SizeIn(c, S) = (CHOOSE g : SizesOf(c, S, g))[S]
BY DEF SizeIn, SizesOf, Body, Some, MapThenSumSet, MapThenFoldSet

\* TotalSize is the sum over the card as it is.
LEMMA TotalIsSizeIn == ASSUME NEW S PROVE TotalSize(S) = SizeIn(card, S)
BY DEF TotalSize, SizeIn, MapThenSumSet, MapThenFoldSet

\* What holds of n whenever it holds of all smaller numbers holds of all.
LEMMA StrongInduction ==
    ASSUME NEW G, \A n \in Nat : (\A m \in 0..(n - 1) : m \in G) => n \in G
    PROVE  Nat \subseteq G
<1> DEFINE Bad == {n \in Nat : n \notin G}
<1> SUFFICES ASSUME Bad # {} PROVE FALSE
  OBVIOUS
<1>1. Min(Bad) \in Bad /\ \A y \in Bad : Min(Bad) <= y
  BY MinIsLeast
<1>2. PICK n \in Bad : \A y \in Bad : n <= y
  BY <1>1
<1>3. \A m \in 0..(n - 1) : m \in G
  BY <1>2
<1> QED BY <1>2, <1>3

\* A nonempty set has some element.
LEMMA SomeIn == ASSUME NEW s, s # {} PROVE Some(s) \in s
BY DEF Some

\* Taking one element away leaves a set with one less.
LEMMA OneLess ==
    ASSUME NEW s, IsFiniteSet(s), NEW x \in s
    PROVE  /\ IsFiniteSet(s \ {x})
           /\ Cardinality(s) \in Nat \ {0}
           /\ Cardinality(s \ {x}) \in 0..(Cardinality(s) - 1)
           /\ Cardinality(s \ {x}) = Cardinality(s) - 1
<1>1. Cardinality(s) \in Nat /\ (Cardinality(s) = 0 <=> s = {})
  BY FS_CardinalityType, FS_EmptySet
<1>2. IsFiniteSet(s \ {x}) /\ Cardinality(s \ {x}) = Cardinality(s) - 1
  BY FS_RemoveElement
<1> QED BY <1>1, <1>2

\* Two functions that add sizes up agree on the sets both know.
LEMMA SizesAgree ==
    ASSUME NEW c, NEW S, NEW T, NEW g, NEW h, SizesOf(c, S, g), SizesOf(c, T, h),
           NEW U \in SUBSET S, U \in SUBSET T, IsFiniteSet(U)
    PROVE  g[U] = h[U]
<1> DEFINE Agree(n) == \A V \in SUBSET U :
                          IsFiniteSet(V) /\ Cardinality(V) = n => g[V] = h[V]
           G == {n \in Nat : Agree(n)}
<1>1. ASSUME NEW n \in Nat, \A m \in 0..(n - 1) : m \in G
      PROVE  n \in G
  <2> SUFFICES ASSUME NEW V \in SUBSET U, IsFiniteSet(V), Cardinality(V) = n
               PROVE  g[V] = h[V]
    OBVIOUS
  <2>1. g[V] = Body(c, V, g) /\ h[V] = Body(c, V, h)
    BY DEF SizesOf
  <2>2. CASE V = {}
    BY <2>1, <2>2 DEF Body
  <2>3. CASE V # {}
    <3>1. /\ Some(V) \in V /\ IsFiniteSet(V \ {Some(V)})
          /\ Cardinality(V \ {Some(V)}) \in 0..(n - 1)
      BY <2>3, SomeIn, OneLess
    <3>2. Agree(Cardinality(V \ {Some(V)}))
      BY <1>1, <3>1
    <3>3. V \ {Some(V)} \in SUBSET U
      OBVIOUS
    <3>4. g[V \ {Some(V)}] = h[V \ {Some(V)}]
      BY <3>1, <3>2, <3>3
    <3> QED BY <2>1, <3>4 DEF Body
  <2> QED BY <2>2, <2>3
<1>2. Nat \subseteq G
  <2> HIDE DEF G
  <2> QED BY <1>1, StrongInduction, Zenon
<1>3. Cardinality(U) \in G
  BY <1>2, FS_CardinalityType
<1> QED BY <1>3

\* There is a function that adds sizes up.
LEMMA SizesExist ==
    ASSUME NEW c, NEW S, IsFiniteSet(S)
    PROVE  \E g : SizesOf(c, S, g)
<1> DEFINE Upto(n, g) == \A s \in SUBSET S : Cardinality(s) <= n => g[s] = Body(c, s, g)
           G == {n \in Nat : \E g : g = [s \in SUBSET S |-> g[s]] /\ Upto(n, g)}
<1>0. \A s \in SUBSET S : IsFiniteSet(s) /\ Cardinality(s) \in Nat
  BY FS_Subset, FS_CardinalityType
<1>1. ASSUME NEW n \in Nat, \A m \in 0..(n - 1) : m \in G
      PROVE  n \in G
  <2>1. PICK f : \A s \in SUBSET S : Cardinality(s) < n => f[s] = Body(c, s, f)
    <3>1. CASE n = 0
      BY <1>0, <3>1
    <3>2. CASE n # 0
      <4>0. n - 1 \in 0..(n - 1)
        BY <3>2
      <4>1. n - 1 \in G
        BY <1>1, <4>0
      <4>2. PICK g : Upto(n - 1, g)
        BY <4>1
      <4> QED BY <1>0, <4>2
    <3> QED BY <3>1, <3>2
  <2> DEFINE g == [s \in SUBSET S |-> IF Cardinality(s) < n THEN f[s] ELSE Body(c, s, f)]
  <2>2. ASSUME NEW s \in SUBSET S, Cardinality(s) <= n
        PROVE  g[s] = Body(c, s, g)
    <3>1. g[s] = Body(c, s, f)
      BY <2>1
    <3>2. Body(c, s, g) = Body(c, s, f)
      <4>1. CASE s = {}
        BY <4>1 DEF Body
      <4>2. CASE s # {}
        <5>1. Some(s) \in s /\ Cardinality(s \ {Some(s)}) = Cardinality(s) - 1
          BY <1>0, <4>2, SomeIn, OneLess
        <5>2. s \ {Some(s)} \in SUBSET S /\ Cardinality(s \ {Some(s)}) < n
          BY <1>0, <2>2, <5>1
        <5>3. g[s \ {Some(s)}] = f[s \ {Some(s)}]
          BY <5>2
        <5> QED BY <5>3 DEF Body
      <4> QED BY <4>1, <4>2
    <3> QED BY <3>1, <3>2
  <2>3. g = [s \in SUBSET S |-> g[s]]
    OBVIOUS
  <2> HIDE DEF g
  <2> QED BY <2>2, <2>3
<1>2. Nat \subseteq G
  <2> HIDE DEF G
  <2> QED BY <1>1, StrongInduction, Zenon
<1>3. Cardinality(S) \in G
  BY <1>0, <1>2
<1>4. PICK g : g = [s \in SUBSET S |-> g[s]] /\ Upto(Cardinality(S), g)
  BY <1>3
<1>5. \A s \in SUBSET S : g[s] = Body(c, s, g)
  BY <1>4, FS_Subset
<1>6. g = [s \in SUBSET S |-> Body(c, s, g)]
  BY <1>4, <1>5
<1> QED BY <1>6 DEF SizesOf

\* The sum satisfies its recursion.
LEMMA SizeInRec ==
    ASSUME NEW c, NEW S, IsFiniteSet(S)
    PROVE  /\ S = {} => SizeIn(c, S) = 0
           /\ S # {} => SizeIn(c, S) = c[Some(S)].size + SizeIn(c, S \ {Some(S)})
<1>1. PICK g : SizesOf(c, S, g) /\ SizeIn(c, S) = g[S]
  <2>1. SizesOf(c, S, CHOOSE g : SizesOf(c, S, g))
    BY SizesExist
  <2> QED BY <2>1, SizeInIsChosen
<1>2. PICK h : /\ SizesOf(c, S \ {Some(S)}, h)
               /\ SizeIn(c, S \ {Some(S)}) = h[S \ {Some(S)}]
  <2>1. IsFiniteSet(S \ {Some(S)})
    BY FS_RemoveElement
  <2>2. SizesOf(c, S \ {Some(S)}, CHOOSE k : SizesOf(c, S \ {Some(S)}, k))
    BY <2>1, SizesExist
  <2> QED BY <2>2, SizeInIsChosen
<1>3. g[S \ {Some(S)}] = h[S \ {Some(S)}]
  BY <1>1, <1>2, SizesAgree, FS_RemoveElement
<1>4. g[S] = Body(c, S, g)
  BY <1>1 DEF SizesOf
<1> QED BY <1>1, <1>2, <1>3, <1>4 DEF Body

\* The sizes in S add up to a number.
LEMMA SizeInType ==
    ASSUME NEW c, NEW S, IsFiniteSet(S), \A id \in S : c[id].size \in Nat
    PROVE  SizeIn(c, S) \in Nat
<1> DEFINE Adds(n) == \A V \in SUBSET S :
                         IsFiniteSet(V) /\ Cardinality(V) = n => SizeIn(c, V) \in Nat
           G == {n \in Nat : Adds(n)}
<1>1. ASSUME NEW n \in Nat, \A m \in 0..(n - 1) : m \in G
      PROVE  n \in G
  <2> SUFFICES ASSUME NEW V \in SUBSET S, IsFiniteSet(V), Cardinality(V) = n
               PROVE  SizeIn(c, V) \in Nat
    OBVIOUS
  <2>1. CASE V = {}
    <3>1. SizeIn(c, V) = 0
      BY <2>1, SizeInRec
    <3> QED BY <3>1
  <2>2. CASE V # {}
    <3>1. /\ Some(V) \in V /\ IsFiniteSet(V \ {Some(V)})
          /\ Cardinality(V \ {Some(V)}) \in 0..(n - 1)
      BY <2>2, SomeIn, OneLess
    <3>2. Adds(Cardinality(V \ {Some(V)}))
      BY <1>1, <3>1
    <3>3. SizeIn(c, V \ {Some(V)}) \in Nat
      BY <3>1, <3>2
    <3>4. SizeIn(c, V) = c[Some(V)].size + SizeIn(c, V \ {Some(V)})
      BY <2>2, SizeInRec
    <3>5. c[Some(V)].size \in Nat
      BY <3>1
    <3> QED BY <3>3, <3>4, <3>5
  <2> QED BY <2>1, <2>2
<1>2. Nat \subseteq G
  <2> HIDE DEF G
  <2> QED BY <1>1, StrongInduction, Zenon
<1>3. Cardinality(S) \in G
  BY <1>2, FS_CardinalityType
<1> QED BY <1>3

\* Any element may be the one that is added last.
LEMMA SizeInRemove ==
    ASSUME NEW c, NEW S, IsFiniteSet(S), \A id \in S : c[id].size \in Nat
    PROVE  \A x \in S : SizeIn(c, S) = c[x].size + SizeIn(c, S \ {x})
<1> DEFINE AnyLast(n) == \A V \in SUBSET S :
                           IsFiniteSet(V) /\ Cardinality(V) = n =>
                              \A x \in V : SizeIn(c, V) = c[x].size + SizeIn(c, V \ {x})
           G == {n \in Nat : AnyLast(n)}
<1>1. ASSUME NEW n \in Nat, \A m \in 0..(n - 1) : m \in G
      PROVE  n \in G
  <2> SUFFICES ASSUME NEW V \in SUBSET S, IsFiniteSet(V), Cardinality(V) = n, NEW x \in V
               PROVE  SizeIn(c, V) = c[x].size + SizeIn(c, V \ {x})
    OBVIOUS
  <2>1. PICK y \in V : SizeIn(c, V) = c[y].size + SizeIn(c, V \ {y})
    BY SomeIn, SizeInRec
  <2> DEFINE W == (V \ {y}) \ {x}
  <2>2. CASE x = y
    BY <2>1, <2>2
  <2>3. CASE x # y
    <3>1. /\ IsFiniteSet(V \ {x}) /\ IsFiniteSet(V \ {y})
          /\ Cardinality(V \ {x}) \in 0..(n - 1) /\ Cardinality(V \ {y}) \in 0..(n - 1)
      BY <2>1, OneLess
    <3>2. AnyLast(Cardinality(V \ {x})) /\ AnyLast(Cardinality(V \ {y}))
      BY <1>1, <3>1
    <3>3. /\ x \in V \ {y} /\ (V \ {y}) \ {x} = W
          /\ y \in V \ {x} /\ (V \ {x}) \ {y} = W
      BY <2>1, <2>3
    <3>4. SizeIn(c, V \ {y}) = c[x].size + SizeIn(c, (V \ {y}) \ {x})
      BY <3>1, <3>2, <3>3
    <3>5. SizeIn(c, V \ {x}) = c[y].size + SizeIn(c, (V \ {x}) \ {y})
      BY <3>1, <3>2, <3>3
    <3>6. SizeIn(c, W) \in Nat /\ c[x].size \in Nat /\ c[y].size \in Nat
      <4>1. IsFiniteSet(W)
        BY <3>1, <3>3, FS_RemoveElement
      <4> QED BY <2>1, <4>1, SizeInType
    <3>7. SizeIn(c, V \ {x}) = c[y].size + SizeIn(c, W)
      BY <3>3, <3>5, Zenon
    <3>8. SizeIn(c, V) = c[y].size + (c[x].size + SizeIn(c, W))
      BY <2>1, <3>4, Zenon
    <3> HIDE DEF W
    <3> QED BY <3>6, <3>7, <3>8
  <2> QED BY <2>2, <2>3
<1>2. Nat \subseteq G
  <2> HIDE DEF G
  <2> QED BY <1>1, StrongInduction, Zenon
<1>3. Cardinality(S) \in G
  BY <1>2, FS_CardinalityType
<1> QED BY <1>3

\* Only the sizes of the files in S count.
LEMMA SizeInSame ==
    ASSUME NEW c, NEW d, NEW S, IsFiniteSet(S), \A id \in S : c[id].size = d[id].size
    PROVE  SizeIn(c, S) = SizeIn(d, S)
<1> DEFINE Same(n) == \A V \in SUBSET S :
                         IsFiniteSet(V) /\ Cardinality(V) = n => SizeIn(c, V) = SizeIn(d, V)
           G == {n \in Nat : Same(n)}
<1>1. ASSUME NEW n \in Nat, \A m \in 0..(n - 1) : m \in G
      PROVE  n \in G
  <2> SUFFICES ASSUME NEW V \in SUBSET S, IsFiniteSet(V), Cardinality(V) = n
               PROVE  SizeIn(c, V) = SizeIn(d, V)
    OBVIOUS
  <2>1. CASE V = {}
    BY <2>1, SizeInRec
  <2>2. CASE V # {}
    <3>1. /\ Some(V) \in V /\ IsFiniteSet(V \ {Some(V)})
          /\ Cardinality(V \ {Some(V)}) \in 0..(n - 1)
      BY <2>2, SomeIn, OneLess
    <3>2. Same(Cardinality(V \ {Some(V)}))
      BY <1>1, <3>1
    <3>3. SizeIn(c, V \ {Some(V)}) = SizeIn(d, V \ {Some(V)})
      BY <3>1, <3>2
    <3> QED BY <2>2, <3>1, <3>3, SizeInRec
  <2> QED BY <2>1, <2>2
<1>2. Nat \subseteq G
  <2> HIDE DEF G
  <2> QED BY <1>1, StrongInduction, Zenon
<1>3. Cardinality(S) \in G
  BY <1>2, FS_CardinalityType
<1> QED BY <1>3

\* Fewer files are not larger.
LEMMA SizeInSubset ==
    ASSUME NEW c, NEW T, IsFiniteSet(T), \A id \in T : c[id].size \in Nat
    PROVE  \A S \in SUBSET T : SizeIn(c, S) <= SizeIn(c, T)
<1> DEFINE Grows(n) == \A V \in SUBSET T : IsFiniteSet(V) /\ Cardinality(V) = n =>
                          \A S \in SUBSET V : SizeIn(c, S) <= SizeIn(c, V)
           G == {n \in Nat : Grows(n)}
<1>1. ASSUME NEW n \in Nat, \A m \in 0..(n - 1) : m \in G
      PROVE  n \in G
  <2> SUFFICES ASSUME NEW V \in SUBSET T, IsFiniteSet(V), Cardinality(V) = n,
                      NEW S \in SUBSET V
               PROVE  SizeIn(c, S) <= SizeIn(c, V)
    OBVIOUS
  <2>0. SizeIn(c, S) \in Nat /\ SizeIn(c, V) \in Nat
    BY SizeInType, FS_Subset
  <2>1. CASE S = V
    BY <2>0, <2>1
  <2>2. CASE S # V
    <3>1. PICK x \in V : x \notin S
      BY <2>2
    <3>2. S \in SUBSET (V \ {x}) /\ V \ {x} \in SUBSET T
      BY <3>1
    <3>3. IsFiniteSet(V \ {x}) /\ Cardinality(V \ {x}) \in 0..(n - 1)
      BY <3>1, OneLess
    <3>4. Grows(Cardinality(V \ {x}))
      BY <1>1, <3>3
    <3>5. SizeIn(c, S) <= SizeIn(c, V \ {x})
      BY <3>2, <3>3, <3>4
    <3>6. SizeIn(c, V) = c[x].size + SizeIn(c, V \ {x})
      BY <3>1, SizeInRemove
    <3>7. SizeIn(c, V \ {x}) \in Nat /\ c[x].size \in Nat
      BY <3>1, <3>2, <3>3, SizeInType
    <3> QED BY <2>0, <3>5, <3>6, <3>7
  <2> QED BY <2>1, <2>2
<1>2. Nat \subseteq G
  <2> HIDE DEF G
  <2> QED BY <1>1, StrongInduction, Zenon
<1>3. Cardinality(T) \in G
  BY <1>2, FS_CardinalityType
<1> QED BY <1>3

-----------------------------------------------------------------------------
(* Type correctness                                                        *)

TypeInv == TypeOK /\ CallOK

\* The type of the record that describes the method in progress.
CallType == [op : Operations, sample : 0..MaxSamples, size : Sizes \cup {0},
             deferred : BOOLEAN, id : 0..MaxRecordId, replayed : BOOLEAN]

\* What the constants allow.
LEMMA Bounds ==
    /\ MaxRecordId \in Nat \ {0} /\ MaxRecords \in Nat \ {0}
    /\ CounterSpan \in Nat \ {0} /\ MaxSamples \in Nat
    /\ MaxBoots \in Nat \ {0} /\ MaxEpoch \in Nat \ {0}
BY QueueAssumption

\* The calls that hold no sample.
LEMMA RestingCalls ==
    /\ Idle \in CallType /\ Idle.op = "idle"
    /\ Booting \in CallType /\ Booting.op = "boot"
    /\ Expiring \in CallType /\ Expiring.op = "expire"
BY Bounds DEF Idle, Booting, Expiring, Call, CallType, Operations

\* The types hold at the start.
LEMMA TypeInit == Init => TypeInv
<1> SUFFICES ASSUME Init PROVE TypeInv
  OBVIOUS
<1>1. call \in CallType /\ call.op = "boot"
  BY RestingCalls DEF Init
<1>2. CallOK
  BY <1>1 DEF Init, CallOK
<1>3. card \in [Ids -> Record \cup {NoFile}] /\ tmp \in Record \cup {NoFile}
  BY DEF Init
<1>4. next \in 1..(MaxRecordId + 1) /\ oldest \in 0..MaxRecordId
  BY Bounds DEF Init
<1>5. boot \in 1..MaxBoots /\ epoch \in 1..MaxEpoch /\ bootId \in {0, boot}
  BY Bounds DEF Init
<1>6. dropped \in 0..(CounterSpan - 1) /\ droppedBefore \in 0..(CounterSpan - 1)
  BY Bounds DEF Init
<1>7. /\ produced \in 0..MaxSamples
      /\ accepted \subseteq 1..MaxSamples /\ attempted \subseteq 1..MaxSamples
  BY Bounds DEF Init
<1>8. /\ queued \in Nat /\ acked \in Nat /\ bytes \in Nat
      /\ storageReady \in BOOLEAN /\ timeValid \in BOOLEAN /\ ready \in BOOLEAN
  BY DEF Init
<1>9. TypeOK
  BY <1>1, <1>3, <1>4, <1>5, <1>6, <1>7, <1>8 DEF TypeOK, CallType
<1> QED BY <1>2, <1>9 DEF TypeInv

\* Rewriting one field of a header gives a record.
LEMMA RecordUpdate ==
    ASSUME NEW r \in Record
    PROVE  /\ [r EXCEPT !.attempted = TRUE] \in Record
           /\ \A damage \in {"payload", "header"} :
                 [r EXCEPT !.integrity = damage] \in Record
BY DEF Record

\* What Sizes holds.
LEMMA SizesAreNumbers == \A size \in Sizes : size \in Nat \ {0} /\ size <= MaxBytes
<1>1. MaxBytes \in Nat /\ Sizes \subseteq 1..MaxBytes
  BY QueueAssumption
<1> QED BY <1>1

\* The size of a record is a positive number.
LEMMA RecordSize == ASSUME NEW r \in Record PROVE r.size \in Nat \ {0}
<1>1. r.size \in Sizes
  BY DEF Record
<1> QED BY <1>1, SizesAreNumbers

\* A removal keeps the card and the index well formed.
LEMMA UnlinkType ==
    ASSUME TypeInv, Removable, NEW dirOk, NEW sizeRead, Unlink(dirOk, sizeRead)
    PROVE  /\ card' \in [Ids -> Record \cup {NoFile}]
           /\ tmp' = tmp
           /\ queued' \in Nat /\ bytes' \in Nat
           /\ next' \in 1..(MaxRecordId + 1)
           /\ next' <= next
           /\ oldest' \in 0..MaxRecordId
<1> USE DEF Removable, Unlink, TypeInv, TypeOK
<1>0. card[oldest] \in Record /\ card[oldest].size \in Nat
  <2>1. oldest \in Ids
    BY Bounds DEF Ids
  <2> QED BY <2>1, RecordSize
<1>1. card' \in [Ids -> Record \cup {NoFile}] /\ tmp' = tmp
  OBVIOUS
<1>2. queued' \in Nat /\ bytes' \in Nat
  BY <1>0 DEF BytesLeft
<1>3. next' \in 1..(MaxRecordId + 1) /\ next' <= next
  BY Bounds DEF NextLeft
<1>4. OldestOf(Files \ {oldest}) \in 0..MaxRecordId
  BY OldestOfFiles DEF Files
<1>5. oldest' \in 0..MaxRecordId
  BY <1>4, Bounds
<1> QED BY <1>1, <1>2, <1>3, <1>5

\* The counter of dropped records stays in its width.
LEMMA CountType ==
    ASSUME TypeInv, NEW n \in Nat
    PROVE  Count(n) \in 0..(CounterSpan - 1)
<1>1. dropped + n \in Nat
  BY Bounds DEF TypeInv, TypeOK
<1> QED BY <1>1, Remainder, Bounds DEF Count

\* What enqueue writes is a record of the sample it holds.
LEMMA NewRecordType ==
    ASSUME TypeInv, call.op \in {"evict", "write", "rename"},
           NEW damage \in {"ok", "payload", "header"}
    PROVE  /\ NewRecord(damage) \in Record
           /\ NewRecord(damage).sample = produced
           /\ NewRecord(damage).attempted = FALSE
           /\ NewRecord(damage).integrity = damage
<1>1. Now \in 0..MaxEpoch
  BY Bounds DEF Now, TypeInv, TypeOK
<1>2. bootId \in 1..MaxBoots
  BY Bounds DEF TypeInv, TypeOK, CallOK
<1>3. call.sample = produced /\ produced \in 1..MaxSamples
  BY Bounds DEF TypeInv, TypeOK, CallOK
<1>4. call.size \in Sizes /\ call.deferred \in BOOLEAN
  BY DEF TypeInv, TypeOK, CallOK
<1> QED BY <1>1, <1>2, <1>3, <1>4 DEF NewRecord, Record

\* The files of a card add up to a number.
LEMMA TotalSizeType ==
    ASSUME TypeInv, NEW S, S \subseteq Files
    PROVE  TotalSize(S) \in Nat
<1>1. IsFiniteSet(S) /\ \A id \in S : card[id].size \in Nat
  BY FilesAreFinite, RecordSize DEF Files, TypeInv, TypeOK
<1> QED BY <1>1, SizeInType, TotalIsSizeIn

\* A scan leaves well-formed files and an index within its bounds.
LEMMA ScanType ==
    ASSUME TypeInv, Scan
    PROVE  /\ card' \in [Ids -> Record \cup {NoFile}]
           /\ queued' \in Nat /\ bytes' \in Nat
           /\ dropped' \in 0..(CounterSpan - 1)
           /\ ready' \in BOOLEAN
           /\ next' \in 1..(MaxRecordId + 1)
           /\ oldest' \in 0..MaxRecordId
<1>1. PICK unread \in IF "read" \in FaultKinds THEN SUBSET Files ELSE {{}} :
        LET invalid == {id \in Files : card[id].integrity = "header"} \cup unread
            valid == Files \ invalid
        IN  \E kept \in IF "remove" \in FaultKinds THEN SUBSET invalid ELSE {{}} :
              /\ card' = [id \in Ids |->
                            IF id \in invalid \ kept THEN NoFile ELSE card[id]]
              /\ queued' = Cardinality(valid)
              /\ bytes' = TotalSize(valid)
              /\ oldest' = OldestOf(valid)
              /\ next' = NextAfter(valid)
              /\ dropped' = Count(Counted(invalid))
              /\ ready' = (NextAfter(valid) <= MaxRecordId)
  BY Zenon DEF Scan
<1> DEFINE invalid == {id \in Files : card[id].integrity = "header"} \cup unread
           valid == Files \ invalid
<1>2. PICK kept : /\ card' = [id \in Ids |->
                         IF id \in invalid \ kept THEN NoFile ELSE card[id]]
                  /\ queued' = Cardinality(valid)
                  /\ bytes' = TotalSize(valid)
                  /\ oldest' = OldestOf(valid)
                  /\ next' = NextAfter(valid)
                  /\ dropped' = Count(Counted(invalid))
                  /\ ready' = (NextAfter(valid) <= MaxRecordId)
  BY <1>1
<1>3. invalid \subseteq Ids /\ valid \subseteq Ids
  BY <1>1 DEF Files
<1> HIDE DEF invalid, valid
<1>4. card' \in [Ids -> Record \cup {NoFile}]
  BY <1>2 DEF TypeInv, TypeOK
<1>5. Cardinality(valid) \in Nat /\ Counted(invalid) \in Nat
  BY <1>3, FilesAreFinite DEF Counted
<1>8. bytes' \in Nat
  <2>1. valid \subseteq Files
    BY DEF valid
  <2> QED BY <1>2, <2>1, TotalSizeType
<1>6. dropped' \in 0..(CounterSpan - 1)
  BY <1>2, <1>5, CountType
<1>7. next' \in 1..(MaxRecordId + 1) /\ oldest' \in 0..MaxRecordId
  BY <1>2, <1>3, OldestOfFiles, NextAfterFiles
<1> QED BY <1>2, <1>4, <1>5, <1>6, <1>7, <1>8

\* Calls the methods build from values of the right types.
LEMMA PeekedCall ==
    ASSUME TypeInv, NEW id \in Ids, card[id] # NoFile, NEW flag \in BOOLEAN
    PROVE  Call("peeked", card[id].sample, 0, FALSE, id, flag) \in CallType
<1>1. card[id] \in Record
  BY DEF TypeInv, TypeOK
<1>2. card[id].sample \in 0..MaxSamples /\ id \in 0..MaxRecordId
  BY <1>1, Bounds DEF Record, Ids
<1> QED BY <1>2 DEF Call, CallType, Operations

\* begin keeps the types, whichever way it ends.
LEMMA BeginType ==
    ASSUME TypeInv, NEW id \in {0, boot}, Begin(id)
    PROVE  TypeInv'
<1>1. call' = Idle /\ call' \in CallType /\ call'.op = "idle"
  BY RestingCalls DEF Begin
<1>2. bootId' = id /\ boot' = boot
  BY DEF Begin
<1>3. /\ card' \in [Ids -> Record \cup {NoFile}]
      /\ tmp' \in Record \cup {NoFile}
      /\ queued' \in Nat /\ bytes' \in Nat
      /\ dropped' \in 0..(CounterSpan - 1)
      /\ ready' \in BOOLEAN
      /\ next' \in 1..(MaxRecordId + 1)
      /\ oldest' \in 0..MaxRecordId
      /\ ready' => id # 0
  <2>1. CASE ready' = FALSE /\ UNCHANGED <<media, index, dropped>>
    BY <2>1 DEF TypeInv, TypeOK, media, index
  <2>2. CASE id # 0 /\ tmp' = NoFile /\ Scan
    BY <2>2, ScanType DEF TypeInv, TypeOK
  <2>3. CASE /\ id # 0 /\ tmp' = NoFile /\ ready' = FALSE
             /\ queued' = 0 /\ bytes' = 0 /\ oldest' = 0 /\ next' = 1
             /\ UNCHANGED <<card, dropped>>
    <3>1. 1 \in 1..(MaxRecordId + 1) /\ 0 \in 0..MaxRecordId /\ 0 \in Nat
      BY Bounds
    <3> QED BY <2>3, <3>1 DEF TypeInv, TypeOK
  <2> QED BY <2>1, <2>2, <2>3 DEF Begin
<1>4. TypeOK'
  BY <1>1, <1>2, <1>3 DEF Begin, TypeInv, TypeOK, CallType, clocks, history
<1>5. CallOK'
  BY <1>1, <1>2, <1>3 DEF CallOK
<1> QED BY <1>4, <1>5 DEF TypeInv

\* Every step keeps the types, and what a call in progress relies on.
LEMMA TypeStep == TypeInv /\ [Next]_vars => TypeInv'
<1> SUFFICES ASSUME TypeInv, [Next]_vars PROVE TypeInv'
  OBVIOUS
<1> USE DEF media, index, clocks, history
<1>1. CASE UNCHANGED vars
  BY <1>1 DEF vars, TypeInv, TypeOK, CallOK, Files
<1>2. CASE BeginAtBoot
  <2>1. CASE Begin(boot)
    BY <2>1, BeginType
  <2>2. CASE ~storageReady
    <3>1. call' = Idle /\ call' \in CallType /\ call'.op = "idle"
      BY <1>2, <2>2, RestingCalls DEF BeginAtBoot
    <3>2. TypeOK'
      BY <1>2, <2>2, <3>1 DEF BeginAtBoot, TypeInv, TypeOK, CallType
    <3>3. CallOK'
      BY <1>2, <2>2, <3>1 DEF BeginAtBoot, TypeInv, CallOK
    <3> QED BY <3>2, <3>3 DEF TypeInv
  <2> QED BY <1>2, <2>1, <2>2 DEF BeginAtBoot
<1>3. CASE UpdateUnavailable
  <2>1. TypeOK'
    BY <1>3 DEF UpdateUnavailable, TypeInv, TypeOK
  <2>2. CallOK'
    BY <1>3, RestingCalls DEF UpdateUnavailable, TypeInv, CallOK
  <2> QED BY <2>1, <2>2 DEF TypeInv
<1>4. CASE UpdateRetry
  BY <1>4, BeginType DEF UpdateRetry, TypeInv, TypeOK
<1>5. CASE ExpireOldest
  <2>1. PICK removed \in Works("remove"), dirOk \in Works("dir"),
             sizeRead \in Works("read") :
           \/ /\ removed
              /\ Unlink(dirOk, sizeRead)
              /\ dropped' = Count(1)
              /\ ready' = Unlinked
              /\ call' = IF Unlinked THEN Expiring ELSE Idle
           \/ /\ ~removed
              /\ ready' = FALSE
              /\ call' = Idle
              /\ UNCHANGED <<media, index, dropped>>
    BY <1>5 DEF ExpireOldest
  <2>2. call' \in CallType /\ call'.op \in {"idle", "expire"}
    BY <2>1, RestingCalls
  <2>3. Removable
    BY <1>5 DEF ExpireOldest, Expired, Removable, TypeInv, TypeOK
  <2>4. Count(1) \in 0..(CounterSpan - 1)
    BY CountType
  <2>5. ready
    BY <1>5, RestingCalls DEF ExpireOldest, TypeInv, CallOK
  <2>6. CASE Unlink(dirOk, sizeRead) /\ dropped' = Count(1) /\ ready' = Unlinked
             /\ call' = IF Unlinked THEN Expiring ELSE Idle
    <3>1. TypeOK'
      BY <1>5, <2>2, <2>3, <2>4, <2>6, UnlinkType
         DEF ExpireOldest, Unlinked, TypeInv, TypeOK, CallType
    <3>2. CallOK'
      BY <1>5, <2>5, <2>6, RestingCalls DEF ExpireOldest, TypeInv, CallOK
    <3> QED BY <3>1, <3>2 DEF TypeInv
  <2>7. CASE ready' = FALSE /\ call' = Idle /\ UNCHANGED <<media, index, dropped>>
    <3>1. TypeOK'
      BY <1>5, <2>2, <2>7 DEF ExpireOldest, TypeInv, TypeOK, CallType
    <3>2. CallOK'
      BY <1>5, <2>7, RestingCalls DEF ExpireOldest, TypeInv, CallOK
    <3> QED BY <3>1, <3>2 DEF TypeInv
  <2> QED BY <2>1, <2>6, <2>7
<1>6. CASE ExpireDone
  <2>1. TypeOK'
    BY <1>6, RestingCalls DEF ExpireDone, TypeInv, TypeOK, CallType
  <2>2. CallOK'
    BY <1>6, RestingCalls DEF ExpireDone, TypeInv, CallOK
  <2> QED BY <2>1, <2>2 DEF TypeInv
<1>7. CASE EvictOldest
  <2>1. PICK removed \in Works("remove"), dirOk \in Works("dir"),
             sizeRead \in Works("read") :
           \/ /\ Removable /\ removed
              /\ Unlink(dirOk, sizeRead)
              /\ dropped' = Count(IF Unlinked THEN 1 ELSE 2)
              /\ call' = IF Unlinked THEN call ELSE Idle
           \/ /\ ~(Removable /\ removed)
              /\ dropped' = Count(1)
              /\ call' = Idle
              /\ UNCHANGED <<media, index>>
    BY <1>7 DEF EvictOldest
  <2>2. call' \in {call, Idle} /\ call' \in CallType
    BY <2>1, RestingCalls DEF TypeInv, TypeOK, CallType
  <2>3. Count(1) \in 0..(CounterSpan - 1) /\ Count(2) \in 0..(CounterSpan - 1)
    BY CountType
  <2>4. CASE Removable /\ Unlink(dirOk, sizeRead)
             /\ dropped' = Count(IF Unlinked THEN 1 ELSE 2)
    <3>0. dropped' \in {Count(1), Count(2)}
      BY <2>4
    <3>1. TypeOK'
      BY <1>7, <2>2, <2>3, <2>4, <3>0, UnlinkType
         DEF EvictOldest, TypeInv, TypeOK, CallType
    <3>2. next' <= next /\ next' \in Nat /\ tmp' = tmp
      BY <2>4, UnlinkType, Bounds
    <3>3. CallOK'
      BY <1>7, <2>2, <3>2, RestingCalls, Bounds
         DEF EvictOldest, TypeInv, TypeOK, CallOK
    <3> QED BY <3>1, <3>3 DEF TypeInv
  <2>5. CASE dropped' = Count(1) /\ call' = Idle /\ UNCHANGED <<media, index>>
    <3>1. TypeOK'
      BY <1>7, <2>2, <2>3, <2>5 DEF EvictOldest, TypeInv, TypeOK, CallType
    <3>2. CallOK'
      BY <1>7, <2>5, RestingCalls DEF EvictOldest, TypeInv, CallOK
    <3> QED BY <3>1, <3>2 DEF TypeInv
  <2> QED BY <2>1, <2>4, <2>5
<1>8. CASE EvictDone
  <2>1. Count(1) \in 0..(CounterSpan - 1)
    BY CountType
  <2>2. call' \in CallType
    BY <1>8, RestingCalls DEF EvictDone, TypeInv, TypeOK, CallType, Operations
  <2>3. TypeOK'
    BY <1>8, <2>1, <2>2 DEF EvictDone, TypeInv, TypeOK, CallType
  <2>4. CallOK'
    BY <1>8, RestingCalls DEF EvictDone, TypeInv, TypeOK, CallOK
  <2> QED BY <2>3, <2>4 DEF TypeInv
<1>9. CASE WriteTemporary
  <2>1. NewRecord("ok") \in Record /\ NewRecord("payload") \in Record
        /\ NewRecord("ok").sample = produced /\ ~NewRecord("ok").attempted
        /\ NewRecord("ok").integrity = "ok"
    BY <1>9, NewRecordType DEF WriteTemporary
  <2>2. CASE EnqueueFailed(NewRecord("payload"))
    <3>1. TypeOK'
      BY <1>9, <2>1, <2>2, RestingCalls
         DEF WriteTemporary, EnqueueFailed, TypeInv, TypeOK, CallType
    <3>2. CallOK'
      BY <1>9, <2>2, RestingCalls
         DEF WriteTemporary, EnqueueFailed, TypeInv, CallOK
    <3> QED BY <3>1, <3>2 DEF TypeInv
  <2>3. CASE /\ tmp' = NewRecord("ok") /\ call' = [call EXCEPT !.op = "rename"]
             /\ UNCHANGED <<card, ready, index, accepted>>
    <3>1. TypeOK'
      BY <1>9, <2>1, <2>3 DEF WriteTemporary, TypeInv, TypeOK, Operations
    <3>2. CallOK'
      BY <1>9, <2>1, <2>3 DEF WriteTemporary, TypeInv, TypeOK, CallOK
    <3> QED BY <3>1, <3>2 DEF TypeInv
  <2> QED BY <1>9, <2>2, <2>3 DEF WriteTemporary
<1>10. CASE RenameToRecord
  <2>1. CASE EnqueueFailed(tmp)
    <3>1. TypeOK'
      BY <1>10, <2>1, RestingCalls
         DEF RenameToRecord, EnqueueFailed, TypeInv, TypeOK, CallType
    <3>2. CallOK'
      BY <1>10, <2>1, RestingCalls
         DEF RenameToRecord, EnqueueFailed, TypeInv, CallOK
    <3> QED BY <3>1, <3>2 DEF TypeInv
  <2>2. CASE /\ card' = [card EXCEPT ![next] = tmp]
             /\ tmp' = NoFile
             /\ oldest' = IF queued = 0 THEN next ELSE oldest
             /\ queued' = queued + 1
             /\ bytes' = bytes + call.size
             /\ next' = next + 1
             /\ accepted' = accepted \cup {call.sample}
             /\ call' = Idle
             /\ UNCHANGED ready
    <3>1. next \in Ids /\ next + 1 \in 1..(MaxRecordId + 1) /\ next \in 0..MaxRecordId
      BY <1>10, Bounds DEF RenameToRecord, TypeInv, TypeOK, CallOK, Ids
    <3>2. call.sample \in 1..MaxSamples
      BY <1>10, Bounds DEF RenameToRecord, TypeInv, TypeOK, CallOK
    <3>3. card' \in [Ids -> Record \cup {NoFile}]
      BY <1>10, <2>2, <3>1 DEF RenameToRecord, TypeInv, TypeOK, CallOK
    <3>4. /\ next' \in 1..(MaxRecordId + 1) /\ oldest' \in 0..MaxRecordId
          /\ queued' \in Nat
      BY <2>2, <3>1 DEF TypeInv, TypeOK
    <3>9. bytes' \in Nat
      <4>1. call.size \in Nat
        BY <1>10, SizesAreNumbers DEF RenameToRecord, TypeInv, CallOK
      <4> QED BY <2>2, <4>1 DEF TypeInv, TypeOK
    <3>5. accepted' \subseteq 1..MaxSamples
      BY <2>2, <3>2 DEF TypeInv, TypeOK
    <3>6. call' \in CallType /\ tmp' \in Record \cup {NoFile}
      BY <2>2, RestingCalls
    <3>7. TypeOK'
      BY <1>10, <2>2, <3>3, <3>4, <3>5, <3>6, <3>9
         DEF RenameToRecord, TypeInv, TypeOK, CallType
    <3>8. CallOK'
      BY <1>10, <2>2, RestingCalls DEF RenameToRecord, TypeInv, CallOK
    <3> QED BY <3>7, <3>8 DEF TypeInv
  <2> QED BY <1>10, <2>1, <2>2 DEF RenameToRecord
<1>11. CASE MarkAttempted \/ MarkFails
  <2>1. call.id \in Ids /\ card[call.id] # NoFile /\ card[call.id] \in Record
        /\ call.sample \in 1..MaxSamples /\ call.op = "peeked"
    BY <1>11 DEF MarkAttempted, MarkFails, TypeInv, TypeOK, CallOK, Record
  <2>2. card' \in [Ids -> Record \cup {NoFile}]
    <3>1. /\ [card[call.id] EXCEPT !.attempted = TRUE] \in Record
          /\ [card[call.id] EXCEPT !.integrity = "header"] \in Record
      BY <2>1, RecordUpdate
    <3> QED BY <1>11, <2>1, <3>1 DEF MarkAttempted, MarkFails, TypeInv, TypeOK
  <2>3. TypeOK'
    BY <1>11, <2>1, <2>2, RestingCalls
       DEF MarkAttempted, MarkFails, TypeInv, TypeOK, CallType
  <2>4. CallOK'
    BY <1>11, RestingCalls DEF MarkAttempted, MarkFails, TypeInv, CallOK
  <2> QED BY <2>3, <2>4 DEF TypeInv
<1>12. ASSUME NEW size \in Sizes, NEW deferred \in BOOLEAN,
              EnqueueStart(size, deferred)
       PROVE  TypeInv'
  <2>1. produced' = produced + 1 /\ produced + 1 \in 1..MaxSamples
    BY <1>12, Bounds DEF EnqueueStart, TypeInv, TypeOK
  <2>2. Call("evict", produced + 1, size, deferred, 0, FALSE) \in CallType
    BY <2>1, Bounds DEF Call, CallType, Operations
  <2>3. CASE /\ ready /\ next <= MaxRecordId
             /\ call' = Call("evict", produced + 1, size, deferred, 0, FALSE)
    <3>0. produced' \in 0..MaxSamples
      BY <2>1, Bounds
    <3>1. call' \in CallType
      BY <2>2, <2>3
    <3>2. TypeOK'
      BY <1>12, <3>0, <3>1 DEF EnqueueStart, TypeInv, TypeOK, CallType
    <3>3. CallOK'
      BY <1>12, <2>1, <2>3 DEF EnqueueStart, TypeInv, TypeOK, CallOK, Call
    <3> QED BY <3>2, <3>3 DEF TypeInv
  <2>4. CASE UNCHANGED call
    <3>1. TypeOK'
      BY <1>12, <2>1, <2>4 DEF EnqueueStart, TypeInv, TypeOK
    <3>2. CallOK'
      BY <1>12, <2>4, RestingCalls DEF EnqueueStart, TypeInv, CallOK
    <3> QED BY <3>1, <3>2 DEF TypeInv
  <2> QED BY <1>12, <2>3, <2>4 DEF EnqueueStart
<1>13. CASE Peek
  <2>1. oldest \in Ids /\ queued # 0
    BY <1>13, Bounds DEF Peek, TypeInv, TypeOK, Ids
  <2>2. CASE /\ card[oldest] # NoFile
             /\ call' = Call("peeked", card[oldest].sample, 0, FALSE, oldest,
                             ShouldMarkReplayed(card[oldest]))
             /\ UNCHANGED <<media, index, dropped>>
    <3>1. card[oldest] \in Record
      BY <2>1, <2>2 DEF TypeInv, TypeOK
    <3>2. ShouldMarkReplayed(card[oldest]) \in BOOLEAN
      BY <3>1 DEF ShouldMarkReplayed, Record
    <3>3. call' \in CallType
      BY <2>1, <2>2, <3>2, PeekedCall
    <3>4. TypeOK'
      BY <1>13, <2>2, <3>3 DEF Peek, TypeInv, TypeOK, CallType
    <3>5. CallOK'
      BY <1>13, <2>1, <2>2 DEF Peek, TypeInv, CallOK, Call
    <3> QED BY <3>4, <3>5 DEF TypeInv
  <2>3. CASE /\ UNCHANGED call /\ Removable
             /\ \E dirOk \in Works("dir"), sizeRead \in Works("read") :
                   Unlink(dirOk, sizeRead)
             /\ dropped' = Count(1)
    <3>1. Count(1) \in 0..(CounterSpan - 1)
      BY CountType
    <3>2. TypeOK'
      BY <1>13, <2>3, <3>1, UnlinkType DEF Peek, TypeInv, TypeOK
    <3>3. CallOK'
      BY <1>13, <2>3, RestingCalls DEF Peek, TypeInv, CallOK
    <3> QED BY <3>2, <3>3 DEF TypeInv
  <2>4. CASE UNCHANGED <<media, index, dropped, call>>
    <3>1. TypeOK'
      BY <1>13, <2>4 DEF Peek, TypeInv, TypeOK
    <3>2. CallOK'
      BY <1>13, <2>4, RestingCalls DEF Peek, TypeInv, CallOK
    <3> QED BY <3>1, <3>2 DEF TypeInv
  <2> QED BY <1>13, <2>2, <2>3, <2>4 DEF Peek
<1>14. ASSUME NEW id \in Ids, Acknowledge(id) PROVE TypeInv'
  <2>1. PICK dirOk, sizeRead : Unlink(dirOk, sizeRead)
    BY <1>14 DEF Acknowledge
  <2>2. TypeOK'
    BY <1>14, <2>1, UnlinkType DEF Acknowledge, TypeInv, TypeOK
  <2>3. CallOK'
    BY <1>14, RestingCalls DEF Acknowledge, TypeInv, CallOK
  <2> QED BY <2>2, <2>3 DEF TypeInv
<1>15. CASE PowerLoss
  <2>1. boot + 1 \in 1..MaxBoots
    BY <1>15, Bounds DEF PowerLoss, TypeInv, TypeOK
  <2>2. (droppedBefore + dropped) % CounterSpan \in 0..(CounterSpan - 1)
    <3>1. droppedBefore + dropped \in Nat
      BY Bounds DEF TypeInv, TypeOK
    <3> QED BY <3>1, Bounds, Remainder
  <2>3. tmp' \in Record \cup {NoFile}
    BY <1>15, NewRecordType DEF PowerLoss, TypeInv, TypeOK
  <2>4. 1 \in 1..(MaxRecordId + 1) /\ 0 \in 0..MaxRecordId
        /\ 0 \in 0..(CounterSpan - 1)
    BY Bounds
  <2>5. TypeOK'
    BY <1>15, <2>1, <2>2, <2>3, <2>4, RestingCalls
       DEF PowerLoss, TypeInv, TypeOK, CallType
  <2>6. CallOK'
    BY <1>15, RestingCalls DEF PowerLoss, CallOK
  <2> QED BY <2>5, <2>6 DEF TypeInv
<1>16. CASE StorageChanges
  <2>1. TypeOK'
    BY <1>16 DEF StorageChanges, TypeInv, TypeOK
  <2>2. CallOK'
    BY <1>16 DEF StorageChanges, TypeInv, CallOK
  <2> QED BY <2>1, <2>2 DEF TypeInv
<1>17. CASE TimePasses
  <2>1. epoch' \in 1..MaxEpoch /\ timeValid' \in BOOLEAN
    <3>1. CASE epoch < MaxEpoch /\ epoch' = epoch + 1 /\ UNCHANGED timeValid
      BY <3>1, Bounds DEF TypeInv, TypeOK
    <3>2. CASE timeValid' = TRUE /\ UNCHANGED epoch
      BY <3>2 DEF TypeInv, TypeOK
    <3> QED BY <1>17, <3>1, <3>2 DEF TimePasses
  <2>2. TypeOK'
    BY <1>17, <2>1 DEF TimePasses, TypeInv, TypeOK
  <2>3. CallOK'
    BY <1>17 DEF TimePasses, TypeInv, CallOK
  <2> QED BY <2>2, <2>3 DEF TypeInv
<1>18. CASE Corrupt
  <2>1. PICK id \in Files, damage \in {"payload", "header"} :
          card' = [card EXCEPT ![id].integrity = damage]
    BY <1>18 DEF Corrupt
  <2>2. card[id] \in Record /\ id \in Ids
    BY DEF Files, TypeInv, TypeOK
  <2>3. card' \in [Ids -> Record \cup {NoFile}]
    BY <2>1, <2>2 DEF TypeInv, TypeOK, Record
  <2>4. \A i \in Ids : card[i] # NoFile =>
          card'[i] # NoFile /\ card'[i].sample = card[i].sample
    BY <2>1, <2>2, NoFileAssumption DEF TypeInv, TypeOK, Record
  <2>5. TypeOK'
    BY <1>18, <2>3 DEF Corrupt, TypeInv, TypeOK
  <2>6. CallOK'
    BY <1>18, <2>4 DEF Corrupt, TypeInv, CallOK
  <2> QED BY <2>5, <2>6 DEF TypeInv
<1> QED
  BY <1>1, <1>2, <1>3, <1>4, <1>5, <1>6, <1>7, <1>8, <1>9, <1>10, <1>11,
     <1>12, <1>13, <1>14, <1>15, <1>16, <1>17, <1>18
     DEF Next, LoopStep

\* Every variable keeps the type of the field or file it stands for, whatever
\* card operations fail and wherever power is lost.
THEOREM TypeCorrect == Spec => []TypeOK
<1>1. Spec => []TypeInv
  BY TypeInit, TypeStep, PTL DEF Spec
<1>2. TypeInv => TypeOK
  BY DEF TypeInv
<1> QED BY <1>1, <1>2, PTL
-----------------------------------------------------------------------------
(* An honest replay flag                                                   *)

ReplayInv == TypeInv /\ SamplesOK /\ ReplayFlagHonest

\* A step that at most removes files and damages records.
FewerFiles ==
    \A id \in Files' :
        /\ id \in Files
        /\ card'[id].sample = card[id].sample
        /\ card'[id].attempted = card[id].attempted

\* Settled samples were produced.
LEMMA SettledType ==
    ASSUME TypeInv
    PROVE  Settled \in Nat /\ Settled <= produced /\ produced \in Nat
BY Bounds DEF Settled, TypeInv, TypeOK, CallOK

\* Removing files keeps the relation of samples to records.
LEMMA FewerSamples ==
    ASSUME TypeInv, SamplesOK, FewerFiles, UNCHANGED <<attempted, accepted>>,
           Settled' \in Nat, Settled <= Settled'
    PROVE  SamplesOK'
<1>0. Settled \in Nat
  BY SettledType
<1>1. \A s \in 1..Settled : s \in 1..Settled'
  BY <1>0
<1>2. attempted' \subseteq 1..Settled' /\ accepted' \subseteq 1..Settled'
  BY <1>1 DEF SamplesOK
<1>3. \A id \in Files' : card'[id].sample \in 1..Settled'
  BY <1>1 DEF SamplesOK, FewerFiles
<1>4. \A id \in Files' : card'[id].sample \in attempted' => card'[id].attempted
  BY DEF SamplesOK, FewerFiles
<1>5. \A i, j \in Files' : card'[i].sample = card'[j].sample => i = j
  BY DEF SamplesOK, FewerFiles
<1> QED BY <1>2, <1>3, <1>4, <1>5 DEF SamplesOK

\* A step that leaves the card alone removes no file.
LEMMA SameFiles == card' = card => FewerFiles
BY DEF FewerFiles, Files

\* So does a removal.
LEMMA UnlinkFewer ==
    ASSUME TypeInv, NEW dirOk, NEW sizeRead, Unlink(dirOk, sizeRead)
    PROVE  FewerFiles
BY DEF Unlink, FewerFiles, Files, TypeInv, TypeOK

\* So does begin, with its scan.
LEMMA BeginFewer ==
    ASSUME TypeInv, NEW id, Begin(id)
    PROVE  FewerFiles
<1>1. CASE card' = card
  BY <1>1, SameFiles
<1>2. CASE Scan
  <2>1. PICK gone : card' = [i \in Ids |-> IF i \in gone THEN NoFile ELSE card[i]]
    BY <1>2, Zenon DEF Scan
  <2> QED BY <2>1 DEF FewerFiles, Files
<1> QED BY <1>1, <1>2 DEF Begin, media

\* A step outside enqueue's last one settles no sample.
LEMMA SettledGrows ==
    ASSUME TypeInv, TypeInv', produced' = produced,
           call'.op \in {"evict", "write", "rename"} =>
               call.op \in {"evict", "write", "rename"}
    PROVE  Settled' \in Nat /\ Settled <= Settled'
<1>1. Settled' \in Nat
  BY Bounds DEF Settled, TypeInv, TypeOK, CallOK
<1>2. produced \in Nat
  BY SettledType
<1>3. Settled <= Settled'
  BY <1>2 DEF Settled
<1> QED BY <1>1, <1>3

\* No sample was handed on at the start.
LEMMA ReplayInit == Init => ReplayInv
<1> SUFFICES ASSUME Init PROVE ReplayInv
  OBVIOUS
<1>1. TypeInv
  BY TypeInit
<1>2. Files = {}
  BY DEF Init, Files
<1>3. SamplesOK
  BY <1>2 DEF Init, SamplesOK
<1>4. ReplayFlagHonest
  BY RestingCalls DEF Init, ReplayFlagHonest
<1> QED BY <1>1, <1>3, <1>4 DEF ReplayInv

\* Every step but the three below at most removes files and hands nothing on.
LEMMA ReplayPlainStep ==
    ASSUME ReplayInv, TypeInv', FewerFiles,
           UNCHANGED <<attempted, accepted, produced>>,
           call'.op \in {"evict", "write", "rename"} =>
               call.op \in {"evict", "write", "rename"},
           call'.op = "peeked" => call' = call
    PROVE  ReplayInv'
<1>1. SamplesOK'
  BY FewerSamples, SettledGrows DEF ReplayInv
<1>2. ReplayFlagHonest'
  BY DEF ReplayInv, ReplayFlagHonest
<1> QED BY <1>1, <1>2 DEF ReplayInv

\* Every step keeps the attempts written where they are needed.
LEMMA ReplayStep == ReplayInv /\ [Next]_vars => ReplayInv'
<1> SUFFICES ASSUME ReplayInv, [Next]_vars PROVE ReplayInv'
  OBVIOUS
<1>0. TypeInv /\ TypeInv'
  BY TypeStep DEF ReplayInv
<1> USE DEF media, index, clocks, history
<1>1. CASE UNCHANGED vars
  BY <1>0, <1>1, SameFiles, ReplayPlainStep DEF vars
<1>2. CASE BeginAtBoot \/ UpdateRetry
  <2>1. CASE \E id : Begin(id)
    BY <1>0, <2>1, BeginFewer, RestingCalls, ReplayPlainStep DEF Begin
  <2>2. CASE call' = Idle /\ UNCHANGED <<card, history>>
    BY <1>0, <2>2, SameFiles, RestingCalls, ReplayPlainStep
  <2> QED BY <1>2, <2>1, <2>2 DEF BeginAtBoot, UpdateRetry
<1>3. CASE UpdateUnavailable \/ StorageChanges \/ TimePasses
  BY <1>0, <1>3, SameFiles, ReplayPlainStep
     DEF UpdateUnavailable, StorageChanges, TimePasses
<1>4. CASE ExpireOldest
  <2>1. CASE \E dirOk, sizeRead : Unlink(dirOk, sizeRead)
    BY <1>0, <1>4, <2>1, UnlinkFewer, RestingCalls, ReplayPlainStep
       DEF ExpireOldest
  <2>2. CASE card' = card
    BY <1>0, <1>4, <2>2, SameFiles, RestingCalls, ReplayPlainStep
       DEF ExpireOldest
  <2> QED BY <1>4, <2>1, <2>2 DEF ExpireOldest
<1>5. CASE ExpireDone
  BY <1>0, <1>5, SameFiles, RestingCalls, ReplayPlainStep DEF ExpireDone
<1>6. CASE EvictOldest
  <2>1. CASE \E dirOk, sizeRead : Unlink(dirOk, sizeRead)
    BY <1>0, <1>6, <2>1, UnlinkFewer, RestingCalls, ReplayPlainStep
       DEF EvictOldest
  <2>2. CASE card' = card
    BY <1>0, <1>6, <2>2, SameFiles, RestingCalls, ReplayPlainStep
       DEF EvictOldest
  <2> QED BY <1>6, <2>1, <2>2 DEF EvictOldest
<1>7. CASE EvictDone
  <2>1. call'.op \in {"write", "idle"}
    BY <1>0, <1>7, RestingCalls DEF EvictDone, TypeInv, TypeOK
  <2> QED BY <1>0, <1>7, <2>1, SameFiles, ReplayPlainStep DEF EvictDone
<1>8. CASE WriteTemporary
  <2>1. call'.op \in {"rename", "idle"} /\ card' = card
    BY <1>0, <1>8, RestingCalls
       DEF WriteTemporary, EnqueueFailed, TypeInv, TypeOK
  <2>2. UNCHANGED <<attempted, accepted, produced>>
    BY <1>8 DEF WriteTemporary, EnqueueFailed
  <2>3. call.op = "write"
    BY <1>8 DEF WriteTemporary
  <2> QED BY <1>0, <2>1, <2>2, <2>3, SameFiles, ReplayPlainStep
<1>9. CASE RenameToRecord
  <2>1. CASE EnqueueFailed(tmp)
    BY <1>0, <1>9, <2>1, SameFiles, RestingCalls, ReplayPlainStep
       DEF RenameToRecord, EnqueueFailed
  <2>2. CASE /\ card' = [card EXCEPT ![next] = tmp]
             /\ accepted' = accepted \cup {call.sample}
             /\ call' = Idle
    <3>1. /\ tmp.sample = produced /\ tmp \in Record
          /\ produced \in Nat /\ produced > 0
          /\ call.sample = produced /\ next \in Ids
          /\ Settled = produced - 1 /\ Settled' = produced
      BY <1>0, <1>9, <2>2, RestingCalls, Bounds
         DEF RenameToRecord, TypeInv, TypeOK, CallOK, Settled, Ids
    <3>2. ~(tmp.sample \in attempted)
      BY <3>1 DEF ReplayInv, SamplesOK
    <3>3. \A id \in Files' : \/ id = next /\ card'[id] = tmp
                             \/ id \in Files /\ card'[id] = card[id]
      BY <1>0, <2>2, <3>1 DEF Files, TypeInv, TypeOK
    <3>4. \A id \in Files : card[id].sample \in 1..(produced - 1)
      BY <3>1 DEF ReplayInv, SamplesOK
    <3>5. attempted' = attempted
      BY <1>9 DEF RenameToRecord
    <3>6. attempted' \subseteq 1..Settled' /\ accepted' \subseteq 1..Settled'
      BY <2>2, <3>1, <3>5 DEF ReplayInv, SamplesOK
    <3>7. \A id \in Files' : card'[id].sample \in 1..Settled'
      BY <3>1, <3>3, <3>4
    <3>8. \A id \in Files' : card'[id].sample \in attempted' => card'[id].attempted
      BY <3>2, <3>3, <3>5 DEF ReplayInv, SamplesOK
    <3>9. \A i, j \in Files' : card'[i].sample = card'[j].sample => i = j
      <4> SUFFICES ASSUME NEW i \in Files', NEW j \in Files',
                          card'[i].sample = card'[j].sample
                   PROVE  i = j
        OBVIOUS
      <4>1. CASE i = next /\ card'[i] = tmp
        BY <3>1, <3>3, <3>4, <4>1
      <4>2. CASE j = next /\ card'[j] = tmp
        BY <3>1, <3>3, <3>4, <4>2
      <4>3. CASE /\ i \in Files /\ card'[i] = card[i]
                 /\ j \in Files /\ card'[j] = card[j]
        BY <4>3 DEF ReplayInv, SamplesOK
      <4> QED BY <3>3, <4>1, <4>2, <4>3
    <3>10. SamplesOK'
      BY <3>6, <3>7, <3>8, <3>9 DEF SamplesOK
    <3>11. ReplayFlagHonest'
      BY <2>2, RestingCalls DEF ReplayFlagHonest
    <3> QED BY <1>0, <3>10, <3>11 DEF ReplayInv
  <2> QED BY <1>9, <2>1, <2>2 DEF RenameToRecord
<1>10. CASE MarkAttempted \/ MarkFails
  <2>1. call.op = "peeked" /\ call' = Idle /\ call.id \in Files
        /\ card[call.id] \in Record /\ card[call.id].sample = call.sample
        /\ call.sample \in 1..Settled
    BY <1>0, <1>10 DEF MarkAttempted, MarkFails, TypeInv, TypeOK, CallOK,
                       Files, ReplayInv, SamplesOK
  <2>2. UNCHANGED <<accepted, produced>>
    BY <1>10 DEF MarkAttempted, MarkFails
  <2>3. Settled = produced /\ Settled' = produced
    BY <2>1, <2>2, RestingCalls DEF Settled
  <2>4. CASE /\ card' = [card EXCEPT ![call.id].attempted = TRUE]
             /\ attempted' = attempted \cup {call.sample}
    <3>1. Files' = Files
      BY <1>0, <2>1, <2>4, RecordUpdate, NoFileAssumption
         DEF Files, TypeInv, TypeOK
    <3>2. \A id \in Files : id # call.id => card'[id] = card[id]
      BY <1>0, <2>4 DEF Files, TypeInv, TypeOK
    <3>3. /\ card'[call.id].attempted = TRUE
          /\ card'[call.id].sample = call.sample
      BY <1>0, <2>1, <2>4 DEF Record, Files, TypeInv, TypeOK
    <3>4. attempted' \subseteq 1..Settled' /\ accepted' \subseteq 1..Settled'
      BY <2>1, <2>2, <2>3, <2>4 DEF ReplayInv, SamplesOK
    <3>5. \A id \in Files' : card'[id].sample = card[id].sample
      BY <2>1, <3>1, <3>2, <3>3
    <3>6. \A id \in Files' : card'[id].sample \in 1..Settled'
      BY <2>3, <3>1, <3>5 DEF ReplayInv, SamplesOK
    <3>7. \A i, j \in Files' : card'[i].sample = card'[j].sample => i = j
      BY <3>1, <3>5 DEF ReplayInv, SamplesOK
    <3>8. \A id \in Files' : card'[id].sample \in attempted' => card'[id].attempted
      <4> SUFFICES ASSUME NEW id \in Files', card'[id].sample \in attempted',
                          id # call.id
                   PROVE  card'[id].attempted
        BY <3>3
      <4>1. card[id].sample # call.sample
        BY <2>1, <3>1 DEF ReplayInv, SamplesOK
      <4>2. card[id].sample \in attempted
        BY <2>4, <3>5, <4>1
      <4> QED BY <3>1, <3>2, <4>2 DEF ReplayInv, SamplesOK
    <3>9. SamplesOK'
      BY <3>4, <3>6, <3>7, <3>8 DEF SamplesOK
    <3>10. ReplayFlagHonest'
      BY <2>1, RestingCalls DEF ReplayFlagHonest
    <3> QED BY <1>0, <3>9, <3>10 DEF ReplayInv
  <2>5. CASE UNCHANGED <<card, attempted>>
    BY <1>0, <2>1, <2>2, <2>5, SameFiles, RestingCalls, ReplayPlainStep
  <2>6. CASE /\ card' = [card EXCEPT ![call.id].integrity = "header"]
             /\ UNCHANGED attempted
    <3>1. FewerFiles
      BY <1>0, <2>1, <2>6, RecordUpdate, NoFileAssumption
         DEF FewerFiles, Files, TypeInv, TypeOK, Record
    <3> QED BY <1>0, <2>1, <2>2, <2>6, <3>1, RestingCalls, ReplayPlainStep
  <2> QED BY <1>10, <2>4, <2>5, <2>6 DEF MarkAttempted, MarkFails
<1>11. ASSUME NEW size \in Sizes, NEW deferred \in BOOLEAN,
              EnqueueStart(size, deferred)
       PROVE  ReplayInv'
  <2>1. call = Idle /\ produced' = produced + 1 /\ card' = card
        /\ UNCHANGED <<attempted, accepted>>
    BY <1>11 DEF EnqueueStart
  <2>2. Settled = produced /\ produced \in Nat
    BY <1>0, <2>1, RestingCalls DEF Settled, TypeInv, TypeOK
  <2>3. call'.op \in {"evict", "idle"}
    BY <1>11, RestingCalls DEF EnqueueStart, Call
  <2>4. Settled' \in Nat /\ Settled <= Settled'
    BY <2>1, <2>2, <2>3 DEF Settled
  <2>5. SamplesOK'
    BY <1>0, <2>1, <2>4, SameFiles, FewerSamples DEF ReplayInv
  <2>6. ReplayFlagHonest'
    BY <2>3 DEF ReplayFlagHonest
  <2> QED BY <1>0, <2>5, <2>6 DEF ReplayInv
<1>12. CASE Peek
  <2>1. UNCHANGED <<attempted, accepted, produced>>
    BY <1>12 DEF Peek
  <2>2. CASE /\ card[oldest] # NoFile
             /\ call' = Call("peeked", card[oldest].sample, 0, FALSE, oldest,
                             ShouldMarkReplayed(card[oldest]))
             /\ card' = card
    <3>1. oldest \in Files
      BY <1>0, <1>12, <2>2, Bounds DEF Peek, TypeInv, TypeOK, Files, Ids
    <3>2. /\ call'.op = "peeked" /\ call'.sample = card[oldest].sample
          /\ call'.replayed = ShouldMarkReplayed(card[oldest])
      BY <2>2 DEF Call
    <3>3. card[oldest].sample \in attempted => card[oldest].attempted
      BY <3>1 DEF ReplayInv, SamplesOK
    <3>4. ReplayFlagHonest'
      BY <2>1, <3>2, <3>3 DEF ReplayFlagHonest, ShouldMarkReplayed
    <3>5. SamplesOK'
      BY <1>0, <1>12, <2>1, <2>2, <3>2, SameFiles, FewerSamples, SettledGrows
         DEF ReplayInv
    <3> QED BY <1>0, <3>4, <3>5 DEF ReplayInv
  <2>3. CASE call' = call /\ \E dirOk, sizeRead : Unlink(dirOk, sizeRead)
    BY <1>0, <2>1, <2>3, UnlinkFewer, ReplayPlainStep DEF ReplayInv
  <2>4. CASE call' = call /\ card' = card
    BY <1>0, <2>1, <2>4, SameFiles, ReplayPlainStep
  <2> QED BY <1>12, <2>2, <2>3, <2>4 DEF Peek
<1>13. ASSUME NEW id \in Ids, Acknowledge(id) PROVE ReplayInv'
  BY <1>0, <1>13, UnlinkFewer, ReplayPlainStep DEF Acknowledge
<1>14. CASE PowerLoss
  BY <1>0, <1>14, SameFiles, RestingCalls, ReplayPlainStep DEF PowerLoss
<1>15. CASE Corrupt
  <2>1. PICK id \in Files, damage \in {"payload", "header"} :
          card' = [card EXCEPT ![id].integrity = damage]
    BY <1>15 DEF Corrupt
  <2>2. FewerFiles
    BY <1>0, <2>1 DEF FewerFiles, Files, TypeInv, TypeOK, Record
  <2> QED BY <1>0, <1>15, <2>2, ReplayPlainStep DEF Corrupt
<1> QED
  BY <1>1, <1>2, <1>3, <1>4, <1>5, <1>6, <1>7, <1>8, <1>9, <1>10, <1>11,
     <1>12, <1>13, <1>14, <1>15 DEF Next, LoopStep

\* Whatever card operations fail, and however often power is lost, a sample
\* that was handed on for publication is never peeked again as a first
\* delivery: shouldMarkReplayed is true for it.
THEOREM ReplayHonest == Spec => []ReplayFlagHonest
<1>1. Spec => []ReplayInv
  BY ReplayInit, ReplayStep, PTL DEF Spec
<1>2. ReplayInv => ReplayFlagHonest
  BY DEF ReplayInv
<1> QED BY <1>1, <1>2, PTL

-----------------------------------------------------------------------------
(* What a step does to the card                                            *)

\* No card fault damages a record that has its name.
NoDamage == FaultKinds \cap {"corrupt", "rewrite"} = {}

\* The steps that may leave a stored record torn.
Damages == (MarkFails /\ "rewrite" \in FaultKinds) \/ Corrupt

\* A step that removes files, or rewrites headers.
KeepsRecords ==
    \A id \in Files' :
        /\ id \in Files
        /\ card'[id].sample = card[id].sample
        /\ card'[id].size = card[id].size
        /\ ~Damages => card'[id].integrity = card[id].integrity

\* The step that gives the temporary file its name.
StoresRecord ==
    /\ call.op = "rename"
    /\ card[next] = NoFile
    /\ card' = [card EXCEPT ![next] = tmp]

\* A step that leaves the card alone keeps its records.
LEMMA SameCardKeeps == card' = card => KeepsRecords
BY DEF KeepsRecords, Files

\* So does a removal.
LEMMA UnlinkKeeps ==
    ASSUME TypeInv, NEW dirOk, NEW sizeRead, Unlink(dirOk, sizeRead)
    PROVE  KeepsRecords
BY DEF Unlink, KeepsRecords, Files, TypeInv, TypeOK

\* So does begin, with its scan.
LEMMA BeginKeeps ==
    ASSUME TypeInv, NEW id, Begin(id)
    PROVE  KeepsRecords
<1>1. CASE card' = card
  BY <1>1, SameCardKeeps
<1>2. CASE Scan
  <2>1. PICK gone : card' = [i \in Ids |-> IF i \in gone THEN NoFile ELSE card[i]]
    BY <1>2, Zenon DEF Scan
  <2> QED BY <2>1 DEF KeepsRecords, Files
<1> QED BY <1>1, <1>2 DEF Begin, media

\* So does the rewriting of a header, or damage to one.
LEMMA HeaderKeeps ==
    ASSUME TypeInv, NEW id \in Ids, card[id] # NoFile,
           \/ card' = [card EXCEPT ![id].attempted = TRUE]
           \/ /\ Damages
              /\ \E damage \in {"payload", "header"} :
                    card' = [card EXCEPT ![id].integrity = damage]
    PROVE  KeepsRecords
BY DEF KeepsRecords, Files, TypeInv, TypeOK, Record

\* Whatever fails and wherever power is lost, a step either keeps the records
\* it leaves on the card as they were, or gives a file its name.
LEMMA KeepsOrStores ==
    ASSUME TypeInv, [Next]_vars
    PROVE  KeepsRecords \/ StoresRecord
<1> USE DEF media, index, clocks, history
<1>1. CASE card' = card
  BY <1>1, SameCardKeeps
<1>2. CASE \E dirOk, sizeRead : Unlink(dirOk, sizeRead)
  BY <1>2, UnlinkKeeps
<1>3. CASE \E id : Begin(id)
  BY <1>3, BeginKeeps
<1>4. CASE StoresRecord
  BY <1>4
<1>5. CASE MarkAttempted \/ MarkFails
  <2>1. call.id \in Ids /\ (card' # card => card[call.id] # NoFile)
    BY <1>5 DEF MarkAttempted, MarkFails, TypeInv, CallOK
  <2>2. MarkFails /\ "rewrite" \in FaultKinds => Damages
    BY DEF Damages
  <2> QED BY <1>1, <1>5, <2>1, <2>2, HeaderKeeps DEF MarkAttempted, MarkFails
<1>6. CASE Corrupt
  <2>1. Damages
    BY <1>6 DEF Damages
  <2> QED BY <1>6, <2>1, HeaderKeeps DEF Corrupt, Files
<1>7. \/ card' = card
      \/ \E dirOk, sizeRead : Unlink(dirOk, sizeRead)
      \/ \E id : Begin(id)
      \/ StoresRecord
      \/ MarkAttempted \/ MarkFails \/ Corrupt
  <2>1. CASE UNCHANGED vars
    BY <2>1 DEF vars
  <2>2. CASE BeginAtBoot \/ UpdateUnavailable \/ UpdateRetry \/ ExpireDone \/ EvictDone
    BY <2>2 DEF BeginAtBoot, UpdateUnavailable, UpdateRetry, ExpireDone, EvictDone
  <2>3. CASE ExpireOldest \/ EvictOldest \/ Peek \/ \E id \in Ids : Acknowledge(id)
    BY <2>3 DEF ExpireOldest, EvictOldest, Peek, Acknowledge
  <2>4. CASE WriteTemporary \/ RenameToRecord
    BY <2>4 DEF WriteTemporary, RenameToRecord, EnqueueFailed, StoresRecord
  <2>5. CASE \/ \E size \in Sizes, deferred \in BOOLEAN : EnqueueStart(size, deferred)
             \/ PowerLoss \/ StorageChanges \/ TimePasses
    BY <2>5 DEF EnqueueStart, PowerLoss, StorageChanges, TimePasses
  <2> QED BY <2>1, <2>2, <2>3, <2>4, <2>5 DEF Next, LoopStep
<1> QED BY <1>1, <1>2, <1>3, <1>4, <1>5, <1>6, <1>7

\* The named temporary file joins the files of the card.
LEMMA StoredRecord ==
    ASSUME TypeInv, StoresRecord
    PROVE  /\ ready /\ next \in Ids \ Files /\ tmp \in Record
           /\ tmp.sample = produced /\ tmp.integrity = "ok" /\ ~tmp.attempted
           /\ Files' = Files \cup {next}
           /\ card'[next] = tmp
           /\ \A id \in Files : card'[id] = card[id]
<1>1. next \in Ids /\ tmp \in Record /\ ready
  BY Bounds DEF StoresRecord, TypeInv, TypeOK, CallOK, Ids
<1>2. tmp # NoFile
  BY <1>1, NoFileAssumption
<1> QED BY <1>1, <1>2 DEF StoresRecord, Files, TypeInv, TypeOK, CallOK

-----------------------------------------------------------------------------
(* No partial record                                                       *)

TornInv == TypeInv /\ NoTornRecord

\* The card is empty at the start.
LEMMA TornInit == Init => TornInv
BY TypeInit DEF Init, TornInv, NoTornRecord, Files

\* Every step keeps the records whole.
LEMMA TornStep == ASSUME NoDamage PROVE TornInv /\ [Next]_vars => TornInv'
<1> SUFFICES ASSUME TornInv, [Next]_vars PROVE TornInv'
  OBVIOUS
<1>1. TypeInv /\ TypeInv'
  BY TypeStep DEF TornInv
<1>2. CASE KeepsRecords
  <2>1. ~Damages
    BY DEF Damages, NoDamage, Corrupt
  <2> QED BY <1>1, <1>2, <2>1 DEF KeepsRecords, TornInv, NoTornRecord
<1>3. CASE StoresRecord
  <2>1. \A id \in Files' : id = next \/ id \in Files
    BY <1>1, <1>3, StoredRecord
  <2>2. \A id \in Files' : card'[id].integrity = "ok"
    BY <1>1, <1>3, <2>1, StoredRecord DEF TornInv, NoTornRecord
  <2> QED BY <1>1, <2>2 DEF TornInv, NoTornRecord
<1> QED BY <1>1, <1>2, <1>3, KeepsOrStores

\* Unless stored bits rot or the rewriting of a header is cut short, no file
\* of /spool is ever partial: power losses and failed writes leave their
\* remains in tmp.msg, which has no record's name.
THEOREM NothingTorn ==
    ASSUME NoDamage
    PROVE  Spec => []NoTornRecord
<1>1. TornInv => NoTornRecord
  BY DEF TornInv
<1>2. TornInv /\ [Next]_vars => TornInv'
  BY TornStep
<1> QED BY <1>1, <1>2, TornInit, PTL DEF Spec

-----------------------------------------------------------------------------
(* The index and the limits                                                *)

\* A scan that finds a record unreadable also removes it: either removals
\* work, or nothing makes a record unreadable.
NoOrphans ==
    \/ "remove" \notin FaultKinds
    \/ FaultKinds \cap {"read", "corrupt", "rewrite"} = {}

\* The sizes of the files on the card.
SizeOnCard == SizeIn(card, Files)

\* What the index may say of the card: bytes may be too much once a removed
\* file could not be measured, oldest may be lost when /spool cannot be read.
IndexInv ==
    ready =>
        /\ queued = Cardinality(Files)
        /\ SizeOnCard <= bytes
        /\ "read" \notin FaultKinds => bytes = SizeOnCard
        /\ oldest # 0 \/ "dir" \notin FaultKinds => oldest = OldestOf(Files)
        /\ \A id \in Files : id < next

\* ensureCapacity has made room for the sample that is being written.
Room ==
    call.op \in {"write", "rename"} =>
        /\ queued < MaxRecords
        /\ bytes + call.size <= MaxBytes
        /\ call.op = "rename" => tmp.size = call.size

Bounded == Cardinality(Files) <= MaxRecords /\ SizeOnCard <= MaxBytes

\* A record that is still whole where nothing can damage it.
Whole == NoDamage => NoTornRecord

CardInv == TypeInv /\ Whole /\ IndexInv /\ Room /\ Bounded

\* Every file has a record with a size.
LEMMA FileSizes ==
    ASSUME TypeInv
    PROVE  \A id \in Files : card[id] \in Record /\ card[id].size \in Nat \ {0}
<1>1. \A id \in Files : card[id] \in Record
  BY DEF Files, TypeInv, TypeOK
<1> QED BY <1>1, RecordSize

\* The files can be counted, and their sizes added.
LEMMA FilesFinite ==
    ASSUME TypeInv
    PROVE  /\ IsFiniteSet(Files) /\ Cardinality(Files) \in Nat
           /\ SizeOnCard \in Nat
<1>1. IsFiniteSet(Files) /\ Cardinality(Files) \in Nat
  BY FilesAreFinite DEF Files
<1> QED BY <1>1, FileSizes, SizeInType DEF SizeOnCard

\* A removal takes the oldest file off the card and off the index.
LEMMA UnlinkIndex ==
    ASSUME TypeInv, ready, IndexInv, Removable,
           NEW dirOk \in Works("dir"), NEW sizeRead \in Works("read"),
           Unlink(dirOk, sizeRead)
    PROVE  /\ oldest \in Files /\ oldest = OldestOf(Files)
           /\ Files' = Files \ {oldest}
           /\ Cardinality(Files') = Cardinality(Files) - 1
           /\ IndexInv'
           /\ "dir" \notin FaultKinds => Unlinked
<1> DEFINE rest == Files \ {oldest}
<1>1. oldest \in Files /\ oldest = OldestOf(Files)
  BY Bounds DEF Removable, Files, Ids, IndexInv, TypeInv, TypeOK
<1>2. Files' = rest /\ \A id \in rest : card'[id] = card[id]
  BY DEF Unlink, Files, TypeInv, TypeOK
<1>3. /\ IsFiniteSet(Files) /\ IsFiniteSet(rest)
      /\ Cardinality(Files) \in Nat \ {0}
      /\ Cardinality(rest) = Cardinality(Files) - 1
  BY <1>1, FilesFinite, OneLess
<1>4. queued' = Cardinality(rest)
  BY <1>3 DEF Unlink, IndexInv
<1>5. SizeIn(card', rest) = SizeIn(card, rest)
  BY <1>2, <1>3, SizeInSame
<1>6. SizeOnCard = card[oldest].size + SizeIn(card, rest)
  BY <1>1, <1>3, FileSizes, SizeInRemove DEF SizeOnCard
<1>7. SizeIn(card, rest) \in Nat /\ card[oldest].size \in Nat /\ bytes \in Nat
  BY <1>1, <1>3, FileSizes, SizeInType DEF TypeInv, TypeOK
<1>8. SizeOnCard' = SizeIn(card, rest)
  BY <1>2, <1>5 DEF SizeOnCard
<1> HIDE DEF rest
<1>9. SizeOnCard' <= bytes' /\ ("read" \notin FaultKinds => bytes' = SizeOnCard')
  <2>1. SizeOnCard <= bytes /\ ("read" \notin FaultKinds => bytes = SizeOnCard)
    BY DEF IndexInv
  <2>2. bytes' = IF sizeRead THEN bytes - card[oldest].size ELSE bytes
    BY <1>6, <1>7, <2>1 DEF Unlink, BytesLeft
  <2>3. "read" \notin FaultKinds => sizeRead
    BY DEF Works
  <2> QED BY <1>6, <1>7, <1>8, <2>1, <2>2, <2>3
<1>10. /\ oldest' # 0 \/ "dir" \notin FaultKinds => oldest' = OldestOf(Files')
       /\ "dir" \notin FaultKinds => Unlinked
  <2>1. queued = 1 <=> rest = {}
    BY <1>3, <1>4, FS_EmptySet DEF Unlink, IndexInv
  <2>2. OldestOf(rest) = 0 <=> rest = {}
    <3>1. rest \subseteq Ids /\ 0 \notin Ids
      BY Bounds DEF rest, Files, Ids
    <3> QED BY <3>1, OldestOfFiles
  <2>3. "dir" \notin FaultKinds => dirOk
    BY DEF Works
  <2>4. oldest' = IF queued = 1 \/ ~dirOk THEN 0 ELSE OldestOf(rest)
    BY DEF Unlink, rest
  <2>5. queued' = 0 <=> rest = {}
    BY <1>3, <1>4, FS_EmptySet
  <2> QED BY <1>2, <2>1, <2>2, <2>3, <2>4, <2>5 DEF Unlinked
<1>11. \A id \in Files' : id < next'
  <2>1. CASE queued = 1
    <3>1. rest = {}
      BY <1>3, <1>4, <2>1, FS_EmptySet DEF Unlink, IndexInv
    <3> QED BY <1>2, <3>1
  <2>2. CASE queued # 1
    BY <1>2, <2>2 DEF Unlink, NextLeft, IndexInv, rest
  <2> QED BY <2>1, <2>2
<1>12. IndexInv'
  BY <1>2, <1>4, <1>9, <1>10, <1>11 DEF IndexInv
<1> QED BY <1>1, <1>2, <1>3, <1>10, <1>12 DEF rest

\* What a scan finds invalid, and what it does with it.
LEMMA ScanIndex ==
    ASSUME NoOrphans, TypeInv, Whole, Scan
    PROVE  /\ Files' \subseteq Files
           /\ \A id \in Files' : card'[id] = card[id]
           /\ IndexInv'
           /\ dropped' = Count(Cardinality(Files) - Cardinality(Files'))
           /\ Cardinality(Files') <= Cardinality(Files)
           /\ NoDamage /\ "read" \notin FaultKinds => card' = card
           /\ "read" \notin FaultKinds =>
                 \A id \in Files \ Files' : card[id].integrity = "header"
<1>1. PICK unread \in IF "read" \in FaultKinds THEN SUBSET Files ELSE {{}} :
        LET invalid == {id \in Files : card[id].integrity = "header"} \cup unread
            valid == Files \ invalid
        IN  \E kept \in IF "remove" \in FaultKinds THEN SUBSET invalid ELSE {{}} :
              /\ card' = [id \in Ids |->
                            IF id \in invalid \ kept THEN NoFile ELSE card[id]]
              /\ queued' = Cardinality(valid)
              /\ bytes' = TotalSize(valid)
              /\ oldest' = OldestOf(valid)
              /\ next' = NextAfter(valid)
              /\ dropped' = Count(Counted(invalid))
              /\ ready' = (NextAfter(valid) <= MaxRecordId)
  BY Zenon DEF Scan
<1> DEFINE invalid == {id \in Files : card[id].integrity = "header"} \cup unread
           valid == Files \ invalid
<1>2. PICK kept \in IF "remove" \in FaultKinds THEN SUBSET invalid ELSE {{}} :
                  /\ card' = [id \in Ids |->
                         IF id \in invalid \ kept THEN NoFile ELSE card[id]]
                  /\ queued' = Cardinality(valid)
                  /\ bytes' = TotalSize(valid)
                  /\ oldest' = OldestOf(valid)
                  /\ next' = NextAfter(valid)
                  /\ dropped' = Count(Counted(invalid))
                  /\ ready' = (NextAfter(valid) <= MaxRecordId)
  BY <1>1
<1>3. invalid \subseteq Files
  BY <1>1
<1>4. NoDamage /\ "read" \notin FaultKinds => invalid = {}
  BY <1>1 DEF Whole, NoTornRecord
<1>5. kept = {}
  <2>1. CASE "remove" \notin FaultKinds
    BY <1>2, <2>1
  <2>2. CASE FaultKinds \cap {"read", "corrupt", "rewrite"} = {}
    BY <1>2, <1>4, <2>2 DEF NoDamage
  <2> QED BY <2>1, <2>2 DEF NoOrphans
<1>14. "read" \notin FaultKinds => \A id \in invalid : card[id].integrity = "header"
  BY <1>1
<1> HIDE DEF invalid
<1>6. Files' = valid /\ \A id \in valid : card'[id] = card[id]
  BY <1>2, <1>3, <1>5 DEF Files
<1>7. invalid = {} => card' = card
  <2> SUFFICES ASSUME invalid = {} PROVE card' = card
    OBVIOUS
  <2>1. card' = [id \in Ids |-> card[id]]
    BY <1>2
  <2> QED BY <2>1 DEF TypeInv, TypeOK
<1>8. /\ IsFiniteSet(Files) /\ IsFiniteSet(valid) /\ IsFiniteSet(invalid)
      /\ Cardinality(Files) \in Nat /\ Cardinality(valid) \in Nat
      /\ Cardinality(invalid) \in Nat
      /\ Cardinality(Files) = Cardinality(valid) + Cardinality(invalid)
  <2>1. IsFiniteSet(Files) /\ IsFiniteSet(valid) /\ IsFiniteSet(invalid)
    BY <1>3, FilesFinite, FS_Subset
  <2>2. Cardinality(valid) = Cardinality(Files) - Cardinality(Files \cap invalid)
    BY <2>1, FS_Difference
  <2>3. Files \cap invalid = invalid
    BY <1>3
  <2>4. /\ Cardinality(Files) \in Nat /\ Cardinality(valid) \in Nat
        /\ Cardinality(invalid) \in Nat
    BY <2>1, FS_CardinalityType
  <2>5. Cardinality(valid) = Cardinality(Files) - Cardinality(invalid)
    BY <2>2, <2>3, Zenon
  <2>6. Cardinality(Files) = Cardinality(valid) + Cardinality(invalid)
    <3> HIDE DEF valid
    <3> QED BY <2>4, <2>5
  <2> QED BY <2>1, <2>4, <2>6
<1>9. SizeOnCard' = TotalSize(valid) /\ SizeOnCard' \in Nat
  <2>1. SizeIn(card', valid) = SizeIn(card, valid)
    BY <1>6, <1>8, SizeInSame
  <2>2. SizeIn(card, valid) \in Nat
    BY <1>8, FileSizes, SizeInType
  <2>3. TotalSize(valid) = SizeIn(card, valid)
    BY TotalIsSizeIn
  <2> HIDE DEF valid
  <2> QED BY <1>6, <2>1, <2>2, <2>3 DEF SizeOnCard
<1>10. IndexInv'
  <2>1. \A id \in valid : id < NextAfter(valid)
    <3>1. valid \subseteq Ids
      BY DEF Files
    <3> QED BY <3>1, NextAfterFiles
  <2> HIDE DEF valid
  <2> QED BY <1>2, <1>6, <1>9, <2>1 DEF IndexInv
<1>11. dropped' = Count(Cardinality(Files) - Cardinality(Files'))
  <2>1. Cardinality(invalid) = Cardinality(Files) - Cardinality(valid)
    <3> HIDE DEF valid
    <3> QED BY <1>8
  <2> QED BY <1>2, <1>6, <2>1 DEF Counted
<1> HIDE DEF valid
<1>12. Cardinality(Files') <= Cardinality(Files)
  BY <1>6, <1>8
<1>13. Files' \subseteq Files /\ Files \ Files' \subseteq invalid
  BY <1>6 DEF valid
<1> QED BY <1>4, <1>6, <1>7, <1>10, <1>11, <1>12, <1>13, <1>14

\* A step that moves no file leaves the index as true as it was.
LEMMA PlainIndex ==
    ASSUME TypeInv, IndexInv, Files' = Files, UNCHANGED index, ready' => ready,
           \A id \in Files : card'[id].size = card[id].size
    PROVE  IndexInv'
<1>1. SizeOnCard' = SizeOnCard
  BY FilesFinite, SizeInSame DEF SizeOnCard
<1> QED BY <1>1 DEF IndexInv, index

\* A step that leaves the card and the index alone keeps them in agreement.
LEMMA SameCardIndex ==
    ASSUME TypeInv, IndexInv, card' = card, UNCHANGED index, ready' => ready
    PROVE  IndexInv'
<1>1. Files' = Files
  BY DEF Files
<1> QED BY <1>1, PlainIndex

\* begin sets the index from the files it finds, or leaves the spool unusable.
LEMMA BeginIndex ==
    ASSUME NoOrphans, TypeInv, Whole, NEW id, Begin(id)
    PROVE  IndexInv'
<1>1. CASE ready' = FALSE
  BY <1>1 DEF IndexInv
<1>2. CASE Scan
  BY <1>2, ScanIndex
<1> QED BY <1>1, <1>2 DEF Begin

\* The stored record is the youngest, and the only one if there was none.
LEMMA StoreIndex ==
    ASSUME TypeInv, IndexInv, Room, StoresRecord, RenameToRecord
    PROVE  /\ Cardinality(Files') = Cardinality(Files) + 1
           /\ Cardinality(Files') <= MaxRecords
           /\ SizeOnCard' <= MaxBytes
           /\ IndexInv'
<1>1. /\ ready /\ next \in Ids \ Files /\ Files' = Files \cup {next}
      /\ card'[next] = tmp /\ \A id \in Files : card'[id] = card[id]
  BY StoredRecord
<1>2. /\ queued' = queued + 1 /\ bytes' = bytes + call.size /\ next' = next + 1
      /\ oldest' = IF queued = 0 THEN next ELSE oldest
  <2>1. ~EnqueueFailed(tmp)
    <3>1. card'[next] # card[next]
      BY <1>1 DEF Files
    <3> QED BY <3>1 DEF EnqueueFailed
  <2> QED BY <2>1 DEF RenameToRecord
<1>3. queued = Cardinality(Files) /\ SizeOnCard <= bytes
      /\ ("read" \notin FaultKinds => bytes = SizeOnCard)
      /\ (oldest # 0 \/ "dir" \notin FaultKinds => oldest = OldestOf(Files))
      /\ \A id \in Files : id < next
  BY <1>1 DEF IndexInv
<1>4. /\ IsFiniteSet(Files) /\ IsFiniteSet(Files') /\ Cardinality(Files) \in Nat
      /\ SizeOnCard \in Nat
      /\ Cardinality(Files') = Cardinality(Files) + 1
  BY <1>1, FilesFinite, FS_AddElement
<1>5. call.op = "rename" /\ tmp.size = call.size /\ call.size \in Nat
      /\ bytes \in Nat /\ MaxRecords \in Nat /\ MaxBytes \in Nat
  BY SizesAreNumbers, QueueAssumption
     DEF StoresRecord, Room, TypeInv, TypeOK, CallOK
<1>6. SizeOnCard' = call.size + SizeOnCard
  <2>1. \A id \in Files' : card'[id].size \in Nat
    BY <1>1, <1>5, FileSizes
  <2>2. SizeIn(card', Files') = card'[next].size + SizeIn(card', Files' \ {next})
    BY <1>1, <1>4, <2>1, SizeInRemove
  <2>3. Files' \ {next} = Files
    BY <1>1
  <2>4. SizeIn(card', Files) = SizeIn(card, Files)
    BY <1>1, <1>4, SizeInSame
  <2> QED BY <1>1, <1>5, <2>2, <2>3, <2>4 DEF SizeOnCard
<1>7. Cardinality(Files') <= MaxRecords /\ SizeOnCard' <= MaxBytes
  BY <1>3, <1>4, <1>5, <1>6 DEF Room
<1>8. SizeOnCard' <= bytes' /\ ("read" \notin FaultKinds => bytes' = SizeOnCard')
  BY <1>2, <1>3, <1>4, <1>5, <1>6
<1>9. oldest' # 0 \/ "dir" \notin FaultKinds => oldest' = OldestOf(Files')
  <2>0. Files' \subseteq Ids /\ next \in Nat
    BY <1>1, Bounds DEF Files, Ids
  <2>1. CASE queued = 0
    <3>1. Files' = {next}
      BY <1>1, <1>3, <1>4, <2>1, FS_EmptySet
    <3>2. OldestOf(Files') = next
      BY <2>0, <3>1, OldestOfFiles
    <3> QED BY <1>2, <2>1, <3>2
  <2>2. CASE queued # 0
    <3>1. Files # {}
      BY <1>3, <2>2, FS_EmptySet
    <3>2. OldestOf(Files) \in Files /\ \A y \in Files : OldestOf(Files) <= y
      <4>1. Files \subseteq Ids
        BY DEF Files
      <4> QED BY <3>1, <4>1, OldestOfFiles
    <3>3. OldestOf(Files') \in Files' /\ \A y \in Files' : OldestOf(Files') <= y
      BY <1>1, <2>0, OldestOfFiles
    <3>4. OldestOf(Files) \in Nat /\ OldestOf(Files') \in Nat
      BY <2>0, <3>2, <3>3, Bounds DEF Files, Ids
    <3>5. OldestOf(Files') <= OldestOf(Files)
      BY <1>1, <3>2, <3>3
    <3>6. OldestOf(Files') \in Files
      BY <1>1, <1>3, <2>0, <3>2, <3>3, <3>4, <3>5
    <3>7. OldestOf(Files') = OldestOf(Files)
      BY <3>2, <3>4, <3>5, <3>6
    <3> QED BY <1>2, <1>3, <2>2, <3>7
  <2> QED BY <2>1, <2>2
<1>10. \A id \in Files' : id < next'
  <2>1. next \in Nat /\ \A id \in Files : id \in Nat
    BY <1>1, Bounds DEF Files, Ids
  <2> QED BY <1>1, <1>2, <1>3, <2>1
<1>11. queued' = Cardinality(Files')
  BY <1>2, <1>3, <1>4
<1>12. IndexInv'
  BY <1>8, <1>9, <1>10, <1>11 DEF IndexInv
<1> QED BY <1>4, <1>7, <1>12

\* Rewriting or damaging a header leaves the files and their sizes.
LEMMA HeadersKeepFiles ==
    ASSUME TypeInv, MarkAttempted \/ MarkFails \/ Corrupt
    PROVE  Files' = Files /\ \A id \in Files : card'[id].size = card[id].size
<1>1. CASE card' = card
  BY <1>1 DEF Files
<1>2. CASE \E id \in Files :
              \/ card' = [card EXCEPT ![id].attempted = TRUE]
              \/ \E damage \in {"payload", "header"} :
                    card' = [card EXCEPT ![id].integrity = damage]
  <2>1. PICK id \in Files :
              \/ card' = [card EXCEPT ![id].attempted = TRUE]
              \/ \E damage \in {"payload", "header"} :
                    card' = [card EXCEPT ![id].integrity = damage]
    BY <1>2
  <2>2. card[id] \in Record /\ id \in Ids
    BY FileSizes DEF Files
  <2>3. card'[id] \in Record /\ card'[id].size = card[id].size
    <3>1. CASE card' = [card EXCEPT ![id].attempted = TRUE]
      BY <2>2, <3>1 DEF TypeInv, TypeOK, Record
    <3>2. ASSUME NEW damage \in {"payload", "header"},
                 card' = [card EXCEPT ![id].integrity = damage]
          PROVE  card'[id] \in Record /\ card'[id].size = card[id].size
      BY <2>2, <3>2 DEF TypeInv, TypeOK, Record
    <3> QED BY <2>1, <3>1, <3>2
  <2>4. \A i \in Ids : i # id => card'[i] = card[i]
    BY <2>1 DEF TypeInv, TypeOK
  <2>5. Files' = Files
    BY <2>2, <2>3, <2>4, NoFileAssumption DEF Files
  <2> QED BY <2>3, <2>4, <2>5 DEF Files
<1> QED BY <1>1, <1>2
        DEF MarkAttempted, MarkFails, Corrupt, Files, TypeInv, CallOK

\* Only enqueue's last step gives a file its name.
LEMMA StoresByRename ==
    ASSUME TypeInv, StoresRecord, [Next]_vars
    PROVE  RenameToRecord
<1>1. card' # card
  BY StoredRecord DEF Files
<1>2. ~Corrupt
  <2> SUFFICES ASSUME Corrupt PROVE FALSE
    OBVIOUS
  <2>1. next \in Ids \ Files /\ next \in Files'
    BY StoredRecord
  <2>2. card'[next] = card[next]
    BY <2>1 DEF Corrupt, TypeInv, TypeOK
  <2> QED BY <2>1, <2>2 DEF Files
<1> QED BY <1>1, <1>2, RestingCalls
        DEF Next, LoopStep, vars, BeginAtBoot, UpdateUnavailable, UpdateRetry,
            ExpireOldest, ExpireDone, EvictOldest, EvictDone, WriteTemporary,
            MarkAttempted, MarkFails, EnqueueStart, Peek, Acknowledge, PowerLoss,
            StorageChanges, TimePasses, StoresRecord

\* Every step keeps the index in agreement with the card.
LEMMA IndexStep ==
    ASSUME NoOrphans, CardInv, [Next]_vars
    PROVE  IndexInv'
<1>0. TypeInv /\ Whole /\ IndexInv /\ Room
  BY DEF CardInv
<1> USE DEF media, index, clocks, history
<1>1. CASE \E id : Begin(id)
  BY <1>0, <1>1, BeginIndex
<1>2. CASE ready /\ Removable /\ \E dirOk \in Works("dir"), sizeRead \in Works("read") :
              Unlink(dirOk, sizeRead)
  BY <1>0, <1>2, UnlinkIndex
<1>3. CASE card' = card /\ UNCHANGED index /\ (ready' => ready)
  BY <1>0, <1>3, SameCardIndex
<1>4. CASE MarkAttempted \/ MarkFails \/ Corrupt
  <2>1. Files' = Files /\ \A id \in Files : card'[id].size = card[id].size
    BY <1>0, <1>4, HeadersKeepFiles
  <2>2. UNCHANGED index /\ ready' = ready
    BY <1>4 DEF MarkAttempted, MarkFails, Corrupt
  <2> QED BY <1>0, <2>1, <2>2, PlainIndex
<1>5. CASE RenameToRecord
  <2>1. CASE StoresRecord
    BY <1>0, <1>5, <2>1, StoreIndex
  <2>2. CASE ready' = FALSE
    BY <2>2 DEF IndexInv
  <2> QED BY <1>5, <2>1, <2>2 DEF RenameToRecord, EnqueueFailed, StoresRecord
<1>6. CASE ready' = FALSE
  BY <1>6 DEF IndexInv
<1>7. CASE UNCHANGED vars \/ UpdateUnavailable \/ UpdateRetry \/ ExpireDone \/ EvictDone
           \/ BeginAtBoot
  BY <1>1, <1>3, <1>7
     DEF vars, UpdateUnavailable, UpdateRetry, ExpireDone, EvictDone, BeginAtBoot
<1>8. CASE ExpireOldest
  <2>1. ready /\ Removable
    BY <1>0, <1>8, RestingCalls
       DEF ExpireOldest, Expired, Removable, TypeInv, TypeOK, CallOK
  <2> QED BY <1>2, <1>6, <1>8, <2>1 DEF ExpireOldest
<1>9. CASE EvictOldest \/ Peek \/ \E id \in Ids : Acknowledge(id)
  <2>1. ready /\ ready' = ready
    BY <1>0, <1>9 DEF EvictOldest, Peek, Acknowledge, TypeInv, CallOK
  <2> QED BY <1>2, <1>3, <1>9, <2>1 DEF EvictOldest, Peek, Acknowledge
<1>10. CASE WriteTemporary
  BY <1>3, <1>6, <1>10 DEF WriteTemporary, EnqueueFailed
<1>11. CASE \/ \E size \in Sizes, deferred \in BOOLEAN : EnqueueStart(size, deferred)
            \/ PowerLoss \/ StorageChanges \/ TimePasses
  BY <1>3, <1>6, <1>11 DEF EnqueueStart, PowerLoss, StorageChanges, TimePasses
<1> QED BY <1>4, <1>5, <1>7, <1>8, <1>9, <1>10, <1>11 DEF Next, LoopStep

\* Room is found by the eviction loop, and nothing takes it away before the
\* record has its name.
LEMMA RoomStep ==
    ASSUME CardInv, [Next]_vars
    PROVE  Room'
<1>0. TypeInv /\ Room
  BY DEF CardInv
<1> USE DEF media, index, clocks, history
<1>1. CASE call'.op \notin {"write", "rename"}
  BY <1>1 DEF Room
<1>2. CASE UNCHANGED <<call, queued, bytes, tmp>>
  BY <1>0, <1>2 DEF Room
<1>3. CASE EvictDone
  <2>1. CASE ~ExceedsLimits(call.size) /\ call' = [call EXCEPT !.op = "write"]
    <3>1. call'.op = "write" /\ call'.size = call.size /\ call.size \in Nat
      BY <1>0, <1>3, <2>1, SizesAreNumbers DEF EvictDone, TypeInv, TypeOK, CallOK
    <3>2. queued < MaxRecords /\ bytes + call.size <= MaxBytes
      BY <1>0, <2>1, <3>1, QueueAssumption DEF ExceedsLimits, TypeInv, TypeOK
    <3> QED BY <1>3, <3>1, <3>2 DEF EvictDone, Room
  <2>2. CASE call' = Idle
    BY <1>1, <2>2, RestingCalls
  <2> QED BY <1>3, <2>1, <2>2 DEF EvictDone
<1>4. CASE WriteTemporary
  <2>1. CASE call' = Idle
    BY <1>1, <2>1, RestingCalls
  <2>2. CASE /\ tmp' = NewRecord("ok") /\ call' = [call EXCEPT !.op = "rename"]
             /\ UNCHANGED index
    <3>1. call'.op = "rename" /\ call'.size = call.size /\ tmp'.size = call.size
      BY <1>0, <2>2 DEF NewRecord, TypeInv, TypeOK
    <3> QED BY <1>0, <1>4, <2>2, <3>1 DEF WriteTemporary, Room
  <2> QED BY <1>4, <2>1, <2>2 DEF WriteTemporary, EnqueueFailed
<1>5. CASE call.op \in {"idle", "boot", "expire", "rename", "peeked"}
  <2>1. CASE call' = Idle \/ call' = Booting \/ call' = Expiring
    BY <1>1, <2>1, RestingCalls
  <2>2. CASE UNCHANGED call /\ call.op \notin {"write", "rename"}
    BY <1>1, <2>2
  <2>3. CASE \E s, z, d, i, f : call' = Call("evict", s, z, d, i, f)
                             \/ call' = Call("peeked", s, z, d, i, f)
    BY <1>1, <2>3 DEF Call
  <2>4. CASE call.op = "rename"
    BY <1>2, <2>1, <2>4, RestingCalls
       DEF Next, LoopStep, vars, BeginAtBoot, UpdateUnavailable, UpdateRetry,
           ExpireOldest, ExpireDone, EvictOldest, EvictDone, WriteTemporary,
           RenameToRecord, EnqueueFailed, MarkAttempted, MarkFails, EnqueueStart,
           Peek, Acknowledge, PowerLoss, StorageChanges, TimePasses, Corrupt
  <2>5. CASE call.op # "rename" /\ [Next]_vars
    <3>1. \/ call' = Idle \/ call' = Booting \/ call' = Expiring \/ UNCHANGED call
          \/ \E s, z, d, i, f : call' = Call("evict", s, z, d, i, f)
                             \/ call' = Call("peeked", s, z, d, i, f)
      <4>1. ~EvictDone /\ ~WriteTemporary
        BY <1>5, RestingCalls DEF EvictDone, WriteTemporary
      <4>2. ASSUME Begin(bootId) \/ Begin(boot) PROVE call' = Idle
        BY <4>2 DEF Begin
      <4> QED BY <4>1, <4>2
         DEF Next, LoopStep, vars, BeginAtBoot, UpdateUnavailable, UpdateRetry,
             ExpireOldest, ExpireDone, EvictOldest,
             RenameToRecord, EnqueueFailed, MarkAttempted, MarkFails, EnqueueStart,
             Peek, Acknowledge, PowerLoss, StorageChanges, TimePasses, Corrupt
    <3>2. call.op \notin {"write", "rename"}
      BY <1>5, <2>5, RestingCalls
    <3> QED BY <2>1, <2>2, <2>3, <3>1, <3>2
  <2> QED BY <2>4, <2>5
<1>6. CASE call.op = "write"
  BY <1>1, <1>2, <1>4, <1>6, RestingCalls
     DEF Next, LoopStep, vars, BeginAtBoot, UpdateUnavailable, UpdateRetry,
         ExpireOldest, ExpireDone, EvictOldest, EvictDone,
         RenameToRecord, MarkAttempted, MarkFails, EnqueueStart,
         Peek, Acknowledge, PowerLoss, StorageChanges, TimePasses, Corrupt
<1>7. CASE call.op = "evict"
  BY <1>1, <1>3, <1>7, RestingCalls
     DEF Next, LoopStep, vars, BeginAtBoot, UpdateUnavailable, UpdateRetry,
         ExpireOldest, ExpireDone, EvictOldest, WriteTemporary,
         RenameToRecord, MarkAttempted, MarkFails, EnqueueStart,
         Peek, Acknowledge, PowerLoss, StorageChanges, TimePasses, Corrupt
<1> QED BY <1>0, <1>5, <1>6, <1>7 DEF TypeInv, TypeOK, Operations

\* Neither the number of files nor their sizes pass the limits: only a stored
\* record adds to them, and it found room.
LEMMA BoundedStep ==
    ASSUME CardInv, [Next]_vars
    PROVE  Bounded'
<1>0. TypeInv /\ TypeInv' /\ IndexInv /\ Room /\ Bounded
  BY TypeStep DEF CardInv
<1>1. CASE KeepsRecords
  <2>1. Files' \in SUBSET Files /\ IsFiniteSet(Files) /\ IsFiniteSet(Files')
    BY <1>0, <1>1, FilesFinite, FS_Subset DEF KeepsRecords
  <2>2. Cardinality(Files') <= Cardinality(Files) /\ Cardinality(Files) \in Nat
        /\ Cardinality(Files') \in Nat
    BY <2>1, FS_Subset, FS_CardinalityType
  <2>3. SizeIn(card', Files') = SizeIn(card, Files')
    BY <1>1, <2>1, SizeInSame DEF KeepsRecords
  <2>4. SizeIn(card, Files') <= SizeIn(card, Files)
    BY <1>0, <2>1, FileSizes, SizeInSubset
  <2>5. SizeIn(card, Files) \in Nat /\ SizeIn(card, Files') \in Nat
    BY <1>0, <2>1, FileSizes, SizeInType
  <2> QED BY <1>0, <2>2, <2>3, <2>4, <2>5, QueueAssumption DEF Bounded, SizeOnCard
<1>2. CASE StoresRecord
  <2>1. RenameToRecord
    BY <1>0, <1>2, StoresByRename
  <2> QED BY <1>0, <1>2, <2>1, StoreIndex DEF Bounded
<1> QED BY <1>0, <1>1, <1>2, KeepsOrStores

\* The card is empty at the start.
LEMMA CardInit == Init => CardInv
<1> SUFFICES ASSUME Init PROVE CardInv
  OBVIOUS
<1>1. Files = {} /\ TypeInv
  BY TypeInit DEF Init, Files
<1>2. Whole /\ IndexInv
  BY <1>1 DEF Whole, NoTornRecord, IndexInv, Init
<1>3. Room
  BY RestingCalls DEF Room, Init
<1>4. Cardinality(Files) = 0 /\ SizeOnCard = 0
  BY <1>1, FS_EmptySet, SizeInRec DEF SizeOnCard
<1>5. Bounded
  BY <1>4, QueueAssumption DEF Bounded
<1> QED BY <1>1, <1>2, <1>3, <1>5 DEF CardInv

\* Every step keeps the invariant of the card.
LEMMA CardStep == ASSUME NoOrphans PROVE CardInv /\ [Next]_vars => CardInv'
<1> SUFFICES ASSUME CardInv, [Next]_vars PROVE CardInv'
  OBVIOUS
<1>1. TypeInv'
  BY TypeStep DEF CardInv
<1>2. Whole'
  <2>1. ASSUME NoDamage PROVE NoTornRecord'
    BY <2>1, TornStep DEF CardInv, Whole, TornInv
  <2> QED BY <2>1 DEF Whole
<1> QED BY <1>1, <1>2, IndexStep, RoomStep, BoundedStep DEF CardInv

\* The limits of OFFLINE_QUEUE_MAX_RECORDS and OFFLINE_QUEUE_MAX_BYTES hold for
\* the card, in every boot, unless a record that a scan cannot read also cannot
\* be removed.
THEOREM LimitsHold ==
    ASSUME NoOrphans
    PROVE  Spec => []WithinLimits
<1>1. CardInv => WithinLimits
  BY TotalIsSizeIn DEF CardInv, Bounded, SizeOnCard, WithinLimits
<1>2. CardInv /\ [Next]_vars => CardInv'
  BY CardStep
<1> QED BY <1>1, <1>2, CardInit, PTL DEF Spec

\* While the spool is in use its index in RAM is the card's: the count, the
\* size, the oldest number and a next number above every file, as long as
\* /spool can be listed and headers can be read.
THEOREM IndexIsRight ==
    ASSUME NoOrphans, FaultKinds \cap {"dir", "read"} = {}
    PROVE  Spec => []IndexMatchesCard
<1>1. CardInv => IndexMatchesCard
  BY TotalIsSizeIn DEF CardInv, IndexInv, SizeOnCard, IndexMatchesCard
<1>2. CardInv /\ [Next]_vars => CardInv'
  BY CardStep
<1> QED BY <1>1, <1>2, CardInit, PTL DEF Spec

-----------------------------------------------------------------------------
(* Conservation of samples                                                 *)

ConservationInv == CardInv /\ ReplayInv /\ Conservation

\* The counts are numbers.
LEMMA ConservationTypes ==
    ASSUME TypeInv
    PROVE  /\ Cardinality(Files) \in Nat /\ acked \in Nat
           /\ droppedBefore \in Nat /\ dropped \in Nat
           /\ IsFiniteSet(accepted) /\ Cardinality(accepted) \in Nat
<1>1. IsFiniteSet(1..MaxSamples)
  BY Bounds, FS_Interval
<1>2. IsFiniteSet(accepted)
  BY <1>1, FS_Subset DEF TypeInv, TypeOK
<1> QED BY <1>2, FilesFinite, FS_CardinalityType, Bounds DEF TypeInv, TypeOK

\* Records that are counted when they are lost.
LEMMA LostAreCounted ==
    ASSUME TypeInv, Conservation, NEW n \in Nat, n <= Cardinality(Files),
           Cardinality(Files') = Cardinality(Files) - n, dropped' = Count(n),
           UNCHANGED <<accepted, acked, droppedBefore>>
    PROVE  Conservation'
<1> DEFINE k == Cardinality(Files) - n + acked + droppedBefore
<1>1. k \in Nat /\ dropped + n \in Nat
  BY ConservationTypes
<1>2. (((dropped + n) % CounterSpan) + k) % CounterSpan =
          ((dropped + n) + k) % CounterSpan
  BY <1>1, RemainderAdd, Bounds
<1>3. dropped' \in Nat /\ dropped' = (dropped + n) % CounterSpan
  BY <1>1, Remainder, Bounds DEF Count
<1>4. Cardinality(Files') + acked' + droppedBefore' + dropped' =
          ((dropped + n) % CounterSpan) + k
  BY <1>3, ConservationTypes
<1>5. Cardinality(Files) + acked + droppedBefore + dropped = (dropped + n) + k
  BY ConservationTypes
<1> HIDE DEF k
<1> QED BY <1>2, <1>4, <1>5 DEF Conservation

\* A stored record is one more on both sides.
LEMMA StoredIsCounted ==
    ASSUME TypeInv, Conservation, NEW s, s \notin accepted,
           accepted' = accepted \cup {s},
           Cardinality(Files') = Cardinality(Files) + 1,
           UNCHANGED <<acked, droppedBefore, dropped>>
    PROVE  Conservation'
<1> DEFINE a == Cardinality(accepted)
           k == Cardinality(Files) + acked + droppedBefore + dropped
<1>1. a \in Nat /\ k \in Nat
  BY ConservationTypes
<1>2. /\ ((a % CounterSpan) + 1) % CounterSpan = (a + 1) % CounterSpan
      /\ ((k % CounterSpan) + 1) % CounterSpan = (k + 1) % CounterSpan
  BY <1>1, RemainderAdd, Bounds
<1>3. Cardinality(accepted') = a + 1
  BY ConservationTypes, FS_AddElement
<1>4. Cardinality(Files') + acked' + droppedBefore' + dropped' = k + 1
  BY ConservationTypes
<1>5. a % CounterSpan = k % CounterSpan
  BY DEF Conservation
<1> HIDE DEF a, k
<1> QED BY <1>2, <1>3, <1>4, <1>5 DEF Conservation

\* What a boot forgets was counted before.
LEMMA BootKeepsCount ==
    ASSUME TypeInv, Conservation, card' = card,
           dropped' = 0, droppedBefore' = (droppedBefore + dropped) % CounterSpan,
           UNCHANGED <<accepted, acked>>
    PROVE  Conservation'
<1> DEFINE k == Cardinality(Files) + acked
           d == droppedBefore + dropped
<1>1. k \in Nat /\ d \in Nat
  BY ConservationTypes
<1>2. ((d % CounterSpan) + k) % CounterSpan = (d + k) % CounterSpan
  BY <1>1, RemainderAdd, Bounds
<1>3. droppedBefore' \in Nat /\ Files' = Files
  BY <1>1, Remainder, Bounds DEF Files
<1>4. Cardinality(Files') + acked' + droppedBefore' + dropped' = (d % CounterSpan) + k
  BY <1>3, ConservationTypes
<1>5. Cardinality(Files) + acked + droppedBefore + dropped = d + k
  BY ConservationTypes
<1> HIDE DEF k, d
<1> QED BY <1>2, <1>4, <1>5 DEF Conservation

\* A step that changes no count keeps them balanced.
LEMMA ConservationSame ==
    ASSUME Conservation, UNCHANGED <<accepted, acked, droppedBefore, dropped>>,
           Cardinality(Files') = Cardinality(Files)
    PROVE  Conservation'
BY DEF Conservation

\* Every step keeps the counts balanced.
LEMMA ConservationStep ==
    ASSUME FaultKinds \cap {"dir", "read", "remove"} = {}
    PROVE  ConservationInv /\ [Next]_vars => ConservationInv'
<1> SUFFICES ASSUME ConservationInv, [Next]_vars PROVE Conservation'
  BY CardStep, ReplayStep DEF ConservationInv, NoOrphans
<1>0. /\ CardInv /\ ReplayInv /\ TypeInv /\ IndexInv /\ Whole /\ Room
      /\ Conservation /\ NoOrphans
  BY DEF ConservationInv, CardInv, NoOrphans
<1> USE DEF media, index, clocks, history
<1>1. CASE card' = card /\ UNCHANGED <<accepted, acked, droppedBefore, dropped>>
  BY <1>0, <1>1, ConservationSame DEF Files
<1>2. ASSUME ready, Removable, NEW dirOk \in Works("dir"), NEW sizeRead \in Works("read"),
             Unlink(dirOk, sizeRead)
      PROVE  /\ Cardinality(Files') = Cardinality(Files) - 1
             /\ 1 <= Cardinality(Files) /\ Unlinked
  <2>1. Files # {}
    BY <1>0, <1>2, UnlinkIndex
  <2>2. Cardinality(Files) # 0 /\ Cardinality(Files) \in Nat
    BY <1>0, <2>1, FilesFinite, FS_EmptySet
  <2> QED BY <1>0, <1>2, <2>2, UnlinkIndex
<1>3. CASE \E id : Begin(id)
  <2>1. CASE Scan
    <3>1. /\ dropped' = Count(Cardinality(Files) - Cardinality(Files'))
          /\ Cardinality(Files') <= Cardinality(Files)
          /\ Files' \subseteq Files
      BY <1>0, <2>1, ScanIndex
    <3>2. Cardinality(Files') \in Nat /\ Cardinality(Files) \in Nat
      BY <1>0, <3>1, FilesFinite, FS_Subset, FS_CardinalityType
    <3>3. PICK n \in Nat : n = Cardinality(Files) - Cardinality(Files')
      BY <3>1, <3>2
    <3>4. n <= Cardinality(Files) /\ Cardinality(Files') = Cardinality(Files) - n
      BY <3>2, <3>3
    <3>5. UNCHANGED <<accepted, acked, droppedBefore>>
      BY <1>3 DEF Begin
    <3> QED BY <1>0, <3>1, <3>3, <3>4, <3>5, LostAreCounted
  <2>2. CASE UNCHANGED <<card, dropped>>
    BY <1>1, <1>3, <2>2 DEF Begin
  <2> QED BY <1>3, <2>1, <2>2 DEF Begin
<1>4. CASE ExpireOldest
  <2>1. ready /\ Removable
    BY <1>0, <1>4, RestingCalls
       DEF ExpireOldest, Expired, Removable, TypeInv, TypeOK, CallOK
  <2>2. PICK dirOk \in Works("dir"), sizeRead \in Works("read") :
          Unlink(dirOk, sizeRead) /\ dropped' = Count(1)
    BY <1>4 DEF ExpireOldest, Works
  <2> QED BY <1>0, <1>2, <1>4, <2>1, <2>2, LostAreCounted DEF ExpireOldest
<1>5. CASE EvictOldest
  <2>1. ready /\ queued # 0
    BY <1>0, <1>5 DEF EvictOldest, TypeInv, CallOK
  <2>2. Removable
    <3>1. Files # {} /\ oldest = OldestOf(Files)
      BY <1>0, <2>1, FS_EmptySet DEF IndexInv
    <3>2. oldest \in Files
      BY <3>1, OldestOfFiles DEF Files
    <3> QED BY <2>1, <3>2, Bounds DEF Removable, Files, Ids
  <2>3. PICK dirOk \in Works("dir"), sizeRead \in Works("read") :
          Unlink(dirOk, sizeRead) /\ dropped' = Count(IF Unlinked THEN 1 ELSE 2)
    BY <1>5, <2>2 DEF EvictOldest, Works
  <2>4. dropped' = Count(1)
    BY <1>2, <2>1, <2>2, <2>3
  <2> QED BY <1>0, <1>2, <1>5, <2>1, <2>2, <2>3, <2>4, LostAreCounted DEF EvictOldest
<1>6. CASE EvictDone
  <2>1. CASE ExceedsLimits(call.size) /\ queued = 0
    <3>1. Files = {} /\ bytes = SizeOnCard
      BY <1>0, <1>6, <2>1, FilesFinite, FS_EmptySet
         DEF EvictDone, IndexInv, TypeInv, CallOK
    <3>2. bytes = 0
      BY <3>1, FS_EmptySet, SizeInRec DEF SizeOnCard
    <3>3. call.size \in Nat /\ call.size <= MaxBytes
      BY <1>0, <1>6, SizesAreNumbers DEF EvictDone, TypeInv, CallOK
    <3> QED BY <2>1, <3>2, <3>3, QueueAssumption DEF ExceedsLimits
  <2> QED BY <1>1, <1>6, <2>1 DEF EvictDone
<1>7. CASE Peek
  <2>1. CASE \E dirOk \in Works("dir"), sizeRead \in Works("read") :
                Removable /\ Unlink(dirOk, sizeRead) /\ dropped' = Count(1)
    BY <1>0, <1>2, <1>7, <2>1, LostAreCounted DEF Peek
  <2> QED BY <1>1, <1>7, <2>1 DEF Peek
<1>8. ASSUME NEW id \in Ids, Acknowledge(id) PROVE Conservation'
  <2>1. /\ Cardinality(Files') = Cardinality(Files) - 1
        /\ acked' = acked + 1
        /\ UNCHANGED <<accepted, droppedBefore, dropped>>
    BY <1>2, <1>8 DEF Acknowledge
  <2>2. Cardinality(Files') + acked' + droppedBefore' + dropped' =
            Cardinality(Files) + acked + droppedBefore + dropped
    BY <1>0, <2>1, ConservationTypes
  <2> QED BY <1>0, <2>1, <2>2 DEF Conservation
<1>9. CASE StoresRecord
  <2>1. RenameToRecord /\ Cardinality(Files') = Cardinality(Files) + 1
    BY <1>0, <1>9, StoresByRename, StoreIndex
  <2>2. card' # card
    BY <1>0, <1>9, StoredRecord DEF Files
  <2>3. accepted' = accepted \cup {call.sample}
        /\ UNCHANGED <<acked, droppedBefore, dropped>>
    BY <2>1, <2>2 DEF RenameToRecord, EnqueueFailed
  <2>4. call.sample \notin accepted
    BY <1>0, <2>1, Bounds
       DEF RenameToRecord, ReplayInv, SamplesOK, Settled, TypeInv, TypeOK, CallOK
  <2> QED BY <1>0, <2>1, <2>3, <2>4, StoredIsCounted
<1>10. CASE PowerLoss
  BY <1>0, <1>10, BootKeepsCount DEF PowerLoss
<1>11. CASE MarkAttempted \/ MarkFails \/ Corrupt
  <2>1. Files' = Files
    BY <1>0, <1>11, HeadersKeepFiles
  <2> QED BY <1>0, <1>11, <2>1, ConservationSame DEF MarkAttempted, MarkFails, Corrupt
<1>12. CASE RenameToRecord
  <2>1. CASE card' = card /\ accepted' = accepted
    BY <1>1, <1>12, <2>1 DEF RenameToRecord
  <2> QED BY <1>9, <1>12, <2>1 DEF RenameToRecord, EnqueueFailed, StoresRecord
<1>13. CASE UNCHANGED vars \/ UpdateUnavailable \/ UpdateRetry \/ ExpireDone
           \/ BeginAtBoot \/ WriteTemporary
  BY <1>1, <1>3, <1>13 DEF vars, UpdateUnavailable, UpdateRetry, ExpireDone,
                          BeginAtBoot, WriteTemporary, EnqueueFailed
<1>14. CASE \/ \E size \in Sizes, deferred \in BOOLEAN : EnqueueStart(size, deferred)
           \/ StorageChanges \/ TimePasses
  BY <1>1, <1>14 DEF EnqueueStart, StorageChanges, TimePasses
<1> QED BY <1>4, <1>5, <1>6, <1>7, <1>8, <1>10, <1>11, <1>12, <1>13, <1>14
        DEF Next, LoopStep

\* No sample enqueue took is lost unseen: modulo the width of the counters, the
\* samples taken are those on the card, those removed by an acknowledgement and
\* those counted as dropped, over all boots, however often power is lost, writes
\* fail and records rot, as long as the card can be listed, read and cleaned.
THEOREM SamplesConserved ==
    ASSUME FaultKinds \cap {"dir", "read", "remove"} = {}
    PROVE  Spec => []Conservation
<1>1. Init => ConservationInv
  <2> SUFFICES ASSUME Init PROVE ConservationInv
    OBVIOUS
  <2>1. Files = {}
    BY DEF Init, Files
  <2> QED BY <2>1, CardInit, ReplayInit, FS_EmptySet
          DEF Init, ConservationInv, Conservation
<1>2. ConservationInv => Conservation
  BY DEF ConservationInv
<1>3. ConservationInv /\ [Next]_vars => ConservationInv'
  BY ConservationStep
<1> QED BY <1>1, <1>2, <1>3, PTL DEF Spec

-----------------------------------------------------------------------------
(* The spool is a durable first-in first-out store                         *)

\* Records are numbered in the order their samples were produced.
InOrder == \A i, j \in Files : i < j => card[i].sample < card[j].sample

OrderInv == CardInv /\ ReplayInv /\ InOrder

\* A stored sample is younger than every sample on the card or ever accepted.
LEMMA StoredIsYoungest ==
    ASSUME TypeInv, SamplesOK, StoresRecord
    PROVE  /\ produced \in 1..MaxSamples /\ call.sample = produced
           /\ \A t \in accepted : t < produced
           /\ \A id \in Files : card[id].sample < produced
<1>1. /\ call.op = "rename" /\ call.sample = produced
      /\ produced \in 1..MaxSamples
  BY Bounds DEF StoresRecord, TypeInv, TypeOK, CallOK
<1>2. Settled = produced - 1
  BY <1>1 DEF Settled
<1> QED BY <1>1, <1>2 DEF SamplesOK

\* The card is empty at the start.
LEMMA OrderInit == Init => OrderInv
<1> SUFFICES ASSUME Init PROVE OrderInv
  OBVIOUS
<1>1. Files = {}
  BY DEF Init, Files
<1> QED BY <1>1, CardInit, ReplayInit DEF OrderInv, InOrder

\* Every step keeps the numbers in the order of the samples.
LEMMA OrderStep == ASSUME NoOrphans PROVE OrderInv /\ [Next]_vars => OrderInv'
<1> SUFFICES ASSUME OrderInv, [Next]_vars PROVE InOrder'
  BY CardStep, ReplayStep DEF OrderInv
<1>0. TypeInv /\ SamplesOK /\ IndexInv /\ InOrder
  BY DEF OrderInv, CardInv, ReplayInv
<1>1. CASE KeepsRecords
  BY <1>0, <1>1 DEF InOrder, KeepsRecords
<1>2. CASE StoresRecord
  <2>1. /\ ready /\ next \in Ids \ Files /\ Files' = Files \cup {next}
        /\ card'[next] = tmp /\ tmp.sample = produced
        /\ \A id \in Files : card'[id] = card[id]
    BY <1>0, <1>2, StoredRecord
  <2>2. \A id \in Files : id < next /\ card[id].sample < produced
    BY <1>0, <1>2, <2>1, StoredIsYoungest DEF IndexInv
  <2>3. Files \subseteq Nat /\ next \in Nat
    BY <2>1, Bounds DEF Files, Ids
  <2> SUFFICES ASSUME NEW i \in Files', NEW j \in Files', i < j
               PROVE  card'[i].sample < card'[j].sample
    BY DEF InOrder
  <2>4. CASE j = next
    BY <2>1, <2>2, <2>3, <2>4
  <2>5. CASE j # next
    <3>1. j \in Files /\ j < next
      BY <2>1, <2>2, <2>5
    <3>2. i \in Files
      BY <2>1, <2>3, <3>1
    <3> QED BY <1>0, <2>1, <3>1, <3>2 DEF InOrder
  <2> QED BY <2>4, <2>5
<1> QED BY <1>0, <1>1, <1>2, KeepsOrStores

\* The samples on the card are not more than its files.
LEMMA SamplesCount ==
    ASSUME TypeInv
    PROVE  Cardinality({card[id].sample : id \in Files}) <= Cardinality(Files)
<1> DEFINE held == {card[id].sample : id \in Files}
           f == [id \in Files |-> card[id].sample]
<1>1. f \in Surjection(Files, held)
  BY DEF Surjection
<1> HIDE DEF f, held
<1>2. Cardinality(held) <= Cardinality(Files)
  BY <1>1, FilesFinite, FS_Surjection
<1> QED BY <1>2 DEF held

\* The number of the record that is served first.
First(id) == \A other \in Files : id <= other

\* The oldest of some files is the first.
LEMMA OldestIsFirst ==
    ASSUME Files # {}
    PROVE  OldestOf(Files) \in Files /\ First(OldestOf(Files))
BY OldestOfFiles, Bounds DEF Files, Ids, First

\* Only a header that is being rewritten can be torn, and that is the first
\* record's: what peek offers, markAttempted rewrites.  Peek offers no torn one.
TornIsFirst ==
    /\ \A id \in Files : card[id].integrity # "ok" => First(id)
    /\ call.op = "peeked" => First(call.id) /\ NoTornRecord

\* Faults that leave at most the first record in doubt.  A torn header that
\* cannot be removed would stay behind as an orphan.
FirstInDoubt ==
    \/ FaultKinds \subseteq {"write", "remove", "dir"}
    \/ FaultKinds \subseteq {"write", "rewrite", "dir"}

FifoStoreInv == OrderInv /\ TornIsFirst

\* There is one first record.
LEMMA OneFirst ==
    ASSUME NEW i \in Files, NEW j \in Files, First(i), First(j)
    PROVE  i = j
<1>1. i \in Nat /\ j \in Nat /\ i <= j /\ j <= i
  BY Bounds DEF Files, Ids, First
<1> QED BY <1>1

\* First stays first when files leave, or one with a higher number comes.
LEMMA FirstStays ==
    ASSUME NEW id, First(id),
           \/ Files' \subseteq Files
           \/ \E new : Files' = Files \cup {new} /\ id <= new
    PROVE  First(id)'
BY DEF First

\* A call of peek comes from Peek, and the files wait for it to end.
LEMMA PeeksOrRests ==
    ASSUME TypeInv, "corrupt" \notin FaultKinds, [Next]_vars, call'.op = "peeked"
    PROVE  \/ call' = call /\ card' = card
           \/ /\ Peek /\ card' = card
              /\ call'.id = oldest /\ oldest \in Files /\ card[oldest].integrity = "ok"
<1> USE RestingCalls DEF media
<1>1. CASE Peek
  <2>1. CASE /\ card[oldest] # NoFile /\ card' = card
             /\ card[oldest].integrity = "ok"
             /\ call' = Call("peeked", card[oldest].sample, 0, FALSE, oldest,
                             ShouldMarkReplayed(card[oldest]))
    <3>1. oldest \in Ids
      BY <1>1, Bounds DEF Peek, TypeInv, TypeOK, Ids
    <3> QED BY <1>1, <2>1, <3>1 DEF Call, Files
  <2>2. CASE UNCHANGED call /\ call = Idle
    BY <2>2
  <2> QED BY <1>1, <2>1, <2>2 DEF Peek
<1>2. CASE UNCHANGED vars
  BY <1>2 DEF vars
<1>3. CASE \/ BeginAtBoot \/ UpdateUnavailable \/ UpdateRetry \/ ExpireOldest
           \/ ExpireDone \/ MarkAttempted \/ MarkFails
           \/ \E id \in Ids : Acknowledge(id)
           \/ PowerLoss \/ StorageChanges \/ TimePasses
  BY <1>3 DEF BeginAtBoot, Begin, UpdateUnavailable, UpdateRetry, ExpireOldest,
              ExpireDone, MarkAttempted, MarkFails, Acknowledge, PowerLoss,
              StorageChanges, TimePasses
<1>4. CASE \/ EvictOldest \/ EvictDone \/ WriteTemporary \/ RenameToRecord
           \/ \E size \in Sizes, deferred \in BOOLEAN : EnqueueStart(size, deferred)
  BY <1>4 DEF EvictOldest, EvictDone, WriteTemporary, RenameToRecord,
              EnqueueFailed, EnqueueStart, Call, TypeInv, TypeOK
<1> QED BY <1>1, <1>2, <1>3, <1>4 DEF Next, LoopStep, Corrupt

\* Every step leaves all but the first record whole.
LEMMA TornIsFirstStep ==
    ASSUME FirstInDoubt, FifoStoreInv, [Next]_vars
    PROVE  TornIsFirst'
<1>0. /\ TypeInv /\ IndexInv /\ NoOrphans /\ TornIsFirst
      /\ FaultKinds \cap {"read", "corrupt"} = {}
  BY DEF FifoStoreInv, OrderInv, CardInv, NoOrphans, FirstInDoubt
<1>1. \A id \in Files' : card'[id].integrity # "ok" => First(id)'
  <2>1. CASE \E id \in Files : /\ card' = [card EXCEPT ![id].integrity = "header"]
                              /\ call.op = "peeked" /\ id = call.id
    <3>1. Files' = Files
      BY <1>0, <2>1, FileSizes, NoFileAssumption DEF Files, TypeInv, TypeOK, Record
    <3>2. \A id \in Files : id # call.id => card'[id] = card[id]
      BY <2>1 DEF Files, TypeInv, TypeOK
    <3>3. \A id \in Files : card'[id].integrity # "ok" => First(id)
      BY <1>0, <2>1, <3>2 DEF TornIsFirst
    <3> QED BY <3>1, <3>3, FirstStays
  <2>2. CASE /\ Files' \subseteq Files
             /\ \A id \in Files' : card'[id].integrity = card[id].integrity
    BY <1>0, <2>2, FirstStays DEF TornIsFirst
  <2>3. CASE StoresRecord
    <3>1. /\ ready /\ next \in Ids \ Files /\ Files' = Files \cup {next}
          /\ card'[next].integrity = "ok"
          /\ \A id \in Files : card'[id] = card[id]
      BY <1>0, <2>3, StoredRecord
    <3>2. \A id \in Files : id <= next
      <4>1. \A id \in Files : id < next
        BY <1>0, <3>1 DEF IndexInv
      <4>2. Files \subseteq Nat /\ next \in Nat
        BY <3>1, Bounds DEF Files, Ids
      <4> QED BY <4>1, <4>2
    <3> SUFFICES ASSUME NEW id \in Files', card'[id].integrity # "ok"
                 PROVE  First(id)'
      OBVIOUS
    <3>3. id \in Files /\ First(id)
      BY <1>0, <3>1 DEF TornIsFirst
    <3> QED BY <3>1, <3>2, <3>3, FirstStays
  <2>4. CASE MarkFails
    <3>1. call.op = "peeked" /\ call.id \in Files
      BY <1>0, <2>4 DEF MarkFails, TypeInv, CallOK, Files
    <3>2. \/ card' = card
          \/ card' = [card EXCEPT ![call.id].integrity = "header"]
      BY <2>4 DEF MarkFails
    <3> QED BY <2>1, <2>2, <3>1, <3>2 DEF Files
  <2>5. CASE ~MarkFails /\ KeepsRecords
    <3>1. ~Damages
      BY <1>0, <2>5 DEF Damages, Corrupt
    <3> QED BY <2>2, <2>5, <3>1 DEF KeepsRecords
  <2> QED BY <1>0, <2>3, <2>4, <2>5, KeepsOrStores
<1>2. (call.op = "peeked" => First(call.id) /\ NoTornRecord)'
  <2> SUFFICES ASSUME call'.op = "peeked"
               PROVE  (\A other \in Files' : call'.id <= other) /\ NoTornRecord'
    BY DEF First
  <2>1. \/ call' = call /\ card' = card
        \/ /\ Peek /\ card' = card
           /\ call'.id = oldest /\ oldest \in Files /\ card[oldest].integrity = "ok"
    BY <1>0, PeeksOrRests
  <2>2. Files' = Files /\ (NoTornRecord => NoTornRecord')
    BY <2>1 DEF Files, NoTornRecord
  <2>3. CASE call' = call
    BY <1>0, <2>2, <2>3 DEF TornIsFirst, First
  <2>4. CASE /\ Peek /\ call'.id = oldest /\ oldest \in Files
             /\ card[oldest].integrity = "ok"
    <3>1. oldest = OldestOf(Files)
      BY <1>0, <2>4, Bounds DEF Peek, IndexInv
    <3>2. First(oldest)
      BY <2>4, <3>1, OldestIsFirst
    <3>3. NoTornRecord
      BY <1>0, <2>4, <3>2, OneFirst DEF TornIsFirst, NoTornRecord
    <3> QED BY <2>2, <2>4, <3>2, <3>3 DEF First
  <2> QED BY <2>1, <2>3, <2>4
<1> QED BY <1>1, <1>2 DEF TornIsFirst

\* A step that moves no file is none of the abstract spool.
LEMMA SpoolStutters ==
    ASSUME Files' = Files, \A id \in Files : card'[id].sample = card[id].sample,
           UNCHANGED accepted
    PROVE  UNCHANGED Spool!spoolVars
<1>1. {card'[id].sample : id \in Files'} = {card[id].sample : id \in Files}
  OBVIOUS
<1> QED BY <1>1 DEF Spool!spoolVars

\* The record with the lowest number is the one with the lowest sample.
LEMMA LowestLeaves ==
    ASSUME OrderInv, UNCHANGED accepted, NEW low \in Files, First(low),
           Files' = Files \ {low}, \A id \in Files' : card'[id] = card[id]
    PROVE  Spool!RemoveOldest
<1>0. TypeInv /\ SamplesOK /\ InOrder
  BY DEF OrderInv, CardInv, ReplayInv
<1>1. \A id \in Files : id = low \/ low < id
  <2>1. Files \subseteq Nat
    BY Bounds DEF Files, Ids
  <2> QED BY <2>1 DEF First
<1>2. \A id \in Files : card[id].sample \in Nat
  BY <1>0, FileSizes, Bounds DEF Record
<1>3. \A id \in Files : card[low].sample <= card[id].sample
  BY <1>0, <1>1, <1>2 DEF InOrder
<1>4. {card'[id].sample : id \in Files'} =
          {card[id].sample : id \in Files} \ {card[low].sample}
  BY <1>0 DEF SamplesOK
<1> QED BY <1>3, <1>4 DEF Spool!RemoveOldest

\* A removal takes the lowest sample.
LEMMA SpoolRemoves ==
    ASSUME OrderInv, ready, Removable, UNCHANGED accepted,
           NEW dirOk \in Works("dir"), NEW sizeRead \in Works("read"),
           Unlink(dirOk, sizeRead)
    PROVE  Spool!RemoveOldest
<1>0. TypeInv /\ IndexInv
  BY DEF OrderInv, CardInv, ReplayInv
<1>1. /\ oldest \in Files /\ oldest = OldestOf(Files) /\ Files' = Files \ {oldest}
  BY <1>0, UnlinkIndex
<1>2. \A id \in Files' : card'[id] = card[id]
  BY <1>0, <1>1 DEF Unlink, Files, TypeInv, TypeOK
<1>3. First(oldest)
  BY <1>1, OldestIsFirst
<1> QED BY <1>1, <1>2, <1>3, LowestLeaves

\* A stored record is the youngest sample, and finds room.
LEMMA SpoolStores ==
    ASSUME OrderInv, StoresRecord, RenameToRecord
    PROVE  \E s \in 1..MaxSamples : Spool!Store(s)
<1>0. TypeInv /\ SamplesOK /\ IndexInv /\ Room
  BY DEF OrderInv, CardInv, ReplayInv
<1>1. /\ ready /\ next \in Ids \ Files /\ Files' = Files \cup {next}
      /\ card'[next] = tmp /\ tmp.sample = produced
      /\ \A id \in Files : card'[id] = card[id]
  BY <1>0, StoredRecord
<1>2. /\ produced \in 1..MaxSamples /\ call.sample = produced
      /\ \A t \in accepted : t < produced
  BY <1>0, StoredIsYoungest
<1>3. accepted' = accepted \cup {produced}
  <2>1. card' # card
    BY <1>1 DEF Files
  <2> QED BY <1>2, <2>1 DEF RenameToRecord, EnqueueFailed
<1>4. {card'[id].sample : id \in Files'} =
          {card[id].sample : id \in Files} \cup {produced}
  BY <1>1
<1>5. Cardinality({card[id].sample : id \in Files}) < MaxRecords
  <2>1. Cardinality(Files) < MaxRecords
    BY <1>0, <1>1 DEF IndexInv, Room, StoresRecord
  <2>2. Cardinality({card[id].sample : id \in Files}) <= Cardinality(Files)
    BY <1>0, SamplesCount
  <2>3. IsFiniteSet({card[id].sample : id \in Files})
    <3>1. {card[id].sample : id \in Files} \in SUBSET (1..MaxSamples)
      BY <1>0, FileSizes DEF Record
    <3>2. IsFiniteSet(1..MaxSamples)
      BY Bounds, FS_Interval
    <3> QED BY <3>1, <3>2, FS_Subset
  <2>4. Cardinality({card[id].sample : id \in Files}) \in Nat
    BY <2>3, FS_CardinalityType
  <2> QED BY <1>0, <2>1, <2>2, <2>4, FilesFinite, Bounds
<1> DEFINE held == {card[id].sample : id \in Files}
<1>6. Spool!Cardinality(held) = Cardinality(held)
  BY DEF Spool!Cardinality, Cardinality, Spool!IsFiniteSet, IsFiniteSet
<1>7. Spool!Cardinality(held) < MaxRecords
  BY <1>5, <1>6, Zenon
<1> QED BY <1>2, <1>3, <1>4, <1>7 DEF Spool!Store

\* A scan drops the first record, if that one is torn, or none.
LEMMA ScanTakesFirst ==
    ASSUME OrderInv, TornIsFirst, NoOrphans, "read" \notin FaultKinds, Scan
    PROVE  /\ \A id \in Files' : card'[id] = card[id]
           /\ \/ Files' = Files
              \/ \E low \in Files : /\ First(low) /\ card[low].integrity # "ok"
                                    /\ Files' = Files \ {low}
<1>1. /\ Files' \subseteq Files /\ \A id \in Files' : card'[id] = card[id]
      /\ \A id \in Files \ Files' : card[id].integrity = "header"
  BY ScanIndex DEF OrderInv, CardInv
<1>2. CASE Files' # Files
  <2>1. PICK low \in Files : low \notin Files'
    BY <1>1, <1>2
  <2>2. \A id \in Files \ Files' : First(id) /\ card[id].integrity # "ok"
    BY <1>1 DEF TornIsFirst
  <2>3. \A id \in Files \ Files' : id = low
    BY <2>1, <2>2, OneFirst
  <2>4. Files' = Files \ {low}
    BY <1>1, <2>1, <2>3
  <2> QED BY <1>1, <2>1, <2>2, <2>4
<1> QED BY <1>1, <1>2

\* So it does in the abstract spool.
LEMMA SpoolScans ==
    ASSUME OrderInv, TornIsFirst, NoOrphans, "read" \notin FaultKinds, Scan,
           UNCHANGED accepted
    PROVE  Spool!RemoveOldest \/ UNCHANGED Spool!spoolVars
<1>1. CASE Files' = Files
  BY <1>1, ScanTakesFirst, SpoolStutters
<1>2. CASE \E low \in Files : First(low) /\ Files' = Files \ {low}
  BY <1>2, ScanTakesFirst, LowestLeaves
<1> QED BY <1>1, <1>2, ScanTakesFirst

\* Every step is one of the abstract spool, or none.
LEMMA SpoolRefined ==
    ASSUME FirstInDoubt, FifoStoreInv, [Next]_vars
    PROVE  [Spool!Next]_Spool!spoolVars
<1>0. /\ OrderInv /\ TypeInv /\ Whole /\ NoOrphans /\ "read" \notin FaultKinds
  BY DEF FifoStoreInv, OrderInv, CardInv, NoOrphans, FirstInDoubt
<1> USE DEF media, index, clocks, history
<1>1. CASE card' = card /\ accepted' = accepted
  BY <1>1, SpoolStutters DEF Files
<1>2. CASE /\ ready /\ Removable /\ accepted' = accepted
           /\ \E dirOk \in Works("dir"), sizeRead \in Works("read") :
                 Unlink(dirOk, sizeRead)
  BY <1>0, <1>2, SpoolRemoves DEF Spool!Next
<1>3. CASE \E id : Begin(id)
  <2>1. accepted' = accepted /\ (Scan \/ card' = card)
    BY <1>3 DEF Begin
  <2>2. CASE Scan
    BY <1>0, <2>1, <2>2, SpoolScans DEF FifoStoreInv, Spool!Next
  <2> QED BY <1>1, <2>1, <2>2
<1>4. CASE ExpireOldest
  <2>1. ready /\ Removable
    BY <1>0, <1>4, RestingCalls
       DEF ExpireOldest, Expired, Removable, TypeInv, TypeOK, CallOK
  <2> QED BY <1>1, <1>2, <1>4, <2>1 DEF ExpireOldest
<1>5. CASE EvictOldest \/ Peek \/ \E id \in Ids : Acknowledge(id)
  <2>1. ready
    BY <1>0, <1>5 DEF EvictOldest, Peek, Acknowledge, TypeInv, CallOK
  <2> QED BY <1>1, <1>2, <1>5, <2>1 DEF EvictOldest, Peek, Acknowledge
<1>6. CASE RenameToRecord
  <2>1. CASE StoresRecord
    BY <1>0, <1>6, <2>1, SpoolStores DEF Spool!Next
  <2> QED BY <1>1, <1>6, <2>1 DEF RenameToRecord, EnqueueFailed, StoresRecord
<1>7. CASE MarkAttempted \/ MarkFails \/ Corrupt
  <2>1. Files' = Files /\ UNCHANGED accepted
    BY <1>0, <1>7, HeadersKeepFiles DEF MarkAttempted, MarkFails, Corrupt
  <2>2. ~StoresRecord
    BY <1>0, <2>1, StoredRecord
  <2>3. \A id \in Files : card'[id].sample = card[id].sample
    BY <1>0, <2>1, <2>2, KeepsOrStores DEF KeepsRecords
  <2> QED BY <2>1, <2>3, SpoolStutters
<1>8. CASE UNCHANGED vars \/ UpdateUnavailable \/ UpdateRetry \/ ExpireDone
           \/ BeginAtBoot \/ EvictDone \/ WriteTemporary
  BY <1>1, <1>3, <1>8
     DEF vars, UpdateUnavailable, UpdateRetry, ExpireDone, BeginAtBoot, EvictDone,
         WriteTemporary, EnqueueFailed
<1>9. CASE \/ \E size \in Sizes, deferred \in BOOLEAN : EnqueueStart(size, deferred)
           \/ PowerLoss \/ StorageChanges \/ TimePasses
  BY <1>1, <1>9 DEF EnqueueStart, PowerLoss, StorageChanges, TimePasses
<1> QED BY <1>4, <1>5, <1>6, <1>7, <1>8, <1>9 DEF Next, LoopStep

\* Seen from outside, whichever listings and writes fail and wherever power is
\* lost, the card is the bounded first-in first-out store that DurableSpool
\* describes: a sample enters above every earlier one and only the lowest one
\* leaves.  So it is too with removals that fail, or with headers that tear
\* while they are rewritten.
THEOREM SpoolImplemented ==
    ASSUME FirstInDoubt
    PROVE  Spec => ImplementsSpool
<1>1. Init => Spool!Init /\ FifoStoreInv
  <2> SUFFICES ASSUME Init PROVE Spool!Init /\ FifoStoreInv
    OBVIOUS
  <2>1. Files = {}
    BY DEF Init, Files
  <2>2. TornIsFirst
    BY <2>1, RestingCalls DEF Init, TornIsFirst
  <2> QED BY <2>1, <2>2, OrderInit DEF Init, Spool!Init, FifoStoreInv
<1>2. FifoStoreInv /\ [Next]_vars => FifoStoreInv'
  BY OrderStep, TornIsFirstStep DEF FifoStoreInv, FirstInDoubt, NoOrphans
<1>3. FifoStoreInv /\ [Next]_vars => [Spool!Next]_Spool!spoolVars
  BY SpoolRefined
<1> QED BY <1>1, <1>2, <1>3, PTL DEF Spec, ImplementsSpool, Spool!Spec
=============================================================================
