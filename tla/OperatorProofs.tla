---------------------------- MODULE OperatorProofs ----------------------------
(***************************************************************************)
(* Theorems about the pure algorithms, for every input: which actions are  *)
(* applied unseen, which of them is chosen, what edits make of a text,     *)
(* what is read from a tool's output and which spans are reported, what a  *)
(* digest tells of its records, and which setting counts.                  *)
(*                                                                         *)
(* Most of them fold a step over a sequence.  A fold is the last state of  *)
(* a trace, which takes the steps one after the other (IsTrace), so what   *)
(* each step keeps holds of the fold (TraceInduction).  What the screening *)
(* asks is found test by test: tests in order end well exactly if each of  *)
(* them does (AllAreOk), because among those that do not there is a first  *)
(* one (LeastNumber).  What a merge makes of a setting is found for one    *)
(* profile and then for a layer.                                           *)
(***************************************************************************)
EXTENDS Operators, FiniteSetTheorems, WellFoundedInduction, TLAPS

\* Every set of numbers that is not empty has a least element, which Min chooses.
LEMMA LeastNumber ==
    ASSUME NEW S, S \subseteq Nat, S # {}
    PROVE  /\ Min(S) \in S
           /\ \A n \in S : Min(S) <= n
<1> DEFINE Less == {pair \in Nat \X Nat : pair[1] < pair[2]}
<1>1. IsWellFoundedOn(Less, Nat)
  BY NatLessThanWellFounded DEF OpToRel
<1>2. \E x \in S : \A y \in S : ~(<<y, x>> \in Less)
  <2> HIDE DEF Less
  <2> QED BY <1>1, WFMin
<1>3. PICK x \in S : \A y \in S : ~(<<y, x>> \in Less)
  BY <1>2
<1>4. ASSUME NEW y \in S PROVE x <= y
  <2>1. <<y, x>> \in Nat \X Nat /\ <<y, x>> \notin Less
    BY <1>3
  <2>2. ~(y < x)
    BY <2>1
  <2> QED BY <2>2
<1> QED BY <1>4 DEF Min

-----------------------------------------------------------------------------
(***************************************************************************)
(* Sets and the sequences they are sorted into.                            *)
(***************************************************************************)

\* A relation that orders a set totally.
Orders(before, S) ==
    /\ \A x \in S : <<x, x>> \notin before
    /\ \A x, y \in S : x # y => <<x, y>> \in before \/ <<y, x>> \in before
    /\ \A x, y, z \in S : <<x, y>> \in before /\ <<y, z>> \in before => <<x, z>> \in before

\* s has every element of a set once, in the order of a relation.
IsInOrder(s, S, before) ==
    /\ s \in [1..Cardinality(S) -> S]
    /\ \A x \in S : \E k \in 1..Cardinality(S) : s[k] = x
    /\ \A j, k \in 1..Cardinality(S) : j < k <=> <<s[j], s[k]>> \in before

\* A set that is totally ordered is sorted.
LEMMA SortIsInOrder ==
    ASSUME NEW S, IsFiniteSet(S), NEW before, Orders(before, S)
    PROVE  Cardinality(S) \in Nat /\ IsInOrder(Sort(S, before), S, before)
<1> DEFINE n == Cardinality(S)
           below(x) == {y \in S : <<y, x>> \in before}
           rank == [x \in S |-> Cardinality(below(x))]
           s == Sort(S, before)
<1>1. n \in Nat
  BY FS_CardinalityType
<1>2. ASSUME NEW x \in S
      PROVE  IsFiniteSet(below(x)) /\ rank[x] \in 0..(n - 1)
  <2>1. below(x) \subseteq S \ {x}
    BY DEF Orders
  <2>2. IsFiniteSet(S \ {x}) /\ Cardinality(S \ {x}) = n - 1
    BY FS_RemoveElement
  <2>3. IsFiniteSet(below(x)) /\ Cardinality(below(x)) <= n - 1
    <3> HIDE DEF below, n
    <3> QED BY <2>1, <2>2, FS_Subset
  <2>4. Cardinality(below(x)) \in Nat
    BY <2>3, FS_CardinalityType
  <2> QED BY <1>1, <2>3, <2>4
<1>3. ASSUME NEW x \in S, NEW y \in S, <<x, y>> \in before
      PROVE  rank[x] < rank[y]
  <2>1. below(x) \subseteq below(y) /\ x \in below(y) /\ x \notin below(x)
    BY <1>3 DEF Orders
  <2>2. IsFiniteSet(below(y)) /\ rank[x] \in Nat /\ rank[y] \in Nat
    BY <1>1, <1>2
  <2> HIDE DEF below
  <2>3. Cardinality(below(x)) <= Cardinality(below(y)) /\ Cardinality(below(x)) # Cardinality(below(y))
    BY <2>1, <2>2, FS_Subset
  <2> QED BY <2>2, <2>3
<1>4. \A x, y \in S : rank[x] = rank[y] => x = y
  <2> SUFFICES ASSUME NEW x \in S, NEW y \in S, rank[x] = rank[y], x # y PROVE FALSE
    OBVIOUS
  <2>1. rank[x] \in Int /\ rank[y] \in Int
    BY <1>2
  <2>2. rank[x] < rank[y] \/ rank[y] < rank[x]
    BY <1>3 DEF Orders
  <2> HIDE DEF rank
  <2> QED BY <2>1, <2>2
<1>5. \A k \in 1..n : \E x \in S : rank[x] = k - 1
  <2> HIDE DEF rank
  <2>1. rank \in [S -> 0..(n - 1)]
    BY <1>2 DEF rank
  <2>2. rank \in Injection(S, 0..(n - 1))
    BY <1>4, <2>1 DEF Injection, IsInjective
  <2>3. IsFiniteSet(0..(n - 1)) /\ Cardinality(0..(n - 1)) = n
    BY <1>1, FS_Interval
  <2>4. rank \in Surjection(S, 0..(n - 1))
    BY <2>2, <2>3, FS_Injection
  <2>5. \A k \in 0..(n - 1) : \E x \in S : rank[x] = k
    BY <2>4 DEF Surjection
  <2>6. \A k \in 1..n : k - 1 \in 0..(n - 1)
    BY <1>1
  <2> QED BY <2>5, <2>6
<1>6. ASSUME NEW k \in 1..n PROVE s[k] \in S /\ rank[s[k]] = k - 1
  <2>1. s[k] = CHOOSE x \in S : rank[x] = k - 1
    BY DEF Sort
  <2> HIDE DEF rank, s
  <2> QED BY <1>5, <2>1
<1>7. \A x \in S : s[rank[x] + 1] = x /\ rank[x] + 1 \in 1..n
  <2> SUFFICES ASSUME NEW x \in S PROVE s[rank[x] + 1] = x /\ rank[x] + 1 \in 1..n
    OBVIOUS
  <2>1. rank[x] + 1 \in 1..n /\ (rank[x] + 1) - 1 = rank[x]
    <3>1. rank[x] \in 0..(n - 1)
      BY <1>2
    <3> HIDE DEF rank, n
    <3> QED BY <1>1, <3>1
  <2> HIDE DEF rank, s
  <2> QED BY <1>4, <1>6, <2>1
<1>8. ASSUME NEW j \in 1..n, NEW k \in 1..n
      PROVE  j < k <=> <<s[j], s[k]>> \in before
  <2>1. /\ s[j] \in S /\ rank[s[j]] = j - 1
        /\ s[k] \in S /\ rank[s[k]] = k - 1
    BY <1>6
  <2>2. /\ <<s[j], s[k]>> \in before => rank[s[j]] < rank[s[k]]
        /\ <<s[k], s[j]>> \in before => rank[s[k]] < rank[s[j]]
    BY <1>3, <2>1
  <2>3. \/ s[j] = s[k] 
        \/ <<s[j], s[k]>> \in before \/ <<s[k], s[j]>> \in before
    BY <2>1 DEF Orders
  <2> HIDE DEF rank, s
  <2>4. j \in Int /\ k \in Int /\ (s[j] = s[k] => j = k)
    BY <2>1
  <2>5. <<s[j], s[k]>> \in before => j < k
    BY <2>1, <2>2, <2>4
  <2>6. j < k => <<s[j], s[k]>> \in before
    BY <2>1, <2>2, <2>3, <2>4
  <2> QED BY <2>5, <2>6
<1>9. s \in [1..n -> S]
  <2> DEFINE value(k) == CHOOSE x \in S : Cardinality({y \in S : <<y, x>> \in before}) = k - 1
  <2>0. s = [k \in 1..n |-> value(k)]
    BY DEF Sort
  <2> HIDE DEF value
  <2>1. s = [k \in 1..n |-> s[k]]
    BY <2>0
  <2> HIDE DEF s
  <2> QED BY <1>6, <2>1
<1> HIDE DEF s, rank, n
<1> QED BY <1>1, <1>7, <1>8, <1>9 DEF IsInOrder, n, s

\* The numbers of a finite set stand in their order.
LEMMA AscendingIsInOrder ==
    ASSUME NEW S, IsFiniteSet(S), S \subseteq Nat
    PROVE  LET a == Ascending(S)
               n == Cardinality(S)
           IN  /\ n \in Nat
               /\ a \in [1..n -> S]
               /\ \A x \in S : \E k \in 1..n : a[k] = x
               /\ \A j, k \in 1..n : j < k <=> a[j] < a[k]
<1> DEFINE before == {pair \in S \X S : pair[1] < pair[2]}
<1>1. \A x, y \in S : <<x, y>> \in before <=> x < y
  OBVIOUS
<1>2. Orders(before, S)
  <2>1. S \subseteq Int
    OBVIOUS
  <2> HIDE DEF before
  <2> QED BY <1>1, <2>1 DEF Orders
<1>3. Ascending(S) = Sort(S, before)
  BY DEF Ascending
<1> HIDE DEF before
<1>4. Cardinality(S) \in Nat /\ IsInOrder(Ascending(S), S, before)
  BY <1>2, <1>3, SortIsInOrder
<1>5. \A k \in 1..Cardinality(S) : Ascending(S)[k] \in S
  BY <1>4 DEF IsInOrder
<1> QED BY <1>1, <1>4, <1>5 DEF IsInOrder

\* Places of a sequence are finitely many.
LEMMA PlacesAreFinite ==
    ASSUME NEW n \in Nat, NEW S, S \subseteq 1..n
    PROVE  IsFiniteSet(S) /\ S \subseteq Nat /\ Cardinality(S) \in Nat
<1>1. IsFiniteSet(1..n)
  BY FS_Interval
<1>2. IsFiniteSet(S)
  BY <1>1, FS_Subset
<1> QED BY <1>2, FS_CardinalityType

\* What a function makes of a finite set is finite.
LEMMA ImageIsFinite ==
    ASSUME NEW S, IsFiniteSet(S), NEW f
    PROVE  IsFiniteSet({f[k] : k \in S})
<1> DEFINE g == [k \in S |-> f[k]]
           T == {f[k] : k \in S}
<1>1. g \in Surjection(S, T)
  BY DEF Surjection
<1>2. IsFiniteSet(T)
  <2> HIDE DEF g, T
  <2> QED BY <1>1, FS_Surjection
<1> QED BY <1>2

\* f takes each element of S to one of T, each of T from one of S.
OneToOne(f, S, T) ==
    /\ \A k \in S : f[k] \in T
    /\ \A a \in T : \E k \in S : f[k] = a
    /\ \A j, k \in S : f[j] = f[k] => j = k

HasOne(S) == \E x : S = {x}

\* One to one, a set has a single element exactly if the other has.
LEMMA SingleImage ==
    ASSUME NEW S, NEW T, NEW f, OneToOne(f, S, T)
    PROVE  /\ HasOne(T) <=> HasOne(S)
           /\ \A k : S = {k} => T = {f[k]}
<1>1. ASSUME NEW x, T = {x} PROVE HasOne(S)
  <2>1. PICK k \in S : f[k] = x
    BY <1>1 DEF OneToOne
  <2>2. \A j \in S : j = k
    BY <1>1, <2>1 DEF OneToOne
  <2>3. S = {k}
    BY <2>1, <2>2
  <2> QED BY <2>3 DEF HasOne
<1>2. ASSUME NEW k, S = {k} PROVE T = {f[k]}
  BY <1>2 DEF OneToOne
<1> QED BY <1>1, <1>2 DEF HasOne

-----------------------------------------------------------------------------
(***************************************************************************)
(* Steps taken one after the other.  A fold over a sequence is defined by a*)
(* function on sets of places that CHOOSE picks; there is one (FoldExists),*)
(* and it passes through what there is after each step (FoldTrace).        *)
(***************************************************************************)

\* Induction over numbers, for a set of them.
LEMMA NumberInduction ==
    ASSUME NEW P, 0 \in P, \A n \in Nat : n \in P => n + 1 \in P
    PROVE  Nat \subseteq P
<1> SUFFICES ASSUME Nat \ P # {} PROVE FALSE
  OBVIOUS
<1> DEFINE S == Nat \ P
           m == Min(S)
<1>1. m \in S /\ \A n \in S : m <= n
  <2>1. S \subseteq Nat /\ S # {}
    OBVIOUS
  <2> HIDE DEF S
  <2> QED BY <2>1, LeastNumber
<1> HIDE DEF m
<1>2. m # 0
  BY <1>1
<1>3. m - 1 \in Nat /\ ~(m <= m - 1) /\ (m - 1) + 1 = m
  BY <1>1, <1>2
<1>4. m - 1 \in P
  BY <1>1, <1>3
<1> QED BY <1>1, <1>3, <1>4

\* The greatest of some of the first numbers is one of them.
LEMMA GreatestIsIn ==
    ASSUME NEW N \in Nat, NEW d \in SUBSET (1..N), d # {}
    PROVE  Max(d) \in d /\ \A j \in d : j <= Max(d)
<1> DEFINE S == {N - k : k \in d}
<1>0. \A k \in d : k \in Int /\ N - k \in Nat
  OBVIOUS
<1>1. S \subseteq Nat /\ S # {}
  BY <1>0
<1>2. PICK m \in S : \A n \in S : m <= n
  <2> HIDE DEF S
  <2> QED BY <1>1, LeastNumber
<1>3. PICK k \in d : m = N - k
  BY <1>2
<1>4. \A j \in d : N - k <= N - j
  BY <1>2, <1>3
<1>5. \A j \in d : j <= k
  BY <1>0, <1>4
<1>6. \E x \in d : \A y \in d : x >= y
  BY <1>5
<1>7. Max(d) \in d /\ \A y \in d : Max(d) >= y
  BY <1>6 DEF Max
<1> QED BY <1>7

\* The first n numbers are the first n - 1 and n.
LEMMA FirstNumbers ==
    ASSUME NEW N \in Nat, NEW n \in 1..N
    PROVE  /\ Max(1..n) = n
           /\ 1..n \ {n} = 1..(n - 1)
           /\ 1..n \in SUBSET (1..N) /\ 1..n # {}
<1>1. n \in Nat /\ n > 0 /\ n <= N
  OBVIOUS
<1>2. Max(1..n) = n
  BY <1>1 DEF Max
<1>3. \A k \in Int : k \in 1..n /\ k # n <=> k \in 1..(n - 1)
  BY <1>1
<1>4. 1..n \ {n} = 1..(n - 1)
  BY <1>1, <1>3
<1>5. 1..n \subseteq 1..N /\ n \in 1..n
  BY <1>1
<1> QED BY <1>2, <1>4, <1>5

\* it takes the numbers of a set in, the greatest last, from b on.
TakesIn(it, N, b, g) ==
    /\ it[{}] = b
    /\ \A d \in SUBSET (1..N) : d # {} => it[d] = g[Max(d)][it[d \ {Max(d)}]]

\* As TakesIn, as far as what it takes is in V.
Follows(it, N, b, g, V) ==
    /\ it[{}] = b
    /\ \A d \in SUBSET (1..N) :
          d # {} /\ it[d \ {Max(d)}] \in V => it[d] = g[Max(d)][it[d \ {Max(d)}]]

\* h is what there is after each step, from b on.
IsTrace(h, N, b, g, V) ==
    /\ h \in [0..N -> V]
    /\ h[0] = b
    /\ \A n \in 1..N : h[n] = g[n][h[n - 1]]

\* Steps can be taken one after the other.
LEMMA FoldExists ==
    ASSUME NEW V, NEW N \in Nat, NEW b \in V, NEW g \in [1..N -> [V -> V]]
    PROVE  \E it \in [SUBSET (1..N) -> V] : TakesIn(it, N, b, g)
<1> DEFINE Within(n) == {d \in SUBSET (1..N) : Cardinality(d) <= n}
           Fits(n, f) == \A d \in Within(n) : f[d] = IF d = {} THEN b ELSE g[Max(d)][f[d \ {Max(d)}]]
           P == {n \in Nat : \E f \in [SUBSET (1..N) -> V] : Fits(n, f)}
<1>0. \A d \in SUBSET (1..N) : IsFiniteSet(d) /\ Cardinality(d) \in Nat /\ (Cardinality(d) = 0 <=> d = {})
  <2>1. \A d \in SUBSET (1..N) : IsFiniteSet(d)
    BY PlacesAreFinite
  <2> QED BY <2>1, FS_CardinalityType, FS_EmptySet
<1>1. ASSUME NEW d \in SUBSET (1..N), d # {}
      PROVE  /\ Max(d) \in d /\ d \ {Max(d)} \in SUBSET (1..N)
             /\ Cardinality(d \ {Max(d)}) = Cardinality(d) - 1
  <2>1. Max(d) \in d
    BY <1>1, GreatestIsIn
  <2>2. Cardinality(d \ {Max(d)}) = Cardinality(d) - 1
    BY <1>0, <2>1, FS_RemoveElement
  <2> QED BY <2>1, <2>2
<1>2. 0 \in P
  <2> DEFINE f == [d \in SUBSET (1..N) |-> b]
  <2>1. f \in [SUBSET (1..N) -> V]
    OBVIOUS
  <2>2. Fits(0, f)
    BY <1>0
  <2> QED BY <2>1, <2>2
<1>3. ASSUME NEW n \in Nat, n \in P PROVE n + 1 \in P
  <2>1. PICK f \in [SUBSET (1..N) -> V] : Fits(n, f)
    BY <1>3
  <2> DEFINE h == [d \in SUBSET (1..N) |-> IF d = {} THEN b ELSE g[Max(d)][f[d \ {Max(d)}]]]
  <2>2. h \in [SUBSET (1..N) -> V]
    <3>1. ASSUME NEW d \in SUBSET (1..N), d # {}
          PROVE  g[Max(d)][f[d \ {Max(d)}]] \in V
      <4>1. Max(d) \in 1..N /\ d \ {Max(d)} \in SUBSET (1..N)
        BY <1>1, <3>1
      <4>2. f[d \ {Max(d)}] \in V /\ g[Max(d)] \in [V -> V]
        BY <4>1
      <4> QED BY <4>2
    <3> QED BY <3>1
  <2>3. \A d \in Within(n) : h[d] = f[d]
    BY <2>1
  <2>4. ASSUME NEW d \in Within(n + 1), d # {}
        PROVE  h[d] = g[Max(d)][h[d \ {Max(d)}]]
    <3>1. d \ {Max(d)} \in Within(n)
      BY <1>0, <1>1, <2>4
    <3>2. h[d \ {Max(d)}] = f[d \ {Max(d)}]
      BY <3>1, <2>3
    <3>3. d \in SUBSET (1..N)
      OBVIOUS
    <3>4. h[d] = g[Max(d)][f[d \ {Max(d)}]]
      BY <2>4, <3>3
    <3> HIDE DEF h
    <3> QED BY <3>2, <3>4
  <2>5. Fits(n + 1, h)
    BY <2>4
  <2> HIDE DEF h, Fits
  <2> QED BY <2>2, <2>5
<1>4. N \in P
  <2> HIDE DEF P
  <2> QED BY <1>2, <1>3, NumberInduction
<1>5. PICK f \in [SUBSET (1..N) -> V] : Fits(N, f)
  BY <1>4
<1>6. \A d \in SUBSET (1..N) : d \in Within(N)
  <2>1. IsFiniteSet(1..N) /\ Cardinality(1..N) = N
    BY FS_Interval
  <2>2. ASSUME NEW d \in SUBSET (1..N) PROVE Cardinality(d) <= N
    <3>1. Cardinality(d) <= Cardinality(1..N)
      BY <2>1, FS_Subset
    <3> QED BY <2>1, <3>1
  <2> QED BY <2>2
<1>7. \A d \in SUBSET (1..N) : f[d] = IF d = {} THEN b ELSE g[Max(d)][f[d \ {Max(d)}]]
  BY <1>5, <1>6
<1>8. f \in [SUBSET (1..N) -> V] /\ {} \in SUBSET (1..N)
  OBVIOUS
<1>9. TakesIn(f, N, b, g)
  <2> HIDE DEF Fits, P, Within
  <2> QED BY <1>7, <1>8 DEF TakesIn
<1> QED BY <1>8, <1>9

\* What is taken in number by number passes through what there is after each.
LEMMA FoldTrace ==
    ASSUME NEW V, NEW N \in Nat, NEW b \in V, NEW g \in [1..N -> [V -> V]],
           NEW it, Follows(it, N, b, g, V)
    PROVE  IsTrace([n \in 0..N |-> it[1..n]], N, b, g, V)
<1> DEFINE h == [n \in 0..N |-> it[1..n]]
           P == {n \in Nat : n <= N => h[n] \in V}
<1>1. h[0] = b
  BY DEF Follows
<1>2. ASSUME NEW n \in 1..N, h[n - 1] \in V PROVE h[n] = g[n][h[n - 1]] /\ h[n] \in V
  <2>1. n \in 0..N /\ n - 1 \in 0..N
    OBVIOUS
  <2>2. it[1..n] = g[n][it[1..(n - 1)]]
    <3>1. /\ Max(1..n) = n /\ 1..n \ {n} = 1..(n - 1)
          /\ 1..n \in SUBSET (1..N) /\ 1..n # {}
      BY FirstNumbers
    <3>2. it[1..(n - 1)] \in V
      BY <1>2, <2>1
    <3> HIDE DEF h
    <3>3. it[1..n \ {Max(1..n)}] \in V
      BY <3>1, <3>2
    <3> QED BY <3>1, <3>3 DEF Follows
  <2>3. h[n] = g[n][h[n - 1]]
    BY <2>1, <2>2
  <2> HIDE DEF h
  <2> QED BY <1>2, <2>3
<1>3. Nat \subseteq P
  <2>1. 0 \in P
    BY <1>1
  <2>2. ASSUME NEW n \in Nat, n \in P PROVE n + 1 \in P
    <3>1. SUFFICES ASSUME n + 1 <= N PROVE h[n + 1] \in V
      OBVIOUS
    <3>2. n + 1 \in 1..N /\ (n + 1) - 1 = n
      BY <3>1
    <3>3. h[n] \in V
      BY <2>2, <3>1
    <3> HIDE DEF h
    <3> QED BY <1>2, <3>2, <3>3
  <2> HIDE DEF P
  <2> QED BY <2>1, <2>2, NumberInduction
<1>4. \A n \in 0..N : h[n] \in V
  <2> HIDE DEF h
  <2> QED BY <1>3
<1>5. h \in [0..N -> V]
  <2>1. h = [n \in 0..N |-> h[n]]
    OBVIOUS
  <2> HIDE DEF h
  <2> QED BY <1>4, <2>1
<1>6. \A n \in 1..N : n - 1 \in 0..N
  OBVIOUS
<1> HIDE DEF h
<1>7. IsTrace(h, N, b, g, V)
  BY <1>1, <1>2, <1>4, <1>5, <1>6 DEF IsTrace
<1> QED BY <1>7 DEF h

\* Each step takes what may be there before it to what may be there after it.
Preserves(inv, N, g, V) == \A n \in 1..N : \A v \in V : v \in inv[n - 1] => g[n][v] \in inv[n]

\* What each step preserves is there at the end.
LEMMA TraceInduction ==
    ASSUME NEW V, NEW N \in Nat, NEW b \in V, NEW g, NEW h, IsTrace(h, N, b, g, V),
           NEW inv, b \in inv[0], Preserves(inv, N, g, V)
    PROVE  h[N] \in V /\ h[N] \in inv[N]
<1> DEFINE P == {n \in Nat : n <= N => h[n] \in inv[n]}
<1>1. 0 \in P
  BY DEF IsTrace
<1>2. ASSUME NEW n \in Nat, n \in P PROVE n + 1 \in P
  <2>1. SUFFICES ASSUME n + 1 <= N PROVE h[n + 1] \in inv[n + 1]
    OBVIOUS
  <2>2. n + 1 \in 1..N /\ (n + 1) - 1 = n /\ n \in 0..N
    BY <2>1
  <2>3. h[n] \in V /\ h[n] \in inv[n] /\ h[n + 1] = g[n + 1][h[n]]
    BY <1>2, <2>1, <2>2 DEF IsTrace
  <2> QED BY <2>2, <2>3 DEF Preserves
<1>3. Nat \subseteq P
  <2> HIDE DEF P
  <2> QED BY <1>1, <1>2, NumberInduction
<1> QED BY <1>3 DEF IsTrace

-----------------------------------------------------------------------------
(***************************************************************************)
(* Sequences that are picked from others.                                  *)
(***************************************************************************)

\* s has the numbers of a set, the least one first.
IsAscending(s, m, S) ==
    /\ DOMAIN s = 1..m
    /\ \A k \in 1..m : s[k] \in S
    /\ \A x \in S : \E k \in 1..m : s[k] = x
    /\ \A j, k \in 1..m : j < k => s[j] < s[k]

\* Two such sequences do not differ, here in that the first has the lesser number ...
LEMMA NoLesser ==
    ASSUME NEW S \in SUBSET Nat, NEW m \in Nat, NEW s, NEW t,
           IsAscending(s, m, S), IsAscending(t, m, S), NEW k \in 1..m,
           \A j \in 1..m : j < k => s[j] = t[j]
    PROVE  ~(s[k] < t[k])
<1> SUFFICES ASSUME s[k] < t[k] PROVE FALSE
  OBVIOUS
<1>1. PICK j \in 1..m : t[j] = s[k]
  BY DEF IsAscending
<1>2. s[k] \in Int /\ t[k] \in Int /\ j \in Int /\ k \in Int
  <2>1. s[k] \in S /\ t[k] \in S
    BY DEF IsAscending
  <2>2. S \subseteq Int
    OBVIOUS
  <2>3. j \in Int /\ k \in Int
    OBVIOUS
  <2> QED BY <2>1, <2>2, <2>3
<1>3. CASE j < k
  <2>1. s[j] < s[k] /\ s[j] = s[k]
    BY <1>1, <1>3 DEF IsAscending
  <2> QED BY <1>2, <2>1
<1>4. CASE j = k
  BY <1>1, <1>2, <1>4
<1>5. CASE k < j
  <2>1. t[k] < t[j]
    BY <1>5 DEF IsAscending
  <2> QED BY <1>1, <1>2, <2>1
<1> QED BY <1>2, <1>3, <1>4, <1>5

\* ... or anywhere.
LEMMA OneOrder ==
    ASSUME NEW S \in SUBSET Nat, NEW m \in Nat, NEW s, NEW t,
           IsAscending(s, m, S), IsAscending(t, m, S), NEW i \in 1..m
    PROVE  s[i] = t[i]
<1> DEFINE B == {k \in 1..m : s[k] # t[k]}
<1> SUFFICES ASSUME B # {} PROVE FALSE
  OBVIOUS
<1>1. PICK k \in B : \A j \in B : k <= j
  <2>1. B \subseteq Nat
    OBVIOUS
  <2> HIDE DEF B
  <2> QED BY <2>1, LeastNumber
<1>2. \A j \in 1..m : j < k => s[j] = t[j]
  <2>1. k \in Int /\ \A j \in 1..m : j \in Int
    OBVIOUS
  <2> QED BY <1>1, <2>1
<1>3. ~(s[k] < t[k]) /\ ~(t[k] < s[k])
  <2>1. \A j \in 1..m : j < k => t[j] = s[j]
    BY <1>2
  <2>2. k \in 1..m
    OBVIOUS
  <2> HIDE DEF B
  <2>3. ~(s[k] < t[k])
    BY <1>2, <2>2, NoLesser
  <2>4. ~(t[k] < s[k])
    BY <2>1, <2>2, NoLesser
  <2> QED BY <2>3, <2>4
<1>4. s[k] \in Int /\ t[k] \in Int /\ s[k] # t[k]
  <2>1. k \in 1..m /\ s[k] # t[k]
    OBVIOUS
  <2>2. s[k] \in S /\ t[k] \in S
    BY <2>1 DEF IsAscending
  <2>3. S \subseteq Int
    OBVIOUS
  <2> QED BY <2>1, <2>2, <2>3
<1> QED BY <1>3, <1>4

\* A number greater than all of a set stands after them.
LEMMA AscendingGrows ==
    ASSUME NEW S, IsFiniteSet(S), S \subseteq Nat, NEW n \in Nat, \A x \in S : x < n
    PROVE  LET m == Cardinality(S)
               T == S \cup {n}
           IN  /\ m \in Nat /\ Cardinality(T) = m + 1
               /\ \A k \in 1..m : Ascending(T)[k] = Ascending(S)[k]
               /\ Ascending(T)[m + 1] = n
<1> DEFINE m == Cardinality(S)
           T == S \cup {n}
           a == Ascending(S)
           b == Ascending(T)
<1>1. n \notin S
  <2>1. ~(n < n)
    OBVIOUS
  <2> QED BY <2>1
<1>2. IsFiniteSet(T) /\ Cardinality(T) = m + 1 /\ m \in Nat
  BY <1>1, FS_AddElement, FS_CardinalityType
<1>3. IsAscending(a, m, S)
  <2>1. a \in [1..m -> S] /\ (\A x \in S : \E k \in 1..m : a[k] = x) /\ \A j, k \in 1..m : j < k <=> a[j] < a[k]
    BY AscendingIsInOrder
  <2> HIDE DEF a, m
  <2> QED BY <2>1 DEF IsAscending
<1>4. IsAscending(b, m + 1, T)
  <2>1. T \subseteq Nat
    OBVIOUS
  <2> HIDE DEF T, b
  <2>2. /\ b \in [1..Cardinality(T) -> T]
        /\ \A x \in T : \E k \in 1..Cardinality(T) : b[k] = x
        /\ \A j, k \in 1..Cardinality(T) : j < k <=> b[j] < b[k]
    BY <1>2, <2>1, AscendingIsInOrder DEF b
  <2>3. /\ b \in [1..(m + 1) -> T]
        /\ \A x \in T : \E k \in 1..(m + 1) : b[k] = x
        /\ \A j, k \in 1..(m + 1) : j < k <=> b[j] < b[k]
    BY <1>2, <2>2
  <2> HIDE DEF m
  <2> QED BY <2>3 DEF IsAscending
<1>5. \A x \in T : x \in Int /\ x <= n
  OBVIOUS
<1> HIDE DEF m, a, b
<1>6. b[m + 1] = n
  <2>1. PICK j \in 1..(m + 1) : b[j] = n
    BY <1>4 DEF IsAscending
  <2>2. m + 1 \in 1..(m + 1) /\ (j = m + 1 \/ j < m + 1)
    BY <1>2
  <2>3. b[m + 1] \in T
    BY <1>4, <2>2 DEF IsAscending
  <2>4. j < m + 1 => n < b[m + 1]
    BY <1>4, <2>1, <2>2 DEF IsAscending
  <2>5. ~(n < b[m + 1])
    <3>1. b[m + 1] \in Int /\ b[m + 1] <= n
      <4> HIDE DEF T
      <4> QED BY <1>5, <2>3
    <3> QED BY <3>1
  <2> QED BY <2>1, <2>2, <2>4, <2>5
<1>7. IsAscending([k \in 1..m |-> b[k]], m, S)
  <2>1. \A k \in 1..m : k \in 1..(m + 1) /\ k < m + 1
    BY <1>2
  <2>2. \A k \in 1..(m + 1) : k \in 1..m \/ k = m + 1
    BY <1>2
  <2>3. m + 1 \in 1..(m + 1)
    BY <1>2
  <2>4. ASSUME NEW k \in 1..m PROVE b[k] \in S
    <3>1. b[k] \in T /\ b[k] < n
      BY <1>4, <1>6, <2>1, <2>3 DEF IsAscending
    <3>2. b[k] # n
      BY <1>1, <3>1
    <3> QED BY <3>1, <3>2
  <2>5. ASSUME NEW x \in S PROVE \E k \in 1..m : b[k] = x
    <3>1. PICK k \in 1..(m + 1) : b[k] = x
      BY <1>4 DEF IsAscending
    <3> QED BY <1>1, <1>6, <2>2, <3>1
  <2>6. \A j, k \in 1..m : j < k => b[j] < b[k]
    BY <1>4, <2>1 DEF IsAscending
  <2> QED BY <2>4, <2>5, <2>6 DEF IsAscending
<1>8. \A k \in 1..m : b[k] = a[k]
  <2> DEFINE c == [k \in 1..m |-> b[k]]
  <2>1. \A k \in 1..m : c[k] = b[k]
    OBVIOUS
  <2> HIDE DEF c
  <2>2. IsAscending(c, m, S)
    BY <1>7 DEF c
  <2>3. \A k \in 1..m : c[k] = a[k]
    <3>1. m \in Nat
      BY <1>2
    <3> SUFFICES ASSUME NEW k \in 1..m PROVE c[k] = a[k]
      OBVIOUS
    <3> HIDE DEF T
    <3> QED BY <1>3, <2>2, <3>1, OneOrder
  <2> QED BY <2>1, <2>3
<1> QED BY <1>2, <1>6, <1>8 DEF m, a, b

\* p has what s has at some places.
HasThose(p, s, S) == \A x : (\E k \in DOMAIN p : p[k] = x) <=> \E k \in S : s[k] = x

\* What is picked are elements of the sequence.
LEMMA PickedIsIn ==
    ASSUME NEW T, NEW s \in Seq(T), NEW S, S \subseteq 1..Len(s)
    PROVE  /\ Picked(s, S) \in Seq(T)
           /\ Len(Picked(s, S)) = Cardinality(S)
           /\ HasThose(Picked(s, S), s, S)
<1> DEFINE a == Ascending(S)
           m == Cardinality(S)
           p == Picked(s, S)
<1>1. IsFiniteSet(S) /\ S \subseteq Nat /\ m \in Nat
  <2>1. Len(s) \in Nat
    OBVIOUS
  <2> QED BY <2>1, PlacesAreFinite
<1>2. a \in [1..m -> S] /\ \A x \in S : \E k \in 1..m : a[k] = x
  BY <1>1, AscendingIsInOrder
<1>3. p = [k \in 1..m |-> s[a[k]]]
  BY DEF Picked
<1>4. \A k \in S : s[k] \in T
  OBVIOUS
<1> HIDE DEF a, m, p
<1>5. \A k \in 1..m : a[k] \in S /\ s[a[k]] \in T
  BY <1>2, <1>4
<1>6. p \in [1..m -> T] /\ DOMAIN p = 1..m /\ \A k \in 1..m : p[k] = s[a[k]]
  BY <1>3, <1>5
<1>7. p \in Seq(T) /\ Len(p) = m
  BY <1>1, <1>6
<1>8. ASSUME NEW x PROVE (\E k \in DOMAIN p : p[k] = x) <=> \E k \in S : s[k] = x
  <2>1. ASSUME NEW k \in DOMAIN p, p[k] = x PROVE \E j \in S : s[j] = x
    <3>1. a[k] \in S /\ s[a[k]] = x
      BY <1>5, <1>6, <2>1
    <3> QED BY <3>1
  <2>2. ASSUME NEW j \in S, s[j] = x PROVE \E k \in DOMAIN p : p[k] = x
    <3>1. PICK k \in 1..m : a[k] = j
      BY <1>2
    <3> QED BY <1>6, <2>2, <3>1
  <2> QED BY <2>1, <2>2
<1>9. HasThose(p, s, S)
  BY <1>8 DEF HasThose
<1> QED BY <1>7, <1>9 DEF m, p

LEMMA NothingPicked ==
    ASSUME NEW s
    PROVE  Picked(s, {}) = <<>>
<1>1. Cardinality({}) = 0
  BY FS_EmptySet
<1>2. Picked(s, {}) = [k \in 1..Cardinality({}) |-> s[Ascending({})[k]]]
  BY DEF Picked
<1> QED BY <1>1, <1>2

\* A place after all others gives one more element.
LEMMA PickedGrows ==
    ASSUME NEW T, NEW s \in Seq(T), NEW n \in 1..Len(s), NEW S, S \subseteq 1..(n - 1)
    PROVE  Picked(s, S \cup {n}) = Append(Picked(s, S), s[n])
<1> DEFINE m == Cardinality(S)
           a == Ascending(S)
           b == Ascending(S \cup {n})
           p == Picked(s, S)
           q == Picked(s, S \cup {n})
<1>1. S \subseteq 1..Len(s) /\ (\A x \in S : x < n) /\ n \in Nat /\ s[n] \in T /\ Len(s) \in Nat
  OBVIOUS
<1>2. IsFiniteSet(S) /\ S \subseteq Nat
  BY <1>1, PlacesAreFinite
<1>3. /\ m \in Nat /\ Cardinality(S \cup {n}) = m + 1
      /\ \A k \in 1..m : b[k] = a[k]
      /\ b[m + 1] = n
  BY <1>1, <1>2, AscendingGrows
<1>4. p = [k \in 1..m |-> s[a[k]]] /\ q = [k \in 1..Cardinality(S \cup {n}) |-> s[b[k]]]
  BY DEF Picked
<1>5. p \in Seq(T)
  BY <1>1, PickedIsIn
<1> HIDE DEF m, a, b, p, q
<1>6. q = [k \in 1..(m + 1) |-> s[b[k]]]
  BY <1>3, <1>4
<1>7. Len(p) = m
  BY <1>3, <1>4
<1>8. q = Append(p, s[n])
  <2> DEFINE r == Append(p, s[n])
  <2>1. r = [k \in 1..(m + 1) |-> IF k <= m THEN p[k] ELSE s[n]]
    BY <1>1, <1>3, <1>5, <1>7
  <2>2. ASSUME NEW k \in 1..(m + 1) PROVE s[b[k]] = IF k <= m THEN p[k] ELSE s[n]
    <3>1. CASE k <= m
      <4>1. k \in 1..m
        BY <1>3, <3>1
      <4> QED BY <1>3, <1>4, <3>1, <4>1
    <3>2. CASE ~(k <= m)
      <4>1. k = m + 1
        BY <1>3, <3>2
      <4> QED BY <1>3, <3>2, <4>1
    <3> QED BY <3>1, <3>2
  <2> HIDE DEF r
  <2>3. r = q
    BY <1>6, <2>1, <2>2
  <2> QED BY <2>3 DEF r
<1> QED BY <1>8 DEF p, q

-----------------------------------------------------------------------------
(***************************************************************************)
(* Tests in order.                                                         *)
(***************************************************************************)

\* Tests in order end well exactly if each of them does.
LEMMA AllAreOk ==
    ASSUME NEW verdicts, DOMAIN verdicts \subseteq Nat
    PROVE  FirstOf(verdicts) = "ok" <=> \A k \in DOMAIN verdicts : verdicts[k] = "ok"
<1> DEFINE bad == {k \in DOMAIN verdicts : verdicts[k] # "ok"}
<1>1. bad # {} => Min(bad) \in bad
  BY LeastNumber
<1> QED BY <1>1 DEF FirstOf

\* The same for two tests that are written out.
LEMMA TwoAreOk ==
    ASSUME NEW a, NEW b
    PROVE  FirstOf(<<a, b>>) = "ok" <=> a = "ok" /\ b = "ok"
<1>1. FirstOf(<<a, b>>) = "ok" <=> \A k \in 1..2 : <<a, b>>[k] = "ok"
  BY AllAreOk
<1>2. 1..2 = {1, 2}
  OBVIOUS
<1> QED BY <1>1, <1>2

\* For three.
LEMMA ThreeAreOk ==
    ASSUME NEW a, NEW b, NEW c
    PROVE  FirstOf(<<a, b, c>>) = "ok" <=> a = "ok" /\ b = "ok" /\ c = "ok"
<1>1. FirstOf(<<a, b, c>>) = "ok" <=> \A k \in 1..3 : <<a, b, c>>[k] = "ok"
  BY AllAreOk
<1>2. 1..3 = {1, 2, 3}
  OBVIOUS
<1> QED BY <1>1, <1>2

\* For four.
LEMMA FourAreOk ==
    ASSUME NEW a, NEW b, NEW c, NEW d
    PROVE  FirstOf(<<a, b, c, d>>) = "ok" <=> a = "ok" /\ b = "ok" /\ c = "ok" /\ d = "ok"
<1>1. FirstOf(<<a, b, c, d>>) = "ok" <=> \A k \in 1..4 : <<a, b, c, d>>[k] = "ok"
  BY AllAreOk
<1>2. 1..4 = {1, 2, 3, 4}
  OBVIOUS
<1> QED BY <1>1, <1>2

\* For five.
LEMMA FiveAreOk ==
    ASSUME NEW a, NEW b, NEW c, NEW d, NEW e
    PROVE  FirstOf(<<a, b, c, d, e>>) = "ok" <=> a = "ok" /\ b = "ok" /\ c = "ok" /\ d = "ok" /\ e = "ok"
<1>1. FirstOf(<<a, b, c, d, e>>) = "ok" <=> \A k \in 1..5 : <<a, b, c, d, e>>[k] = "ok"
  BY AllAreOk
<1>2. 1..5 = {1, 2, 3, 4, 5}
  OBVIOUS
<1> QED BY <1>1, <1>2

-----------------------------------------------------------------------------
(***************************************************************************)
(* Actions and edits.                                                      *)
(***************************************************************************)

\* What the tests of the versions ask of the entries.
LEMMA VersionsAreOk ==
    ASSUME NEW edit \in Edit
    PROVE  Versions(edit) = "ok" <=>
              \/ edit.documentChanges = Absent
              \/ /\ edit.documentChanges # Malformed
                 /\ \A k \in DOMAIN edit.documentChanges :
                       \/ edit.documentChanges[k].op = "resource"
                       \/ /\ edit.documentChanges[k].doc \in Opened
                          /\ edit.documentChanges[k].version \in {"current", "null"}
<1> DEFINE entries == edit.documentChanges
           verdicts == [k \in DOMAIN entries |-> EntryVersion(entries[k])]
<1>1. CASE edit.documentChanges \in {Absent, Malformed}
  BY <1>1 DEF Versions
<1>2. CASE edit.documentChanges \notin {Absent, Malformed}
  <2>1. entries \in Seq(Entry)
    BY <1>2 DEF Edit
  <2>2. DOMAIN entries \subseteq Nat
    BY <2>1
  <2>3. FirstOf(verdicts) = "ok" <=> \A k \in DOMAIN entries : EntryVersion(entries[k]) = "ok"
    BY <2>2, AllAreOk
  <2>4. ASSUME NEW k \in DOMAIN entries
        PROVE  EntryVersion(entries[k]) = "ok" <=>
                  \/ entries[k].op = "resource"
                  \/ entries[k].doc \in Opened /\ entries[k].version \in {"current", "null"}
    <3> DEFINE a == Check(entries[k].doc \in Opened, "skip")
               b == Check(entries[k].version \in {"current", "null"}, "fail")
    <3>1. a = "ok" <=> entries[k].doc \in Opened
      BY DEF Check
    <3>2. b = "ok" <=> entries[k].version \in {"current", "null"}
      BY DEF Check
    <3>3. EntryVersion(entries[k]) = IF entries[k].op = "resource" THEN "ok" ELSE FirstOf(<<a, b>>)
      BY DEF EntryVersion
    <3> HIDE DEF a, b
    <3>4. FirstOf(<<a, b>>) = "ok" <=> a = "ok" /\ b = "ok"
      BY TwoAreOk
    <3> QED BY <3>1, <3>2, <3>3, <3>4
  <2> QED BY <1>2, <2>3, <2>4 DEF Versions
<1> QED BY <1>1, <1>2

\* What an annotation has to be.
LEMMA AnnotationIsOk ==
    ASSUME NEW entry \in Entry
    PROVE  Annotation(entry) = "ok" <=> entry.annotation \in {"none", "plain"}
  BY DEF Annotation, Entry

\* What the collection asks of the entries of changes.
LEMMA ChangedIsOk ==
    ASSUME NEW entries \in Seq(Entry)
    PROVE  Changed(entries) = "ok" <=>
              \A k \in DOMAIN entries :
                  entries[k].op = "edit" /\ entries[k].annotation \in {"none", "plain"}
<1> DEFINE verdict(k) == FirstOf(<<Check(entries[k].op = "edit", "fail"), Annotation(entries[k])>>)
<1>1. DOMAIN entries \subseteq Nat /\ \A k \in DOMAIN entries : entries[k] \in Entry
  OBVIOUS
<1>2. ASSUME NEW k \in DOMAIN entries
      PROVE  verdict(k) = "ok" <=> entries[k].op = "edit" /\ entries[k].annotation \in {"none", "plain"}
  <2> DEFINE a == Check(entries[k].op = "edit", "fail")
             b == Annotation(entries[k])
  <2>1. a = "ok" <=> entries[k].op = "edit"
    BY DEF Check
  <2>2. b = "ok" <=> entries[k].annotation \in {"none", "plain"}
    BY <1>1, AnnotationIsOk
  <2>3. verdict(k) = FirstOf(<<a, b>>)
    OBVIOUS
  <2> HIDE DEF a, b, verdict
  <2>4. FirstOf(<<a, b>>) = "ok" <=> a = "ok" /\ b = "ok"
    BY TwoAreOk
  <2> QED BY <2>1, <2>2, <2>3, <2>4
<1>3. Changed(entries) = "ok" <=> \A k \in DOMAIN entries : verdict(k) = "ok"
  <2> DEFINE verdicts == [k \in DOMAIN entries |-> verdict(k)]
  <2>1. Changed(entries) = FirstOf(verdicts) /\ DOMAIN verdicts = DOMAIN entries
    BY DEF Changed
  <2>2. \A k \in DOMAIN entries : verdicts[k] = verdict(k)
    OBVIOUS
  <2> HIDE DEF verdicts, verdict
  <2> QED BY <1>1, <2>1, <2>2, AllAreOk
<1> QED BY <1>2, <1>3

\* What it asks of those of documentChanges: each document once.
LEMMA DocumentChangedIsOk ==
    ASSUME NEW entries \in Seq(Entry)
    PROVE  DocumentChanged(entries) = "ok" <=>
              /\ \A k \in DOMAIN entries :
                    entries[k].op = "edit" /\ entries[k].annotation \in {"none", "plain"}
              /\ OnePerDocument(entries)
<1> DEFINE first(k) == \A j \in 1..(k - 1) : entries[j].doc # entries[k].doc
           verdict(k) == FirstOf(<<Check(entries[k].op # "resource", "skip"),
                                   Check(entries[k].op = "edit", "fail"),
                                   Check(first(k), "skip"),
                                   Annotation(entries[k])>>)
<1>1. DOMAIN entries \subseteq Nat /\ \A k \in DOMAIN entries : entries[k] \in Entry
  OBVIOUS
<1>2. ASSUME NEW k \in DOMAIN entries
      PROVE  verdict(k) = "ok" <=>
                /\ entries[k].op = "edit" /\ entries[k].annotation \in {"none", "plain"}
                /\ first(k)
  <2> DEFINE a == Check(entries[k].op # "resource", "skip")
             b == Check(entries[k].op = "edit", "fail")
             c == Check(first(k), "skip")
             d == Annotation(entries[k])
  <2>1. /\ a = "ok" <=> entries[k].op # "resource"
        /\ b = "ok" <=> entries[k].op = "edit"
    BY DEF Check
  <2>2. c = "ok" <=> first(k)
    BY DEF Check
  <2>3. d = "ok" <=> entries[k].annotation \in {"none", "plain"}
    BY <1>1, AnnotationIsOk
  <2>4. verdict(k) = FirstOf(<<a, b, c, d>>)
    OBVIOUS
  <2> HIDE DEF a, b, c, d, verdict, first
  <2>5. FirstOf(<<a, b, c, d>>) = "ok" <=> a = "ok" /\ b = "ok" /\ c = "ok" /\ d = "ok"
    BY FourAreOk
  <2> QED BY <2>1, <2>2, <2>3, <2>4, <2>5
<1>3. DocumentChanged(entries) = "ok" <=> \A k \in DOMAIN entries : verdict(k) = "ok"
  <2> DEFINE verdicts == [k \in DOMAIN entries |-> verdict(k)]
  <2>1. DocumentChanged(entries) = FirstOf(verdicts) /\ DOMAIN verdicts = DOMAIN entries
    BY DEF DocumentChanged
  <2>2. \A k \in DOMAIN entries : verdicts[k] = verdict(k)
    OBVIOUS
  <2> HIDE DEF verdicts, verdict
  <2> QED BY <1>1, <2>1, <2>2, AllAreOk
<1>4. (\A k \in DOMAIN entries : first(k)) <=> OnePerDocument(entries)
  <2>1. ASSUME \A k \in DOMAIN entries : first(k),
               NEW j \in DOMAIN entries, NEW k \in DOMAIN entries, entries[j].doc = entries[k].doc
        PROVE  j = k
    <3>1. j \in 1..(k - 1) \/ k \in 1..(j - 1) \/ j = k
      BY <1>1
    <3> QED BY <2>1, <3>1
  <2>2. ASSUME OnePerDocument(entries), NEW k \in DOMAIN entries, NEW j \in 1..(k - 1)
        PROVE  entries[j].doc # entries[k].doc
    <3>1. j \in DOMAIN entries /\ j # k
      BY <1>1
    <3> QED BY <2>2, <3>1 DEF OnePerDocument
  <2> QED BY <2>1, <2>2 DEF OnePerDocument
<1> HIDE DEF verdict, first
<1> QED BY <1>2, <1>3, <1>4

\* What the documents ask of an entry.
LEMMA EntryFitIsOk ==
    ASSUME NEW entry \in Entry
    PROVE  EntryFits(entry) = "ok" <=>
              entry.doc \in Opened \ {Missing} /\ entry.fit \in {"changes", "same", "empty"}
<1> DEFINE a == Check(entry.doc # Missing, "fail")
           b == Check(entry.doc \in Opened, "skip")
           c == Check(entry.fit # "stale", "skip")
           d == Check(entry.fit # "malformed", "fail")
           e == Check(entry.fit # "overlap", "skip")
<1>1. /\ a = "ok" <=> entry.doc # Missing
      /\ b = "ok" <=> entry.doc \in Opened
  BY DEF Check
<1>2. /\ c = "ok" <=> entry.fit # "stale"
      /\ d = "ok" <=> entry.fit # "malformed"
      /\ e = "ok" <=> entry.fit # "overlap"
  BY DEF Check
<1>3. EntryFits(entry) = FirstOf(<<a, b, c, d, e>>)
  BY DEF EntryFits
<1>4. entry.fit \in {"changes", "same", "empty", "stale", "overlap", "malformed"}
  BY DEF Entry
<1> HIDE DEF a, b, c, d, e
<1>5. FirstOf(<<a, b, c, d, e>>) = "ok" <=>
          a = "ok" /\ b = "ok" /\ c = "ok" /\ d = "ok" /\ e = "ok"
  BY FiveAreOk
<1> QED BY <1>1, <1>2, <1>3, <1>4, <1>5

\* The first document that an entry does not fit is found if there is one.
LEMMA DocumentsFitIsOk ==
    ASSUME NEW entries \in Seq(Entry)
    PROVE  DocumentsFit(entries) = "ok" <=> \A k \in DOMAIN entries : EntryFits(entries[k]) = "ok"
<1> DEFINE unfit == {k \in DOMAIN entries : EntryFits(entries[k]) # "ok"}
           least(k) == \A j \in unfit : entries[k].doc <= entries[j].doc
<1>1. ASSUME unfit # {} PROVE \E k \in unfit : least(k)
  <2> DEFINE docs == {entries[k].doc : k \in unfit}
  <2>1. docs \subseteq Nat /\ docs # {}
    <3>1. \A k \in unfit : entries[k] \in Entry
      OBVIOUS
    <3>2. \A entry \in Entry : entry.doc \in Nat
      BY DEF Entry
    <3> HIDE DEF unfit
    <3> QED BY <1>1, <3>1, <3>2
  <2>2. Min(docs) \in docs /\ \A n \in docs : Min(docs) <= n
    <3> HIDE DEF docs
    <3> QED BY <2>1, LeastNumber
  <2> QED BY <2>2
<1>2. unfit # {} => (CHOOSE k \in unfit : least(k)) \in unfit
  <2> HIDE DEF unfit, least
  <2> QED BY <1>1
<1> QED BY <1>2 DEF DocumentsFit

\* An edit may be made unseen exactly if its entries pass one by one.
LEMMA EditsAreScreened ==
    ASSUME NEW edit \in Edit
    PROVE  Applicable(edit) = "ok" <=> HarmlessEdit(edit)
<1> DEFINE entries == Entries(edit)
           changed == \E k \in DOMAIN entries : entries[k].fit = "changes"
           both == edit.changes # Absent /\ edit.documentChanges # Absent
<1>1. CASE edit = Null
  BY <1>1 DEF Applicable, HarmlessEdit
<1>2. CASE edit # Null /\ (both \/ entries \in {Absent, Malformed})
  <2>1. Collected(edit) # "ok"
    BY <1>2 DEF Collected, Entries
  <2> DEFINE a == Versions(edit)
             b == Collected(edit)
  <2>2. FirstOf(<<a, b>>) = "ok" <=> a = "ok" /\ b = "ok"
    <3> HIDE DEF a, b
    <3> QED BY TwoAreOk
  <2> QED BY <1>2, <2>1, <2>2 DEF Applicable, HarmlessEdit
<1>3. CASE edit # Null /\ ~both /\ entries \notin {Absent, Malformed}
  <2>1. entries \in Seq(Entry)
    BY <1>3 DEF Entries, Edit
  <2>2. Applicable(edit) = "ok" <=>
            /\ Versions(edit) = "ok" /\ Collected(edit) = "ok"
            /\ DocumentsFit(entries) = "ok" /\ changed
    <3> DEFINE a == Versions(edit)
               b == Collected(edit)
               c == DocumentsFit(entries)
               d == Check(changed, "skip")
    <3>1. Applicable(edit) = IF FirstOf(<<a, b>>) # "ok" THEN FirstOf(<<a, b>>) ELSE FirstOf(<<c, d>>)
      BY <1>3 DEF Applicable
    <3>2. d = "ok" <=> changed
      BY DEF Check
    <3> HIDE DEF a, b, c, d, changed
    <3>3. /\ FirstOf(<<a, b>>) = "ok" <=> a = "ok" /\ b = "ok"
          /\ FirstOf(<<c, d>>) = "ok" <=> c = "ok" /\ d = "ok"
      BY TwoAreOk
    <3>4. Applicable(edit) = "ok" <=> a = "ok" /\ b = "ok" /\ c = "ok" /\ changed
      BY <3>1, <3>2, <3>3
    <3> QED BY <3>4 DEF a, b, c
  <2>3. Collected(edit) = "ok" <=>
            /\ IF edit.changes # Absent THEN Changed(entries) = "ok" ELSE DocumentChanged(entries) = "ok"
            /\ entries # <<>>
            /\ \E k \in DOMAIN entries : entries[k].fit # "empty"
    <3> DEFINE filled == \E k \in DOMAIN entries : entries[k].fit # "empty"
               a == IF edit.changes # Absent THEN Changed(entries) ELSE DocumentChanged(entries)
               b == Check(entries # <<>>, "fail")
               c == Check(filled, "skip")
    <3>1. ~(edit.changes = Absent /\ edit.documentChanges = Absent)
      BY <1>3 DEF Entries
    <3>2. Collected(edit) = FirstOf(<<a, b, c>>)
      BY <1>3, <3>1 DEF Collected
    <3>3. (b = "ok" <=> entries # <<>>) /\ (c = "ok" <=> filled)
      BY DEF Check
    <3>4. a = "ok" <=> IF edit.changes # Absent THEN Changed(entries) = "ok"
                       ELSE DocumentChanged(entries) = "ok"
      OBVIOUS
    <3> HIDE DEF a, b, c, filled, entries
    <3>5. FirstOf(<<a, b, c>>) = "ok" <=> a = "ok" /\ b = "ok" /\ c = "ok"
      BY ThreeAreOk
    <3> QED BY <3>2, <3>3, <3>4, <3>5 DEF filled
  <2>4. changed => entries # <<>> /\ \E k \in DOMAIN entries : entries[k].fit # "empty"
    BY <2>1
  <2>5. \A k \in DOMAIN entries :
           EntryFits(entries[k]) = "ok" <=>
              entries[k].doc \in Opened \ {Missing} /\ entries[k].fit \in {"changes", "same", "empty"}
    BY <2>1, EntryFitIsOk
  <2>6. DocumentsFit(entries) = "ok" <=> \A k \in DOMAIN entries : EntryFits(entries[k]) = "ok"
    BY <2>1, DocumentsFitIsOk
  <2>7. HarmlessEdit(edit) <=>
            /\ \A k \in DOMAIN entries :
                  /\ entries[k].op = "edit"
                  /\ entries[k].doc \in Opened \ {Missing}
                  /\ edit.changes = Absent => entries[k].version \in {"current", "null"}
                  /\ entries[k].annotation \in {"none", "plain"}
                  /\ entries[k].fit \in {"changes", "same", "empty"}
            /\ OnePerDocument(entries)
            /\ changed
    BY <1>3 DEF HarmlessEdit, OnePerDocument
  <2>8. CASE edit.changes # Absent
    <3>1. edit.documentChanges = Absent /\ entries = edit.changes
      BY <1>3, <2>8 DEF Entries
    <3>2. OnePerDocument(entries)
      BY <1>3, <3>1 DEF Edit
    <3>3. Changed(entries) = "ok" <=>
             \A k \in DOMAIN entries :
                 entries[k].op = "edit" /\ entries[k].annotation \in {"none", "plain"}
      BY <2>1, ChangedIsOk
    <3>4. Versions(edit) = "ok"
      BY <3>1, VersionsAreOk
    <3> HIDE DEF entries, changed
    <3> QED BY <2>2, <2>3, <2>4, <2>5, <2>6, <2>7, <2>8, <3>2, <3>3, <3>4
  <2>9. CASE edit.changes = Absent
    <3>1. entries = edit.documentChanges
      BY <2>9 DEF Entries
    <3>2. DocumentChanged(entries) = "ok" <=>
             /\ \A k \in DOMAIN entries :
                   entries[k].op = "edit" /\ entries[k].annotation \in {"none", "plain"}
             /\ OnePerDocument(entries)
      BY <2>1, DocumentChangedIsOk
    <3>3. Versions(edit) = "ok" <=>
             \A k \in DOMAIN entries :
                \/ entries[k].op = "resource"
                \/ entries[k].doc \in Opened /\ entries[k].version \in {"current", "null"}
      BY <1>3, <3>1, VersionsAreOk
    <3> HIDE DEF entries, changed
    <3> QED BY <2>2, <2>3, <2>4, <2>5, <2>6, <2>7, <2>9, <3>2, <3>3
  <2> QED BY <2>8, <2>9
<1> QED BY <1>1, <1>2, <1>3

\* A kind is allowed if it starts with an allowed one.
LEMMA KindsAreScreened ==
    ASSUME NEW kind \in Seq(STRING)
    PROVE  (\E allowed \in ActionKinds : IsPrefix(allowed, kind)) <=>
           \E n \in 0..Len(kind) : SubSeq(kind, 1, n) \in ActionKinds
<1>1. ASSUME NEW allowed \in ActionKinds, IsPrefix(allowed, kind)
      PROVE  \E n \in 0..Len(kind) : SubSeq(kind, 1, n) \in ActionKinds
  <2>0. allowed \in Seq(STRING)
    BY ActionAssumption
  <2>1. Len(allowed) \in 0..Len(kind) /\ SubSeq(kind, 1, Len(allowed)) = SubSeq(allowed, 1, Len(allowed))
    BY <1>1, <2>0 DEF IsPrefix
  <2>2. SubSeq(allowed, 1, Len(allowed)) = allowed
    BY <2>0
  <2> QED BY <2>1, <2>2
<1>2. ASSUME NEW n \in 0..Len(kind), SubSeq(kind, 1, n) \in ActionKinds
      PROVE  IsPrefix(SubSeq(kind, 1, n), kind)
  <2>1. Len(SubSeq(kind, 1, n)) = n
    OBVIOUS
  <2>2. SubSeq(SubSeq(kind, 1, n), 1, n) = SubSeq(kind, 1, n)
    BY <2>1
  <2> QED BY <2>1, <2>2 DEF IsPrefix
<1> QED BY <1>1, <1>2

\* What the policy asks of an action.
LEMMA PolicyIsOk ==
    ASSUME NEW action \in Action
    PROVE  Policy(action) = "ok" <=>
              ~action.disabled /\ KindAllowed(action) /\ action.diagnostics \in {"absent", "this"}
<1> DEFINE a == Check(~action.disabled /\ KindAllowed(action), "skip")
           b == Matches(action)
<1>1. a = "ok" <=> ~action.disabled /\ KindAllowed(action)
  BY DEF Check
<1>2. b = "ok" <=> action.diagnostics \in {"absent", "this"}
  BY DEF Matches, Action
<1>3. Policy(action) = FirstOf(<<a, b>>)
  BY DEF Policy
<1> HIDE DEF a, b
<1>4. FirstOf(<<a, b>>) = "ok" <=> a = "ok" /\ b = "ok"
  BY TwoAreOk
<1> QED BY <1>1, <1>2, <1>3, <1>4

\* What is asked of the answer to a request to resolve an action.
LEMMA ResolvedIsOk ==
    ASSUME NEW offered, NEW answer
    PROVE  Resolved(offered, answer) = "ok" <=>
              answer.preferred # Malformed /\ Preserved(offered, answer) /\ Policy(answer) = "ok"
<1> DEFINE a == Check(answer.preferred # Malformed, "fail")
           b == Check(Preserved(offered, answer), "skip")
           c == Policy(answer)
<1>1. (a = "ok" <=> answer.preferred # Malformed) /\ (b = "ok" <=> Preserved(offered, answer))
  BY DEF Check
<1>2. Resolved(offered, answer) = FirstOf(<<a, b, c>>)
  BY DEF Resolved
<1>3. (c = "ok") = (Policy(answer) = "ok")
  OBVIOUS
<1> HIDE DEF a, b, c
<1>4. FirstOf(<<a, b, c>>) = "ok" <=> a = "ok" /\ b = "ok" /\ c = "ok"
  BY ThreeAreOk
<1> QED BY <1>1, <1>2, <1>3, <1>4

\* What the whole screening asks.
LEMMA VerdictIsOk ==
    ASSUME NEW offered, NEW answer, NEW resolves
    PROVE  Verdict(offered, answer, resolves) = "ok" <=>
              LET final == Final(offered, answer, resolves)
              IN  /\ WellFormed(offered)
                  /\ Policy(offered) = "ok"
                  /\ NeedsResolve(offered, resolves) => Resolved(offered, answer) = "ok"
                  /\ PayloadAllowed(final)
                  /\ final.edit # Absent => Applicable(final.edit) = "ok"
<1> DEFINE final == Final(offered, answer, resolves)
           a == Check(offered.title # Absent /\ offered.preferred # Malformed, "fail")
           b == Policy(offered)
           c == IF NeedsResolve(offered, resolves) THEN Resolved(offered, answer) ELSE "ok"
           d == Check(PayloadAllowed(final), "skip")
           e == IF final.edit = Absent THEN "ok" ELSE Applicable(final.edit)
<1>1. a = "ok" <=> WellFormed(offered)
  BY DEF Check, WellFormed
<1>2. c = "ok" <=> (NeedsResolve(offered, resolves) => Resolved(offered, answer) = "ok")
  OBVIOUS
<1>3. d = "ok" <=> PayloadAllowed(final)
  BY DEF Check
<1>4. e = "ok" <=> (final.edit # Absent => Applicable(final.edit) = "ok")
  OBVIOUS
<1>5. Verdict(offered, answer, resolves) = FirstOf(<<a, b, c, d, e>>)
  BY DEF Verdict
<1>6. (b = "ok") = (Policy(offered) = "ok")
  OBVIOUS
<1> HIDE DEF a, b, c, d, e
<1>7. FirstOf(<<a, b, c, d, e>>) = "ok" <=>
          a = "ok" /\ b = "ok" /\ c = "ok" /\ d = "ok" /\ e = "ok"
  BY FiveAreOk
<1> HIDE DEF final
<1>8. Verdict(offered, answer, resolves) = "ok" <=>
          /\ WellFormed(offered)
          /\ Policy(offered) = "ok"
          /\ NeedsResolve(offered, resolves) => Resolved(offered, answer) = "ok"
          /\ PayloadAllowed(final)
          /\ final.edit # Absent => Applicable(final.edit) = "ok"
  BY <1>1, <1>2, <1>3, <1>4, <1>5, <1>6, <1>7
<1> QED BY <1>8 DEF final

\* An action passes the policy and the test of its payload exactly if it is harmless.
LEMMA HarmlessActions ==
    ASSUME NEW action \in Action
    PROVE  Harmless(action) <=>
              /\ Policy(action) = "ok"
              /\ PayloadAllowed(action)
              /\ action.edit # Absent => Applicable(action.edit) = "ok"
<1>1. action.kind # Absent =>
         (KindAllowed(action) <=> \E n \in 0..Len(action.kind) : SubSeq(action.kind, 1, n) \in ActionKinds)
  <2>1. action.kind # Absent => action.kind \in Seq(STRING)
    BY DEF Action
  <2> QED BY <2>1, KindsAreScreened DEF KindAllowed
<1>2. action.edit # Absent => (Applicable(action.edit) = "ok" <=> HarmlessEdit(action.edit))
  <2>1. action.edit # Absent => action.edit = Null \/ action.edit \in Edit
    BY DEF Action
  <2>2. Applicable(Null) # "ok" /\ ~HarmlessEdit(Null)
    BY DEF Applicable, HarmlessEdit
  <2> QED BY <2>1, <2>2, EditsAreScreened
<1>3. CommandAllowed(action) => action.command # Absent
  BY DEF CommandAllowed, HasCommand
<1>4. HarmlessEdit(action.edit) => action.edit # Null
  BY DEF HarmlessEdit
<1>5. PayloadAllowed(action) <=>
         IF action.edit \notin {Absent, Null} THEN action.command = Absent ELSE CommandAllowed(action)
  BY <1>3 DEF PayloadAllowed
<1>6. action.kind = Absent =>
         (KindAllowed(action) <=>
            action.command # Absent /\ action.command.shape = "string" /\ CommandAllowed(action))
  BY DEF KindAllowed
<1>7. Policy(action) = "ok" <=>
         ~action.disabled /\ KindAllowed(action) /\ action.diagnostics \in {"absent", "this"}
  BY PolicyIsOk
<1> QED BY <1>1, <1>2, <1>3, <1>4, <1>5, <1>6, <1>7 DEF Harmless

\* Whatever a server offers and whatever it makes of it when it is asked to resolve
\* it, the action is applied unseen exactly if its last form is harmless and is what
\* was offered (code_actions, workspace_edit_applicable, resolved_metadata_preserved).
THEOREM VerdictsAreSafe ==
    ASSUME NEW offered \in Action,
           NEW answer \in Action, NEW resolves \in BOOLEAN
    PROVE  VerdictIsSafe(offered, answer, resolves)
<1> DEFINE final == Final(offered, answer, resolves)
           asOffered == /\ \A field \in {"title", "kind", "preferred", "diagnostics"} :
                              final[field] = offered[field]
                        /\ offered.command # Absent \/ offered.kind = Absent =>
                              final.command = offered.command
<1>1. final \in Action
  BY DEF Final
<1>2. Harmless(final) <=>
         /\ Policy(final) = "ok"
         /\ PayloadAllowed(final)
         /\ final.edit # Absent => Applicable(final.edit) = "ok"
  <2> HIDE DEF final
  <2> QED BY <1>1, HarmlessActions
<1>3. CASE ~NeedsResolve(offered, resolves)
  <2>1. final = offered
    BY <1>3 DEF Final
  <2>2. Policy(offered) = "ok" => ~offered.disabled
    BY PolicyIsOk
  <2> QED BY <1>2, <1>3, <2>1, <2>2, VerdictIsOk DEF VerdictIsSafe
<1>4. CASE NeedsResolve(offered, resolves)
  <2>1. final = answer
    BY <1>4 DEF Final
  <2>2. Resolved(offered, answer) = "ok" <=>
           answer.preferred # Malformed /\ Preserved(offered, answer) /\ Policy(answer) = "ok"
    BY ResolvedIsOk
  <2>3. Verdict(offered, answer, resolves) = "ok" <=>
           /\ WellFormed(offered)
           /\ Policy(offered) = "ok"
           /\ answer.preferred # Malformed /\ Preserved(offered, answer)
           /\ Harmless(answer)
    BY <1>2, <1>4, <2>1, <2>2, VerdictIsOk
  <2>4. ASSUME Verdict(offered, answer, resolves) = "ok"
        PROVE  ~offered.disabled /\ asOffered
    <3>1. Preserved(offered, answer) /\ Policy(offered) = "ok" /\ Policy(answer) = "ok"
      BY <1>2, <2>1, <2>3, <2>4
    <3>2. KindAllowed(offered) /\ ~offered.disabled
      BY <3>1, PolicyIsOk
    <3>3. offered.kind = Absent => offered.command # Absent
      BY <3>2 DEF KindAllowed
    <3> QED BY <2>1, <3>1, <3>2, <3>3 DEF Preserved
  <2>5. ASSUME WellFormed(offered), ~offered.disabled, Harmless(answer), asOffered
        PROVE  Verdict(offered, answer, resolves) = "ok"
    <3>1. Preserved(offered, answer) /\ answer.preferred # Malformed
      BY <2>1, <2>5 DEF Preserved, WellFormed
    <3>2. KindAllowed(answer) /\ answer.diagnostics \in {"absent", "this"}
      BY <1>2, <2>1, <2>5, PolicyIsOk
    <3>3. KindAllowed(offered)
      <4>1. offered.kind = answer.kind
        BY <2>1, <2>5
      <4>2. offered.kind = Absent => offered.command = answer.command
        BY <2>1, <2>5
      <4> QED BY <3>2, <4>1, <4>2 DEF KindAllowed, CommandAllowed, HasCommand
    <3>4. offered.diagnostics = answer.diagnostics
      BY <2>1, <2>5
    <3>5. Policy(offered) = "ok"
      BY <2>5, <3>2, <3>3, <3>4, PolicyIsOk
    <3> QED BY <2>3, <2>5, <3>1, <3>5
  <2> QED BY <2>1, <2>3, <2>4, <2>5 DEF VerdictIsSafe
<1> QED BY <1>3, <1>4

-----------------------------------------------------------------------------
(***************************************************************************)
(* The choice among eligible actions.                                      *)
(***************************************************************************)

\* The actions are sorted by their keys, none lost and none made up.
LEMMA SortedByKey ==
    ASSUME NEW actions \in ActionList
    PROVE  LET s == Sorted(actions)
           IN  /\ DOMAIN s = 1..Len(actions)
               /\ \A k \in 1..Len(actions) : s[k] \in [key: Nat, preferred: BOOLEAN]
               /\ \A k \in 1..Len(actions) : s[k] \in ToSet(actions)
               /\ \A a \in ToSet(actions) : \E k \in 1..Len(actions) : s[k] = a
               /\ \A j, k \in 1..Len(actions) : j < k => s[j].key <= s[k].key
<1> DEFINE n == Len(actions)
           before == {p \in (DOMAIN actions) \X (DOMAIN actions) :
                         \/ actions[p[1]].key < actions[p[2]].key
                         \/ actions[p[1]].key = actions[p[2]].key /\ p[1] < p[2]}
           order == Sort(DOMAIN actions, before)
           s == Sorted(actions)
<1>1. n \in Nat /\ DOMAIN actions = 1..n /\ \A k \in 1..n : actions[k] \in [key: Nat, preferred: BOOLEAN]
  <2> DEFINE T == [key: Nat, preferred: BOOLEAN]
  <2>1. actions \in Seq(T)
    BY DEF ActionList
  <2> HIDE DEF T
  <2>2. n \in Nat /\ DOMAIN actions = 1..n /\ \A k \in 1..n : actions[k] \in T
    BY <2>1
  <2> QED BY <2>2 DEF T
<1>2. IsFiniteSet(1..n) /\ Cardinality(1..n) = n
  BY <1>1, FS_Interval
<1>3. \A j, k \in 1..n : <<j, k>> \in before <=>
         \/ actions[j].key < actions[k].key
         \/ actions[j].key = actions[k].key /\ j < k
  BY <1>1
<1>4. \A k \in 1..n : actions[k].key \in Nat /\ k \in Nat
  BY <1>1
<1>5. Orders(before, 1..n)
  <2> HIDE DEF before, n
  <2>1. \A i, j, k \in 1..n : <<i, j>> \in before /\ <<j, k>> \in before => <<i, k>> \in before
    BY <1>3, <1>4
  <2> QED BY <1>3, <1>4, <2>1 DEF Orders
<1>6. IsInOrder(order, 1..n, before)
  <2>1. order = Sort(1..n, before)
    BY <1>1
  <2> HIDE DEF before, n, order
  <2> QED BY <1>2, <1>5, <2>1, SortIsInOrder
<1>7. s = [k \in 1..n |-> actions[order[k]]]
  BY <1>1 DEF Sorted
<1>8. ToSet(actions) = {actions[k] : k \in 1..n}
  BY <1>1 DEF ToSet
<1> HIDE DEF before, n, order, s
<1>9. \A k \in 1..n : order[k] \in 1..n
  BY <1>2, <1>6 DEF IsInOrder
<1>10. \A j, k \in 1..n : j < k => s[j].key <= s[k].key
  <2> SUFFICES ASSUME NEW j \in 1..n, NEW k \in 1..n, j < k PROVE s[j].key <= s[k].key
    OBVIOUS
  <2>1. <<order[j], order[k]>> \in before
    BY <1>2, <1>6 DEF IsInOrder
  <2>2. actions[order[j]].key <= actions[order[k]].key
    BY <1>3, <1>4, <1>9, <2>1
  <2> QED BY <1>7, <2>2
<1>11. \A a \in ToSet(actions) : \E k \in 1..n : s[k] = a
  <2> SUFFICES ASSUME NEW i \in 1..n PROVE \E k \in 1..n : s[k] = actions[i]
    BY <1>8
  <2> QED BY <1>2, <1>6, <1>7 DEF IsInOrder
<1> QED BY <1>1, <1>7, <1>8, <1>9, <1>10, <1>11 DEF n, s

\* Where a key stands for one action, every action offered is eligible, once.
LEMMA EligibleOnce ==
    ASSUME NEW actions \in ActionList,
           \A a, b \in ToSet(actions) : a.key = b.key => a = b
    PROVE  LET e == Eligible(actions)
           IN  /\ \E m \in Nat : DOMAIN e = 1..m
               /\ \A k \in DOMAIN e : e[k] \in ToSet(actions)
               /\ \A a \in ToSet(actions) : \E k \in DOMAIN e : e[k] = a
               /\ \A j, k \in DOMAIN e : e[j] = e[k] => j = k
<1> DEFINE n == Len(actions)
           s == Sorted(actions)
           places == {k \in DOMAIN s : k = 1 \/ s[k] # s[k - 1]}
           place == Ascending(places)
           m == Cardinality(places)
           e == Eligible(actions)
<1>1. /\ n \in Nat /\ DOMAIN s = 1..n
      /\ \A k \in 1..n : s[k] \in [key: Nat, preferred: BOOLEAN] /\ s[k] \in ToSet(actions)
      /\ \A a \in ToSet(actions) : \E k \in 1..n : s[k] = a
      /\ \A j, k \in 1..n : j < k => s[j].key <= s[k].key
  <2>1. n \in Nat
    BY DEF ActionList
  <2> QED BY <2>1, SortedByKey
<1>2. e = [k \in 1..m |-> s[place[k]]]
  BY DEF Eligible, Picked
<1>3. places = {k \in 1..n : k = 1 \/ s[k] # s[k - 1]}
  BY <1>1
<1>4. IsFiniteSet(places) /\ places \subseteq Nat
  <2>1. places \subseteq 1..n
    BY <1>3
  <2> HIDE DEF places, n
  <2> QED BY <1>1, <2>1, PlacesAreFinite
<1>5. /\ m \in Nat
      /\ place \in [1..m -> places]
      /\ \A x \in places : \E k \in 1..m : place[k] = x
      /\ \A j, k \in 1..m : j < k <=> place[j] < place[k]
  <2> HIDE DEF places
  <2> QED BY <1>4, AscendingIsInOrder
<1> HIDE DEF n, s, places, place, m, e
<1>6. DOMAIN e = 1..m /\ \A k \in 1..m : place[k] \in places /\ place[k] \in 1..n /\ e[k] = s[place[k]]
  BY <1>2, <1>3, <1>5
<1>7. \A a \in ToSet(actions) : \E k \in DOMAIN e : e[k] = a
  <2> SUFFICES ASSUME NEW a \in ToSet(actions) PROVE \E k \in DOMAIN e : e[k] = a
    OBVIOUS
  <2> DEFINE at == {k \in 1..n : s[k] = a}
  <2>1. Min(at) \in at /\ \A k \in at : Min(at) <= k
    <3>1. at # {} /\ at \subseteq Nat
      BY <1>1
    <3> HIDE DEF at
    <3> QED BY <3>1, LeastNumber
  <2> DEFINE f == Min(at)
  <2>2. f \in 1..n /\ s[f] = a /\ \A k \in 1..n : s[k] = a => f <= k
    BY <2>1
  <2> HIDE DEF f, at
  <2>3. f \in places
    <3>1. CASE f = 1
      BY <1>3, <2>2, <3>1
    <3>2. CASE f # 1
      <4>1. f - 1 \in 1..n /\ ~(f <= f - 1)
        BY <1>1, <2>2, <3>2
      <4> QED BY <1>3, <2>2, <4>1
    <3> QED BY <3>1, <3>2
  <2>4. PICK k \in 1..m : place[k] = f
    BY <1>5, <2>3
  <2> QED BY <1>6, <2>2, <2>4
<1>8. ASSUME NEW j \in 1..m, NEW k \in 1..m, j < k PROVE e[j] # e[k]
  <2> DEFINE p == place[j]
             q == place[k]
  <2>1. p \in 1..n /\ q \in 1..n /\ p < q /\ q \in places
    BY <1>5, <1>6, <1>8
  <2>2. q - 1 \in 1..n /\ q # 1 /\ s[q] # s[q - 1] /\ (p = q - 1 \/ p < q - 1) /\ q - 1 < q
    <3> HIDE DEF p, q
    <3> QED BY <1>1, <1>3, <2>1
  <2>3. s[p].key <= s[q - 1].key /\ s[q - 1].key <= s[q].key /\ s[p].key \in Nat /\ s[q - 1].key \in Nat
        /\ s[q].key \in Nat
    <3> HIDE DEF p, q
    <3>1. s[p].key \in Nat /\ s[q - 1].key \in Nat /\ s[q].key \in Nat
      BY <1>1, <2>1, <2>2
    <3> QED BY <1>1, <2>1, <2>2, <3>1
  <2>4. s[p] # s[q]
    <3> SUFFICES ASSUME s[p] = s[q] PROVE FALSE
      OBVIOUS
    <3> HIDE DEF p, q
    <3>1. s[q - 1].key = s[q].key
      BY <2>3
    <3>2. s[q - 1] \in ToSet(actions) /\ s[q] \in ToSet(actions)
      BY <1>1, <2>1, <2>2
    <3> QED BY <2>2, <3>1, <3>2
  <2> QED BY <1>6, <2>4
<1>9. \A j, k \in 1..m : e[j] = e[k] => j = k
  <2> SUFFICES ASSUME NEW j \in 1..m, NEW k \in 1..m, e[j] = e[k] PROVE j = k
    OBVIOUS
  <2>1. j \in Int /\ k \in Int
    BY <1>5
  <2> QED BY <1>8, <2>1
<1>10. \A k \in DOMAIN e : e[k] \in ToSet(actions)
  BY <1>1, <1>6
<1>11. \E i \in Nat : DOMAIN e = 1..i
  BY <1>5, <1>6
<1>12. \A j, k \in DOMAIN e : e[j] = e[k] => j = k
  BY <1>6, <1>9
<1> QED BY <1>7, <1>10, <1>11, <1>12 DEF e

\* Whatever a server offers, in whatever order and however often, the choice among the
\* eligible actions is clear (code_actions, next_safe_action).
THEOREM ChoicesAreClear ==
    ASSUME NEW actions \in ActionList, NEW applied
    PROVE  ChoiceIsClear(actions, applied)
<1> DEFINE offered == ToSet(actions)
           left == {a \in offered : a.key \notin applied}
           liked == {a \in left : a.preferred}
           best == IF liked # {} THEN liked ELSE left
           e == Eligible(actions)
           candidates == {k \in DOMAIN e : e[k].key \notin applied}
           preferred == {k \in candidates : e[k].preferred}
           only(places) == e[CHOOSE k \in places : TRUE]
<1> SUFFICES ASSUME \A a, b \in offered : a.key = b.key => a = b
             PROVE  CASE left = {} /\ offered # {} -> Choose(actions, applied) = "repeated"
                      [] Cardinality(best) = 1 -> best = {Choose(actions, applied)}
                      [] OTHER -> Choose(actions, applied) = "none"
  BY DEF ChoiceIsClear
<1>1. /\ \A k \in DOMAIN e : e[k] \in offered
      /\ \A a \in offered : \E k \in DOMAIN e : e[k] = a
      /\ \A j, k \in DOMAIN e : e[j] = e[k] => j = k
  BY EligibleOnce
<1>2. PICK m \in Nat : DOMAIN e = 1..m
  BY EligibleOnce
<1>3. actions # <<>> <=> offered # {}
  <2>1. offered = {actions[k] : k \in 1..Len(actions)} /\ actions \in Seq([key: Nat, preferred: BOOLEAN])
    BY DEF ToSet, ActionList
  <2>2. actions = <<>> <=> Len(actions) = 0
    BY <2>1
  <2>3. Len(actions) # 0 => 1 \in 1..Len(actions)
    BY <2>1
  <2> QED BY <2>1, <2>2, <2>3
<1>4. Choose(actions, applied) =
         IF candidates = {} /\ actions # <<>> THEN "repeated"
         ELSE IF Cardinality(preferred) = 1 THEN only(preferred)
         ELSE IF preferred = {} /\ Cardinality(candidates) = 1 THEN only(candidates)
         ELSE "none"
  BY DEF Choose
<1> HIDE DEF e, offered
<1>5. /\ \A k \in candidates : e[k] \in left
      /\ \A k \in preferred : e[k] \in liked
      /\ \A a \in left : \E k \in candidates : e[k] = a
      /\ \A a \in liked : \E k \in preferred : e[k] = a
  BY <1>1
<1>6. \A j, k \in candidates : e[j] = e[k] => j = k
  BY <1>1
<1>7. IsFiniteSet(candidates) /\ IsFiniteSet(preferred) /\ preferred \subseteq candidates
  <2>1. candidates \subseteq 1..m /\ preferred \subseteq 1..m
    BY <1>2
  <2> QED BY <2>1, PlacesAreFinite
<1>8. IsFiniteSet(left) /\ IsFiniteSet(liked)
  <2>1. IsFiniteSet({e[k] : k \in candidates}) /\ IsFiniteSet({e[k] : k \in preferred})
    <3> HIDE DEF candidates, preferred
    <3> QED BY <1>7, ImageIsFinite
  <2>2. left = {e[k] : k \in candidates} /\ liked = {e[k] : k \in preferred}
    <3> HIDE DEF candidates, preferred, left, liked
    <3> QED BY <1>5
  <2> QED BY <2>1, <2>2
<1>9. liked \subseteq left
  OBVIOUS
<1> HIDE DEF left, liked, candidates, preferred
<1>10. \A S : IsFiniteSet(S) => (Cardinality(S) = 1 <=> HasOne(S))
  BY FS_Singleton DEF HasOne
<1>11. ASSUME Cardinality(liked) = 1 \/ Cardinality(preferred) = 1
       PROVE  /\ Cardinality(liked) = 1 /\ Cardinality(preferred) = 1
              /\ liked = {only(preferred)}
  <2>1. /\ HasOne(liked) <=> HasOne(preferred)
        /\ \A k : preferred = {k} => liked = {e[k]}
    <3>1. OneToOne(e, preferred, liked)
      BY <1>5, <1>6, <1>7 DEF OneToOne
    <3> QED BY <3>1, SingleImage
  <2>2. Cardinality(liked) = 1 /\ Cardinality(preferred) = 1
    BY <1>7, <1>8, <1>10, <1>11, <2>1
  <2>3. PICK k : preferred = {k}
    BY <1>7, <1>10, <2>2 DEF HasOne
  <2>4. only(preferred) = e[k]
    BY <2>3
  <2> QED BY <2>1, <2>2, <2>3, <2>4
<1>12. ASSUME Cardinality(left) = 1 \/ Cardinality(candidates) = 1
       PROVE  /\ Cardinality(left) = 1 /\ Cardinality(candidates) = 1
              /\ left = {only(candidates)}
  <2>1. /\ HasOne(left) <=> HasOne(candidates)
        /\ \A k : candidates = {k} => left = {e[k]}
    <3>1. OneToOne(e, candidates, left)
      BY <1>5, <1>6 DEF OneToOne
    <3> QED BY <3>1, SingleImage
  <2>2. Cardinality(left) = 1 /\ Cardinality(candidates) = 1
    BY <1>7, <1>8, <1>10, <1>12, <2>1
  <2>3. PICK k : candidates = {k}
    BY <1>7, <1>10, <2>2 DEF HasOne
  <2>4. only(candidates) = e[k]
    BY <2>3
  <2> QED BY <2>1, <2>2, <2>3, <2>4
<1>13. (left = {} <=> candidates = {}) /\ (liked = {} <=> preferred = {})
  BY <1>5
<1>14. Cardinality({}) = 0
  BY FS_EmptySet
<1> HIDE DEF only
<1>15. CASE left = {}
  <2>1. liked = {} /\ Cardinality(best) = 0
    BY <1>9, <1>14, <1>15
  <2> QED BY <1>3, <1>4, <1>11, <1>13, <1>14, <1>15, <2>1
<1>16. CASE left # {} /\ liked # {}
  BY <1>3, <1>4, <1>11, <1>13, <1>16
<1>17. CASE left # {} /\ liked = {}
  BY <1>3, <1>4, <1>11, <1>12, <1>13, <1>14, <1>17
<1> QED BY <1>15, <1>16, <1>17

-----------------------------------------------------------------------------
(***************************************************************************)
(* Spans.                                                                  *)
(***************************************************************************)

\* The span of every range of numbers starts at one and is in order, and there is one
\* exactly if the range is in order and can be represented (lsp_span,
\* parse_agda_header).
THEOREM SpansAlwaysFit ==
    ASSUME MaxU32 \in Nat, NEW range \in [start: Nat \X Nat, end: Nat \X Nat]
    PROVE  SpansFit(range)
<1> DEFINE a == range.start[1]
           b == range.start[2]
           c == range.end[1]
           d == range.end[2]
           ordered == a < c \/ (a = c /\ b <= d)
           fits(low, high) == {a, b, c, d} \subseteq low..high
<1>1. a \in Nat /\ b \in Nat /\ c \in Nat /\ d \in Nat
  OBVIOUS
<1>2. LspSpan(range) = IF ordered /\ fits(0, MaxU32 - 1)
                       THEN {[from |-> <<a + 1, b + 1>>, to |-> <<c + 1, d + 1>>]} ELSE {}
  <2>1. fits(0, MaxU32 - 1) <=>
           /\ a <= MaxU32 /\ b <= MaxU32 /\ c <= MaxU32 /\ d <= MaxU32
           /\ MaxU32 \notin {a, b, c, d}
    BY <1>1
  <2> QED BY <2>1 DEF LspSpan
<1>3. AgdaSpan(range) = IF ordered /\ fits(1, MaxU32)
                        THEN {[from |-> range.start, to |-> range.end]} ELSE {}
  <2>1. fits(1, MaxU32) <=>
           /\ 0 \notin {a, b, c, d}
           /\ a <= MaxU32 /\ b <= MaxU32 /\ c <= MaxU32 /\ d <= MaxU32
    BY <1>1
  <2>2. ordered <=> c >= a /\ (c = a => b <= d)
    BY <1>1
  <2>3. (\A p \in {range.start, range.end} : p[1] <= MaxU32 /\ p[2] <= MaxU32) <=>
           a <= MaxU32 /\ b <= MaxU32 /\ c <= MaxU32 /\ d <= MaxU32
    OBVIOUS
  <2> QED BY <2>1, <2>2, <2>3 DEF AgdaSpan
<1>4. fits(0, MaxU32 - 1) => {a + 1, b + 1, c + 1, d + 1} \subseteq 1..MaxU32
  BY <1>1
<1>5. ordered => a + 1 < c + 1 \/ (a + 1 = c + 1 /\ b + 1 <= d + 1)
  BY <1>1
<1> HIDE DEF fits
<1>6. ASSUME NEW span \in LspSpan(range) \cup AgdaSpan(range)
      PROVE  /\ span.from[1] < span.to[1] \/ (span.from[1] = span.to[1] /\ span.from[2] <= span.to[2])
             /\ {span.from[1], span.from[2], span.to[1], span.to[2]} \subseteq 1..MaxU32
  <2>1. CASE span \in LspSpan(range)
    BY <1>2, <1>4, <1>5, <2>1
  <2>2. CASE span \in AgdaSpan(range)
    BY <1>3, <2>2 DEF fits
  <2> QED BY <1>6, <2>1, <2>2
<1>7. LspSpan(range) # {} <=> ordered /\ \A p \in {range.start, range.end} : {p[1], p[2]} \subseteq 0..(MaxU32 - 1)
  <2>1. (\A p \in {range.start, range.end} : {p[1], p[2]} \subseteq 0..(MaxU32 - 1)) <=> fits(0, MaxU32 - 1)
    BY DEF fits
  <2> HIDE DEF ordered
  <2> QED BY <1>2, <2>1
<1>8. AgdaSpan(range) # {} <=> ordered /\ \A p \in {range.start, range.end} : {p[1], p[2]} \subseteq 1..MaxU32
  <2>1. (\A p \in {range.start, range.end} : {p[1], p[2]} \subseteq 1..MaxU32) <=> fits(1, MaxU32)
    BY DEF fits
  <2> HIDE DEF ordered
  <2> QED BY <1>3, <2>1
<1> QED BY <1>6, <1>7, <1>8 DEF SpansFit

-----------------------------------------------------------------------------
(***************************************************************************)
(* Configuration.                                                          *)
(***************************************************************************)

\* A layer over another says of every setting what it says, or else what the other does.
LEMMA MergeIsSettingBySetting ==
    ASSUME NEW high, IsLayer(high), NEW low, IsLayer(low)
    PROVE  /\ IsLayer(Merge(high, low))
           /\ \A path : IsPath(path) =>
                 Setting(Merge(high, low), path) =
                    IF Setting(high, path) # Unset THEN Setting(high, path) ELSE Setting(low, path)
<1> USE DEF Profile
<1> DEFINE names == DOMAIN low.profiles \cup DOMAIN high.profiles
           made == Merge(high, low)
<1>1. /\ high.general \in [GeneralFields -> SettingValues] /\ low.general \in [GeneralFields -> SettingValues]
      /\ DOMAIN high.profiles \subseteq STRING /\ DOMAIN low.profiles \subseteq STRING
      /\ high.profiles \in [DOMAIN high.profiles -> Profile]
      /\ low.profiles \in [DOMAIN low.profiles -> Profile]
  BY DEF IsLayer
<1>2. ASSUME NEW p \in DOMAIN high.profiles, p \in DOMAIN low.profiles
      PROVE  LET h == high.profiles[p]
                 l == low.profiles[p]
                 m == MergeProfile(h, l)
             IN  /\ m \in Profile
                 /\ \A f \in ProfileFields : m.settings[f] =
                       IF h.settings[f] # Unset THEN h.settings[f] ELSE l.settings[f]
                 /\ \A f \in ActionFields :
                       (IF m.actions = Unset THEN Unset ELSE m.actions[f]) =
                       IF h.actions # Unset /\ h.actions[f] # Unset THEN h.actions[f]
                       ELSE IF l.actions = Unset THEN Unset ELSE l.actions[f]
  <2> DEFINE h == high.profiles[p]
             l == low.profiles[p]
             m == MergeProfile(h, l)
  <2>1. h \in Profile /\ l \in Profile
    BY <1>1, <1>2
  <2>2. \A hi \in [ProfileFields -> SettingValues], lo \in [ProfileFields -> SettingValues] :
           Over(hi, lo) \in [ProfileFields -> SettingValues]
    BY DEF Over
  <2>3. \A hi \in [ActionFields -> SettingValues], lo \in [ActionFields -> SettingValues] :
           Over(hi, lo) \in [ActionFields -> SettingValues] /\ Over(hi, lo) # Unset
    BY SettingAssumption DEF Over
  <2>4. m.settings = Over(h.settings, l.settings) /\ m = [settings |-> m.settings, actions |-> m.actions]
    BY DEF MergeProfile
  <2>5. /\ h.actions = Unset => m.actions = l.actions
        /\ h.actions # Unset /\ l.actions = Unset => m.actions = h.actions
        /\ h.actions # Unset /\ l.actions # Unset => m.actions = Over(h.actions, l.actions)
    BY DEF MergeProfile
  <2> HIDE DEF h, l, m
  <2>6. m.settings \in [ProfileFields -> SettingValues] /\ m.actions \in {Unset} \cup [ActionFields -> SettingValues]
    BY <2>1, <2>2, <2>3, <2>4, <2>5
  <2>7. m \in Profile
    BY <2>4, <2>6
  <2>8. \A f \in ProfileFields : m.settings[f] =
           IF h.settings[f] # Unset THEN h.settings[f] ELSE l.settings[f]
    BY <2>1, <2>4 DEF Over
  <2>9. \A f \in ActionFields :
           (IF m.actions = Unset THEN Unset ELSE m.actions[f]) =
           IF h.actions # Unset /\ h.actions[f] # Unset THEN h.actions[f]
           ELSE IF l.actions = Unset THEN Unset ELSE l.actions[f]
    <3>1. CASE h.actions = Unset
      BY <2>5, <3>1
    <3>2. CASE h.actions # Unset /\ l.actions = Unset
      BY <2>1, <2>5, <3>2
    <3>3. CASE h.actions # Unset /\ l.actions # Unset
      <4>1. h.actions \in [ActionFields -> SettingValues] /\ l.actions \in [ActionFields -> SettingValues]
        BY <2>1, <3>3
      <4>2. m.actions # Unset
        BY <2>3, <2>5, <3>3, <4>1
      <4>3. \A f \in ActionFields : m.actions[f] = IF h.actions[f] # Unset THEN h.actions[f] ELSE l.actions[f]
        BY <2>5, <3>3, <4>1 DEF Over
      <4> QED BY <3>3, <4>2, <4>3
    <3> QED BY <3>1, <3>2, <3>3
  <2> QED BY <2>7, <2>8, <2>9 DEF h, l, m
<1>3. /\ DOMAIN made.profiles = names
      /\ \A p \in names : made.profiles[p] =
            IF p \notin DOMAIN high.profiles THEN low.profiles[p]
            ELSE IF p \notin DOMAIN low.profiles THEN high.profiles[p]
            ELSE MergeProfile(high.profiles[p], low.profiles[p])
      /\ made = [general |-> Over(high.general, low.general), profiles |-> made.profiles]
  BY DEF Merge
<1>4. Over(high.general, low.general) \in [GeneralFields -> SettingValues]
  BY <1>1 DEF Over
<1>5. \A p \in names : made.profiles[p] \in Profile
  BY <1>1, <1>2, <1>3
<1>6. IsLayer(made)
  <2>1. made.profiles = [p \in names |-> made.profiles[p]] /\ made.general = Over(high.general, low.general)
    BY DEF Merge
  <2>2. made = [general |-> made.general, profiles |-> made.profiles]
    BY DEF Merge
  <2> HIDE DEF made, Profile
  <2>3. made.profiles \in [names -> Profile] /\ names \subseteq STRING
    BY <1>1, <1>5, <2>1
  <2> HIDE DEF names
  <2>4. DOMAIN made.profiles = names
    BY <1>3
  <2> QED BY <1>4, <2>1, <2>2, <2>3, <2>4 DEF IsLayer
<1> SUFFICES ASSUME NEW path, IsPath(path)
             PROVE  Setting(made, path) =
                       IF Setting(high, path) # Unset THEN Setting(high, path) ELSE Setting(low, path)
  BY <1>6
<1>7. CASE \E g \in GeneralFields : path = <<g>>
  <2>1. PICK g \in GeneralFields : path = <<g>>
    BY <1>7
  <2>2. \A layer : Setting(layer, path) = layer.general[g]
    BY <2>1 DEF Setting
  <2>3. made.general[g] = IF high.general[g] # Unset THEN high.general[g] ELSE low.general[g]
    BY <1>1, <1>3 DEF Over
  <2> QED BY <2>2, <2>3
<1>8. CASE \E p \in STRING, f \in ProfileFields : path = <<p, f>>
  <2>1. PICK p \in STRING, f \in ProfileFields : path = <<p, f>>
    BY <1>8
  <2>2. \A layer : Setting(layer, path) =
           IF p \notin DOMAIN layer.profiles THEN Unset ELSE layer.profiles[p].settings[f]
    BY <2>1 DEF Setting
  <2>3. Setting(made, path) =
           IF Setting(high, path) # Unset THEN Setting(high, path) ELSE Setting(low, path)
    <3> HIDE DEF made
    <3>1. p \in names => p \in DOMAIN made.profiles
      BY <1>3
    <3>2. CASE p \notin DOMAIN high.profiles \/ p \notin DOMAIN low.profiles
      <4>1. p \notin DOMAIN high.profiles /\ p \in DOMAIN low.profiles => made.profiles[p] = low.profiles[p]
        BY <1>3
      <4>2. p \in DOMAIN high.profiles /\ p \notin DOMAIN low.profiles => made.profiles[p] = high.profiles[p]
        BY <1>3
      <4> QED BY <1>3, <2>2, <3>2, <4>1, <4>2
    <3>3. CASE p \in DOMAIN high.profiles /\ p \in DOMAIN low.profiles
      <4>1. made.profiles[p] = MergeProfile(high.profiles[p], low.profiles[p])
        BY <1>3, <3>3
      <4>2. MergeProfile(high.profiles[p], low.profiles[p]).settings[f] =
               IF high.profiles[p].settings[f] # Unset THEN high.profiles[p].settings[f]
               ELSE low.profiles[p].settings[f]
        BY <1>2, <3>3
      <4> QED BY <2>2, <3>1, <3>3, <4>1, <4>2
    <3> QED BY <3>2, <3>3
  <2> QED BY <2>3
<1>9. CASE \E p \in STRING, f \in ActionFields : path = <<p, "actions", f>>
  <2>1. PICK p \in STRING, f \in ActionFields : path = <<p, "actions", f>>
    BY <1>9
  <2>2. \A layer : Setting(layer, path) =
           IF p \notin DOMAIN layer.profiles THEN Unset
           ELSE IF layer.profiles[p].actions = Unset THEN Unset
           ELSE layer.profiles[p].actions[f]
    BY <2>1 DEF Setting
  <2>3. Setting(made, path) =
           IF Setting(high, path) # Unset THEN Setting(high, path) ELSE Setting(low, path)
    <3> HIDE DEF made
    <3>1. p \in names => p \in DOMAIN made.profiles
      BY <1>3
    <3>2. CASE p \notin DOMAIN high.profiles \/ p \notin DOMAIN low.profiles
      <4>1. p \notin DOMAIN high.profiles /\ p \in DOMAIN low.profiles => made.profiles[p] = low.profiles[p]
        BY <1>3
      <4>2. p \in DOMAIN high.profiles /\ p \notin DOMAIN low.profiles => made.profiles[p] = high.profiles[p]
        BY <1>3
      <4> QED BY <1>3, <2>2, <3>2, <4>1, <4>2
    <3>3. CASE p \in DOMAIN high.profiles /\ p \in DOMAIN low.profiles
      <4>1. made.profiles[p] = MergeProfile(high.profiles[p], low.profiles[p])
        BY <1>3, <3>3
      <4>2. LET m == MergeProfile(high.profiles[p], low.profiles[p])
                h == high.profiles[p]
                l == low.profiles[p]
            IN  (IF m.actions = Unset THEN Unset ELSE m.actions[f]) =
                   IF h.actions # Unset /\ h.actions[f] # Unset THEN h.actions[f]
                   ELSE IF l.actions = Unset THEN Unset ELSE l.actions[f]
        BY <1>2, <3>3
      <4> QED BY <2>2, <3>1, <3>3, <4>1, <4>2
    <3> QED BY <3>2, <3>3
  <2> QED BY <2>3
<1> QED BY <1>7, <1>8, <1>9 DEF IsPath

\* What a run has of each setting, whatever the files say, whichever there are and
\* wherever they are: the nearest project file's word, or else the user's; and a file
\* that cannot be used is never passed over (discover, Config::merge).
THEOREM ProjectAlwaysWins ==
    ASSUME NEW layers, IsLayer(layers.user), IsLayer(layers.project),
           NEW env, NEW user, NEW candidates \in Seq(STRING)
    PROVE  ProjectOverUser(env, user, candidates, layers, Nothing, Paths)
<1> DEFINE at == Nearest(candidates)
           low == IF UserFile(env, user) = "file" THEN Merge(layers.user, Nothing) ELSE Nothing
           made == Discover(env, user, candidates, layers, Nothing)
           usesUser == UserRoot(env) \notin {"none", "error"} /\ user = "file"
<1>1. at # 0 => candidates[at] # "absent"
  <2> DEFINE there == {k \in DOMAIN candidates : candidates[k] # "absent"}
  <2>1. there # {} => Min(there) \in there
    <3>1. there \subseteq Nat
      OBVIOUS
    <3> HIDE DEF there
    <3> QED BY <3>1, LeastNumber
  <2> QED BY <2>1 DEF Nearest
<1>2. CASE Refused(env, user, candidates)
  <2>1. \/ UserRoot(env) = "error"
        \/ user \notin {"absent", "file", "vanishing"}
        \/ at # 0 /\ candidates[at] # "file"
    BY <1>2 DEF Refused, UserFile, ProjectFile
  <2> QED BY <1>2, <2>1 DEF ProjectOverUser
<1>3. CASE ~Refused(env, user, candidates)
  <2>1. /\ at # 0 => candidates[at] = "file"
        /\ usesUser \/ user \in {"absent", "vanishing"} \/ UserRoot(env) = "none"
        /\ UserFile(env, user) = "file" <=> usesUser
        /\ ProjectFile(candidates) = "file" <=> at # 0
    BY <1>1, <1>3 DEF Refused, UserFile, ProjectFile
  <2>2. IsLayer(Nothing)
    <3>1. Nothing.profiles \in [{} -> Profile] /\ DOMAIN Nothing.profiles = {}
      BY DEF Nothing
    <3>2. Nothing.general \in [GeneralFields -> SettingValues]
      BY SettingAssumption DEF Nothing
    <3>3. Nothing = [general |-> Nothing.general, profiles |-> Nothing.profiles]
      BY DEF Nothing
    <3> QED BY <3>1, <3>2, <3>3 DEF IsLayer
  <2>3. \A path : IsPath(path) => Setting(Nothing, path) = Unset
    <3>1. ASSUME NEW g \in GeneralFields PROVE Setting(Nothing, <<g>>) = Unset
      BY DEF Setting, Nothing
    <3>2. DOMAIN Nothing.profiles = {}
      BY DEF Nothing
    <3>3. ASSUME NEW p, NEW f PROVE Setting(Nothing, <<p, f>>) = Unset
      BY <3>2 DEF Setting
    <3>4. ASSUME NEW p, NEW f PROVE Setting(Nothing, <<p, "actions", f>>) = Unset
      BY <3>2 DEF Setting
    <3> QED BY <3>1, <3>3, <3>4 DEF IsPath
  <2>4. /\ IsLayer(low)
        /\ \A path : IsPath(path) =>
              Setting(low, path) = IF usesUser THEN Setting(layers.user, path) ELSE Unset
    <3>1. /\ IsLayer(Merge(layers.user, Nothing))
          /\ \A path : IsPath(path) => Setting(Merge(layers.user, Nothing), path) =
                IF Setting(layers.user, path) # Unset THEN Setting(layers.user, path)
                ELSE Setting(Nothing, path)
      BY <2>2, MergeIsSettingBySetting
    <3> HIDE DEF usesUser
    <3> QED BY <2>1, <2>2, <2>3, <3>1
  <2>5. \A path : IsPath(path) =>
           Setting(made, path) =
              IF at # 0 /\ Setting(layers.project, path) # Unset THEN Setting(layers.project, path)
              ELSE Setting(low, path)
    BY <2>1, <2>4, MergeIsSettingBySetting DEF Discover
  <2>6. \A path \in Paths : IsPath(path)
    BY SettingAssumption
  <2> QED BY <1>3, <2>1, <2>4, <2>5, <2>6 DEF ProjectOverUser
<1> QED BY <1>2, <1>3

\* A profile runs code actions only with usable settings, each as it was given, is
\* refused otherwise, and has them exactly if it is listed as having them
\* (resolve_code_action_config, has_code_action_support, code_action_command_family).
THEOREM ActionsAreAlwaysConsistent ==
    ASSUME NEW rust \in BOOLEAN, NEW actions \in ActionSettings
    PROVE  ActionsAreConsistent(rust, actions)
<1> DEFINE fields == {"argv", "language_id", "extensions", "action_kinds",
                      "allowed_commands", "max_iterations", "timeout_ms"}
           chosen == IF actions = Unset THEN Defaults(rust)
                     ELSE Over([f \in fields |-> actions[f]], Defaults(rust))
           unusable == \/ \E f \in {"argv", "language_id", "extensions", "action_kinds"} :
                             chosen[f] \in {Unset, "empty", "blank"}
                       \/ chosen.allowed_commands = "blank"
                       \/ chosen.max_iterations = "zero"
                       \/ chosen.timeout_ms \in {"zero", "huge"}
           able == HasCodeActionSupport(rust, actions)
           made == ResolveActions(rust, actions)
<1> USE SettingAssumption
<1>1. DOMAIN Defaults(rust) = fields
  BY DEF Defaults
<1>2. made = IF ~able THEN [outcome |-> "none"]
             ELSE IF unusable THEN [outcome |-> "refused"]
             ELSE [outcome |-> "runs", with |-> chosen]
  <2>1. chosen = IF actions = Unset THEN Defaults(rust)
                 ELSE Over([f \in DOMAIN Defaults(rust) |-> actions[f]], Defaults(rust))
    BY <1>1
  <2> HIDE DEF fields, able
  <2> QED BY <2>1 DEF ResolveActions, able
<1>3. /\ DOMAIN chosen = fields
      /\ \A f \in fields : chosen[f] =
            IF actions # Unset /\ actions[f] # Unset THEN actions[f] ELSE Defaults(rust)[f]
  BY <1>1 DEF Over
<1>4. /\ made.outcome = "none" <=> ~able
      /\ made.outcome = "runs" => able /\ ~unusable /\ made.with = chosen
  <2> HIDE DEF able, unusable, chosen, made
  <2> QED BY <1>2
<1>5. ASSUME able, ~unusable
      PROVE  /\ CommandFamily(rust, actions) = chosen.argv
             /\ \A f \in fields :
                   /\ chosen[f] \notin {Unset, "empty", "blank", "zero", "huge"}
                   /\ actions # Unset /\ actions[f] # Unset => chosen[f] = actions[f]
  <2>1. /\ \A f \in {"argv", "language_id", "extensions"} :
              Defaults(rust)[f] \in {Unset, "rust-analyzer", "rust", "rs"}
        /\ Defaults(rust).action_kinds = "quickfix" /\ Defaults(rust).allowed_commands = "none"
        /\ Defaults(rust).max_iterations = "64" /\ Defaults(rust).timeout_ms = "30 s"
    <3>1. /\ Defaults(rust).argv \in {Unset, "rust-analyzer"}
          /\ Defaults(rust).language_id \in {Unset, "rust"}
          /\ Defaults(rust).extensions \in {Unset, "rs"}
      BY DEF Defaults
    <3>2. /\ Defaults(rust).action_kinds = "quickfix" /\ Defaults(rust).allowed_commands = "none"
          /\ Defaults(rust).max_iterations = "64" /\ Defaults(rust).timeout_ms = "30 s"
      BY DEF Defaults
    <3> QED BY <3>1, <3>2
  <2>2. CommandFamily(rust, actions) = chosen.argv
    <3>1. chosen.argv \notin {Unset, "empty", "blank"}
      BY <1>5
    <3>2. chosen.argv = IF actions # Unset /\ actions.argv # Unset THEN actions.argv ELSE Defaults(rust).argv
      BY <1>3
    <3> HIDE DEF chosen
    <3> QED BY <1>5, <3>1, <3>2 DEF CommandFamily
  <2>3. ASSUME NEW f \in fields
        PROVE  chosen[f] \notin {Unset, "empty", "blank", "zero", "huge"}
    <3>1. CASE actions # Unset /\ actions[f] # Unset
      <4>1. chosen[f] = actions[f]
        BY <1>3, <3>1
      <4>2. f \in {"argv", "language_id", "extensions", "action_kinds"} =>
               actions[f] \in {Unset, "empty", "blank"} \cup GivenValues
        BY <3>1 DEF ActionSettings
      <4>3. f = "allowed_commands" => actions[f] \in {Unset, "blank"} \cup GivenValues
        BY <3>1 DEF ActionSettings
      <4>4. /\ f = "max_iterations" => actions[f] \in {Unset, "zero"} \cup GivenValues
            /\ f = "timeout_ms" => actions[f] \in {Unset, "zero", "huge"} \cup GivenValues
        BY <3>1 DEF ActionSettings
      <4>5. actions[f] \in GivenValues
        <5> HIDE DEF chosen
        <5> QED BY <1>5, <3>1, <4>1, <4>2, <4>3, <4>4
      <4> QED BY <4>1, <4>5
    <3>2. CASE ~(actions # Unset /\ actions[f] # Unset)
      <4>1. chosen[f] = Defaults(rust)[f]
        BY <1>3, <3>2
      <4>2. CASE f \in {"argv", "language_id", "extensions"}
        <5>1. chosen[f] # Unset /\ chosen[f] \in {Unset, "rust-analyzer", "rust", "rs"}
          BY <1>5, <2>1, <4>1, <4>2
        <5> HIDE DEF chosen
        <5> QED BY <5>1
      <4>3. CASE f \in {"action_kinds", "allowed_commands", "max_iterations", "timeout_ms"}
        <5>1. chosen[f] \in {"quickfix", "none", "64", "30 s"}
          BY <2>1, <4>1, <4>3
        <5>2. chosen[f] # Unset
          BY <5>1
        <5> HIDE DEF chosen
        <5> QED BY <5>1, <5>2
      <4> QED BY <4>2, <4>3
    <3> QED BY <3>1, <3>2
  <2> QED BY <1>3, <2>2, <2>3
<1> HIDE DEF fields, chosen, unusable, able, made
<1> QED BY <1>3, <1>4, <1>5 DEF ActionsAreConsistent, able, made

-----------------------------------------------------------------------------
(***************************************************************************)
(* What a tool's output is read as.                                        *)
(***************************************************************************)

\* The lines of cargo's output are pushed one after the other.
LEMMA ClippyFold ==
    ASSUME NEW text \in Seq(LineKinds), NEW V, NEW b \in V,
           \A v \in V : \A k \in 1..Len(text) : PushLine(v, k, text[k]) \in V
    PROVE  LET step(v, k) == PushLine(v, k, text[k])
               g == [k \in 1..Len(text) |-> [v \in V |-> step(v, k)]]
           IN  \E h : /\ IsTrace(h, Len(text), b, g, V)
                      /\ FoldLeft(step, b, [k \in DOMAIN text |-> k]) = h[Len(text)]
<1> DEFINE N == Len(text)
           step(v, k) == PushLine(v, k, text[k])
           g == [k \in 1..N |-> [v \in V |-> step(v, k)]]
           seq == [k \in DOMAIN text |-> k]
           Is(it) == it = [d \in SUBSET DOMAIN seq |->
                              IF d = {} THEN b ELSE step(it[d \ {Max(d)}], seq[Max(d)])]
           it == CHOOSE f : Is(f)
           h == [n \in 0..N |-> it[1..n]]
<1>1. FoldLeft(step, b, seq) = it[DOMAIN seq]
  BY DEF FoldLeft, MapThenFoldSet
<1>2. /\ N \in Nat /\ DOMAIN seq = 1..N /\ g \in [1..N -> [V -> V]]
      /\ \A k \in 1..N : seq[k] = k /\ \A v \in V : g[k][v] = step(v, seq[k])
  OBVIOUS
<1> HIDE DEF N, g, seq, step
<1>3. \A d \in SUBSET (1..N) : d # {} => Max(d) \in 1..N
  BY <1>2, GreatestIsIn
<1>4. \E f : Is(f)
  <2>1. PICK f \in [SUBSET (1..N) -> V] : TakesIn(f, N, b, g)
    BY <1>2, FoldExists
  <2>2. \A d \in SUBSET (1..N) : d # {} => f[d] = step(f[d \ {Max(d)}], seq[Max(d)])
    BY <1>2, <1>3, <2>1 DEF TakesIn
  <2>3. f[{}] = b
    BY <2>1 DEF TakesIn
  <2>4. Is(f)
    BY <1>2, <2>2, <2>3
  <2> QED BY <2>4
<1>5. Is(it)
  <2> HIDE DEF Is
  <2> QED BY <1>4
<1> HIDE DEF it
<1>6. Follows(it, N, b, g, V)
  <2>1. it[{}] = b /\ \A d \in SUBSET (1..N) : d # {} => it[d] = step(it[d \ {Max(d)}], seq[Max(d)])
    BY <1>2, <1>5
  <2> HIDE DEF Is, h
  <2>2. ASSUME NEW d \in SUBSET (1..N), d # {}, it[d \ {Max(d)}] \in V
        PROVE  it[d] = g[Max(d)][it[d \ {Max(d)}]]
    <3>1. Max(d) \in 1..N
      BY <1>3, <2>2
    <3>2. it[d] = step(it[d \ {Max(d)}], seq[Max(d)])
      BY <2>1, <2>2
    <3>3. g[Max(d)][it[d \ {Max(d)}]] = step(it[d \ {Max(d)}], seq[Max(d)])
      BY <1>2, <2>2, <3>1
    <3> QED BY <3>2, <3>3
  <2> QED BY <2>1, <2>2 DEF Follows
<1>7. IsTrace(h, N, b, g, V)
  BY <1>2, <1>6, FoldTrace
<1>8. h[N] = it[DOMAIN seq]
  BY <1>2
<1> HIDE DEF h
<1> QED BY <1>1, <1>7, <1>8 DEF N, seq, step, g

\* The lines of Agda's output are taken one after the other.
LEMMA AgdaFold ==
    ASSUME NEW text \in Seq(LineKinds), NEW V, NEW b \in V,
           \A v \in V : \A k \in 1..Len(text) : AgdaLine(v, k, text[k]) \in V
    PROVE  LET step(v, k) == AgdaLine(v, k, text[k])
               g == [k \in 1..Len(text) |-> [v \in V |-> step(v, k)]]
           IN  \E h : /\ IsTrace(h, Len(text), b, g, V)
                      /\ FoldLeft(step, b, [k \in DOMAIN text |-> k]) = h[Len(text)]
<1> DEFINE N == Len(text)
           step(v, k) == AgdaLine(v, k, text[k])
           g == [k \in 1..N |-> [v \in V |-> step(v, k)]]
           seq == [k \in DOMAIN text |-> k]
           Is(it) == it = [d \in SUBSET DOMAIN seq |->
                              IF d = {} THEN b ELSE step(it[d \ {Max(d)}], seq[Max(d)])]
           it == CHOOSE f : Is(f)
           h == [n \in 0..N |-> it[1..n]]
<1>1. FoldLeft(step, b, seq) = it[DOMAIN seq]
  BY DEF FoldLeft, MapThenFoldSet
<1>2. /\ N \in Nat /\ DOMAIN seq = 1..N /\ g \in [1..N -> [V -> V]]
      /\ \A k \in 1..N : seq[k] = k /\ \A v \in V : g[k][v] = step(v, seq[k])
  OBVIOUS
<1> HIDE DEF N, g, seq, step
<1>3. \A d \in SUBSET (1..N) : d # {} => Max(d) \in 1..N
  BY <1>2, GreatestIsIn
<1>4. \E f : Is(f)
  <2>1. PICK f \in [SUBSET (1..N) -> V] : TakesIn(f, N, b, g)
    BY <1>2, FoldExists
  <2>2. \A d \in SUBSET (1..N) : d # {} => f[d] = step(f[d \ {Max(d)}], seq[Max(d)])
    BY <1>2, <1>3, <2>1 DEF TakesIn
  <2>3. f[{}] = b
    BY <2>1 DEF TakesIn
  <2>4. Is(f)
    BY <1>2, <2>2, <2>3
  <2> QED BY <2>4
<1>5. Is(it)
  <2> HIDE DEF Is
  <2> QED BY <1>4
<1> HIDE DEF it
<1>6. Follows(it, N, b, g, V)
  <2>1. it[{}] = b /\ \A d \in SUBSET (1..N) : d # {} => it[d] = step(it[d \ {Max(d)}], seq[Max(d)])
    BY <1>2, <1>5
  <2> HIDE DEF Is, h
  <2>2. ASSUME NEW d \in SUBSET (1..N), d # {}, it[d \ {Max(d)}] \in V
        PROVE  it[d] = g[Max(d)][it[d \ {Max(d)}]]
    <3>1. Max(d) \in 1..N
      BY <1>3, <2>2
    <3>2. it[d] = step(it[d \ {Max(d)}], seq[Max(d)])
      BY <2>1, <2>2
    <3>3. g[Max(d)][it[d \ {Max(d)}]] = step(it[d \ {Max(d)}], seq[Max(d)])
      BY <1>2, <2>2, <3>1
    <3> QED BY <3>2, <3>3
  <2> QED BY <2>1, <2>2 DEF Follows
<1>7. IsTrace(h, N, b, g, V)
  BY <1>2, <1>6, FoldTrace
<1>8. h[N] = it[DOMAIN seq]
  BY <1>2
<1> HIDE DEF h
<1> QED BY <1>1, <1>7, <1>8 DEF N, seq, step, g

Report == [by: Protocols, at: Nat, body: SUBSET Nat]

\* A list of diagnostics is an adapter's, one for each of some lines, in their order.
Reports(found, adapter, lines) ==
    /\ \A i \in DOMAIN found : found[i].by = adapter /\ found[i].at \in lines
    /\ \A k \in lines : \E i \in DOMAIN found : found[i].at = k
    /\ \A i, j \in DOMAIN found : i < j => found[i].at < found[j].at

\* A list of reports grows with a later line.
LEMMA OneMoreReport ==
    ASSUME NEW T, NEW found \in Seq(T), NEW new \in T, NEW adapter, NEW lines, NEW more,
           Reports(found, adapter, lines), new.by = adapter,
           \A k : k \in more <=> k \in lines \/ k = new.at,
           \A k \in lines : k < new.at
    PROVE  Reports(Append(found, new), adapter, more)
<1> DEFINE m == Len(found)
           app == Append(found, new)
<1>1. /\ m \in Nat /\ DOMAIN found = 1..m /\ DOMAIN app = 1..(m + 1) /\ m + 1 \in 1..(m + 1)
      /\ \A i \in 1..m : app[i] = found[i]
      /\ app[m + 1] = new
      /\ \A i \in 1..(m + 1) : i \in 1..m \/ i = m + 1
      /\ \A i \in 1..m : i \in 1..(m + 1)
  OBVIOUS
<1> HIDE DEF m, app
<1>2. \A i \in 1..(m + 1) : app[i].by = adapter /\ app[i].at \in more
  BY <1>1 DEF Reports
<1>3. \A k \in more : \E i \in 1..(m + 1) : app[i].at = k
  <2>1. SUFFICES ASSUME NEW k \in more PROVE \E i \in 1..(m + 1) : app[i].at = k
    OBVIOUS
  <2>2. CASE k \in lines
    BY <1>1, <2>2 DEF Reports
  <2>3. CASE k = new.at
    BY <1>1, <2>3
  <2> QED BY <2>2, <2>3
<1>4. ASSUME NEW i \in 1..(m + 1), NEW j \in 1..(m + 1), i < j
      PROVE  app[i].at < app[j].at
  <2>1. i \in 1..m
    BY <1>1, <1>4
  <2>2. CASE j \in 1..m
    BY <1>1, <1>4, <2>1, <2>2 DEF Reports
  <2>3. CASE j = m + 1
    BY <1>1, <2>1, <2>3 DEF Reports
  <2> QED BY <1>1, <2>2, <2>3
<1> QED BY <1>1, <1>2, <1>3, <1>4 DEF Reports, app

\* The lines up to the n-th that are of some kinds.
Upto(n, text, kinds) == {k \in 1..n : text[k] \in kinds}

\* One more line of those kinds, or none.
LEMMA OneMoreLine ==
    ASSUME NEW text \in Seq(LineKinds), NEW n \in 1..Len(text), NEW kinds
    PROVE  /\ \A k : k \in Upto(n, text, kinds) <=>
                        k \in Upto(n - 1, text, kinds) \/ (k = n /\ text[n] \in kinds)
           /\ \A k \in Upto(n - 1, text, kinds) : k < n
           /\ Upto(Len(text), text, kinds) = {k \in DOMAIN text : text[k] \in kinds}
<1>1. \A k : k \in 1..n <=> k \in 1..(n - 1) \/ k = n
  OBVIOUS
<1>2. \A k \in 1..(n - 1) : k < n
  OBVIOUS
<1> QED BY <1>1, <1>2 DEF Upto

CargoParser == [found: Seq(Report), json: BOOLEAN, nonempty: BOOLEAN, error: {"none", "json", "parser"}]

\* What the parser of cargo records knows after n lines.
HasPushed(parser, text, n) ==
    /\ Reports(parser.found, "clippy", Upto(n, text, {"message"}))
    /\ parser.json <=> \E k \in 1..n : text[k] \in Records
    /\ parser.nonempty <=> \E k \in 1..n : text[k] # "blank"
    /\ parser.error = "none" <=> \A k \in 1..n : StructuredError(text[k]) = "none"

LEMMA PushLineType ==
    ASSUME NEW parser \in CargoParser, NEW k \in Nat, NEW kind \in LineKinds
    PROVE  PushLine(parser, k, kind) \in CargoParser
<1>1. Found("clippy", k) \in Report
  BY DEF Found, Report, Protocols
<1>2. StructuredError(kind) \in {"none", "json", "parser"}
  BY DEF StructuredError
<1>3. /\ parser.found \in Seq(Report) /\ parser.json \in BOOLEAN /\ parser.nonempty \in BOOLEAN
      /\ parser.error \in {"none", "json", "parser"}
  BY DEF CargoParser
<1>4. Append(parser.found, Found("clippy", k)) \in Seq(Report)
  BY <1>1, <1>3
<1>5. /\ (IF kind = "message" THEN Append(parser.found, Found("clippy", k)) ELSE parser.found) \in Seq(Report)
      /\ (parser.json \/ kind \in Records) \in BOOLEAN
      /\ (parser.nonempty \/ kind # "blank") \in BOOLEAN
      /\ (IF parser.error = "none" THEN StructuredError(kind) ELSE parser.error) \in {"none", "json", "parser"}
  BY <1>2, <1>3, <1>4
<1> QED BY <1>5 DEF PushLine, CargoParser

LEMMA PushLineKeeps ==
    ASSUME NEW text \in Seq(LineKinds), NEW n \in 1..Len(text), NEW parser \in CargoParser,
           HasPushed(parser, text, n - 1)
    PROVE  HasPushed(PushLine(parser, n, text[n]), text, n)
<1> DEFINE new == PushLine(parser, n, text[n])
           line == Found("clippy", n)
<1>0. text[n] \in LineKinds
  OBVIOUS
<1>1. /\ new.found = IF text[n] = "message" THEN Append(parser.found, line) ELSE parser.found
      /\ new.json = (parser.json \/ text[n] \in Records)
      /\ new.nonempty = (parser.nonempty \/ text[n] # "blank")
      /\ new.error = IF parser.error = "none" THEN StructuredError(text[n]) ELSE parser.error
  BY DEF PushLine, CargoParser
<1>2. /\ line \in Report /\ line.by = "clippy" /\ line.at = n
      /\ parser.found \in Seq(Report) /\ parser.json \in BOOLEAN /\ parser.nonempty \in BOOLEAN
  <2>1. n \in Nat
    OBVIOUS
  <2>2. line \in Report /\ line.by = "clippy" /\ line.at = n
    BY <2>1 DEF Found, Report, Protocols
  <2> QED BY <2>2 DEF CargoParser
<1> HIDE DEF new, line
<1>3. Reports(new.found, "clippy", Upto(n, text, {"message"}))
  <2> DEFINE lines == Upto(n - 1, text, {"message"})
             more == Upto(n, text, {"message"})
  <2>1. /\ \A k : k \in more <=> k \in lines \/ (k = n /\ text[n] = "message")
        /\ \A k \in lines : k < n
    BY OneMoreLine
  <2>2. Reports(parser.found, "clippy", lines)
    BY DEF HasPushed
  <2> HIDE DEF lines, more
  <2>3. CASE text[n] = "message"
    <3>1. Reports(Append(parser.found, line), "clippy", more)
      BY <1>2, <2>1, <2>2, <2>3, OneMoreReport
    <3> QED BY <1>1, <2>3, <3>1 DEF more
  <2>4. CASE text[n] # "message"
    <3>1. more = lines
      <4>1. \A k : k \in more <=> k \in lines
        BY <2>1, <2>4
      <4> QED BY <4>1
    <3> QED BY <1>1, <2>2, <2>4, <3>1 DEF more
  <2> QED BY <2>3, <2>4
<1>4. new.json <=> \E k \in 1..n : text[k] \in Records
  <2>1. \A k : k \in 1..n <=> k \in 1..(n - 1) \/ k = n
    OBVIOUS
  <2>2. parser.json <=> \E k \in 1..(n - 1) : text[k] \in Records
    BY DEF HasPushed
  <2> QED BY <1>1, <1>2, <2>1, <2>2
<1>5. new.nonempty <=> \E k \in 1..n : text[k] # "blank"
  <2>1. \A k : k \in 1..n <=> k \in 1..(n - 1) \/ k = n
    OBVIOUS
  <2>2. parser.nonempty <=> \E k \in 1..(n - 1) : text[k] # "blank"
    BY DEF HasPushed
  <2> QED BY <1>1, <1>2, <2>1, <2>2
<1>6. new.error = "none" <=> \A k \in 1..n : StructuredError(text[k]) = "none"
  <2>1. \A k : k \in 1..n <=> k \in 1..(n - 1) \/ k = n
    OBVIOUS
  <2>2. parser.error = "none" <=> \A k \in 1..(n - 1) : StructuredError(text[k]) = "none"
    BY DEF HasPushed
  <2>3. new.error = "none" <=> parser.error = "none" /\ StructuredError(text[n]) = "none"
    BY <1>1
  <2> QED BY <2>1, <2>2, <2>3
<1>7. HasPushed(new, text, n)
  BY <1>3, <1>4, <1>5, <1>6 DEF HasPushed
<1> QED BY <1>7 DEF new

\* ParseClippy ends with a parser that has been given every line.
LEMMA ClippyPushesAll ==
    ASSUME NEW text \in Seq(LineKinds)
    PROVE  \E parser \in CargoParser :
              /\ HasPushed(parser, text, Len(text))
              /\ ParseClippy(text) = Finish(parser)
<1> DEFINE N == Len(text)
           V == CargoParser
           b == [found |-> <<>>, json |-> FALSE, nonempty |-> FALSE, error |-> "none"]
           step(v, k) == PushLine(v, k, text[k])
           g == [k \in 1..N |-> [v \in V |-> step(v, k)]]
           seq == [k \in DOMAIN text |-> k]
           inv == [n \in 0..N |-> {v \in V : HasPushed(v, text, n)}]
<1>1. N \in Nat /\ b \in V
  BY DEF CargoParser
<1>2. HasPushed(b, text, 0)
  BY DEF HasPushed, Reports, Upto
<1>3. \A k \in 1..N : k \in Nat /\ text[k] \in LineKinds
  OBVIOUS
<1>4. \A v \in V : \A k \in 1..N : step(v, k) \in V
  BY <1>3, PushLineType
<1>5. PICK h : IsTrace(h, N, b, g, V) /\ FoldLeft(step, b, seq) = h[N]
  <2> HIDE DEF b, V
  <2> QED BY <1>1, <1>4, ClippyFold
<1>6. b \in inv[0]
  BY <1>1, <1>2
<1>7. Preserves(inv, N, g, V)
  <2> SUFFICES ASSUME NEW n \in 1..N, NEW v \in V, v \in inv[n - 1] PROVE g[n][v] \in inv[n]
    BY DEF Preserves
  <2>1. n - 1 \in 0..N /\ n \in 0..N
    BY <1>1
  <2>2. HasPushed(v, text, n - 1)
    BY <2>1
  <2>3. HasPushed(step(v, n), text, n)
    BY <2>2, PushLineKeeps
  <2> QED BY <1>4, <2>1, <2>3
<1>8. h[N] \in V /\ h[N] \in inv[N]
  <2> HIDE DEF inv, g, b, V, N, seq, step
  <2> QED BY <1>1, <1>5, <1>6, <1>7, TraceInduction
<1>9. HasPushed(h[N], text, N)
  BY <1>1, <1>8
<1>10. ParseClippy(text) = Finish(h[N])
  BY <1>5 DEF ParseClippy
<1> QED BY <1>8, <1>9, <1>10

-----------------------------------------------------------------------------
\* What is reported is every line of the adapter that matched, once and in order, and
\* "no diagnostics" is the answer to output that says so or is overlooked: the part of ReportIsComplete that is about
\* one adapter, but for what is in the messages of Agda.
Complete(made, text) ==
    /\ made.found # <<>> =>
          /\ {made.found[i].at : i \in DOMAIN made.found} = Reportable(made.found[1].by, text)
          /\ \A i, j \in DOMAIN made.found : i < j => made.found[i].at < made.found[j].at
    /\ made = Success(<<>>) => AllIsWell(text) \/ IsOverlooked(text)

LEMMA ReportsAreComplete ==
    ASSUME NEW text, NEW T, NEW found \in Seq(T), NEW adapter,
           Reports(found, adapter, Reportable(adapter, text)),
           found = <<>> => AllIsWell(text) \/ IsOverlooked(text)
    PROVE  Complete(Success(found), text)
<1>1. Success(found).found = found /\ (Success(found) = Success(<<>>) => found = <<>>)
  BY DEF Success
<1>2. ASSUME found # <<>> PROVE found[1].by = adapter
  <2>1. 1 \in DOMAIN found
    BY <1>2
  <2> QED BY <2>1 DEF Reports
<1>3. {found[i].at : i \in DOMAIN found} = Reportable(adapter, text)
  BY DEF Reports
<1>4. \A i, j \in DOMAIN found : i < j => found[i].at < found[j].at
  BY DEF Reports
<1> QED BY <1>1, <1>2, <1>3, <1>4 DEF Complete

LEMMA FailuresAreComplete ==
    ASSUME NEW text, NEW error, error # "none"
    PROVE  Complete(Failure(error), text) /\ Failure(error).found = <<>>
BY DEF Complete, Failure, Success

\* Cargo's output.
LEMMA ClippyIsComplete ==
    ASSUME NEW text \in Seq(LineKinds)
    PROVE  /\ Complete(ParseClippy(text), text)
           /\ ParseClippy(text).found # <<>> => ParseClippy(text).found[1].by = "clippy"
<1>1. PICK parser \in CargoParser :
          HasPushed(parser, text, Len(text)) /\ ParseClippy(text) = Finish(parser)
  BY ClippyPushesAll
<1> DEFINE found == parser.found
<1>2. found \in Seq(Report) /\ parser.json \in BOOLEAN /\ parser.nonempty \in BOOLEAN
  BY DEF CargoParser
<1>3. \A kinds : Upto(Len(text), text, kinds) = {k \in DOMAIN text : text[k] \in kinds}
  BY DEF Upto
<1>4. Reports(found, "clippy", Reportable("clippy", text))
  <2>1. Reportable("clippy", text) = Upto(Len(text), text, {"message"})
    BY <1>3 DEF Reportable
  <2> QED BY <1>1, <2>1 DEF HasPushed
<1>5. CASE found # <<>>
  <2>1. ParseClippy(text) = Success(found)
    BY <1>1, <1>5 DEF Finish
  <2>2. Complete(Success(found), text)
    BY <1>2, <1>4, <1>5, ReportsAreComplete
  <2>3. Success(found).found = found
    BY DEF Success
  <2>4. 1 \in DOMAIN found
    BY <1>2, <1>5
  <2>5. found[1].by = "clippy"
    BY <1>4, <2>4 DEF Reports
  <2> HIDE DEF found
  <2> QED BY <2>1, <2>2, <2>3, <2>5
<1>6. CASE found = <<>> /\ (parser.error # "none" \/ (parser.nonempty /\ ~parser.json))
  <2>1. \E error : error # "none" /\ ParseClippy(text) = Failure(error)
    BY <1>1, <1>6 DEF Finish
  <2> QED BY <2>1, FailuresAreComplete
<1>7. CASE found = <<>> /\ parser.error = "none" /\ ~(parser.nonempty /\ ~parser.json)
  <2>1. ParseClippy(text) = Success(<<>>)
    BY <1>1, <1>7 DEF Finish
  <2>2. \A k \in DOMAIN text : text[k] \in LineKinds /\ text[k] # "message"
    <3>1. \A k : k \notin Upto(Len(text), text, {"message"})
      BY <1>1, <1>7 DEF HasPushed, Reports
    <3>2. DOMAIN text = 1..Len(text) /\ \A k \in DOMAIN text : text[k] \in LineKinds
      OBVIOUS
    <3> QED BY <3>1, <3>2 DEF Upto
  <2>3. \A k \in DOMAIN text : StructuredError(text[k]) = "none"
    BY <1>1, <1>7 DEF HasPushed
  <2>4. CASE ~parser.nonempty
    <3>1. \A k \in DOMAIN text : text[k] \notin LineKinds \ {"blank"}
      BY <1>1, <2>4 DEF HasPushed
    <3>2. IsBlank(text)
      BY <3>1 DEF IsBlank, Holds
    <3>3. AllIsWell(text)
      BY <3>2 DEF AllIsWell
    <3> QED BY <2>1, <3>3 DEF Complete, Success
  <2>5. CASE parser.json
    <3>1. PICK k \in DOMAIN text : text[k] \in Records
      BY <1>1, <2>5 DEF HasPushed
    <3>2. Holds(text, {"event", "failed"})
      <4>1. text[k] # "message" /\ StructuredError(text[k]) = "none"
        BY <2>2, <2>3
      <4>2. text[k] \in {"event", "failed"}
        BY <3>1, <4>1 DEF StructuredError, Records, JsonLines, BraceLines, CargoLines
      <4> QED BY <4>2 DEF Holds
    <3>3. ASSUME NEW j \in DOMAIN text
          PROVE  text[j] \notin (JsonLines \cup {"torn", "open"}) \ {"event", "failed"}
      <4>1. text[j] # "message" /\ StructuredError(text[j]) = "none"
        BY <2>2, <2>3
      <4> QED BY <4>1 DEF StructuredError, JsonLines, BraceLines, CargoLines
    <3>4. AllIsWell(text) \/ IsOverlooked(text)
      <4>1. CASE Holds(text, LineKinds \ {"blank", "event"})
        BY <3>2, <3>3, <4>1 DEF IsOverlooked, Holds
      <4>2. CASE ~Holds(text, LineKinds \ {"blank", "event"})
        BY <4>2 DEF AllIsWell
      <4> QED BY <4>1, <4>2
    <3> QED BY <2>1, <3>4 DEF Complete, Success
  <2> QED BY <1>2, <1>7, <2>4, <2>5
<1> QED BY <1>2, <1>5, <1>6, <1>7

\* Text that is not blank has a first line that is not.
LEMMA FirstIsThere ==
    ASSUME NEW text \in Seq(LineKinds), NEW l \in DOMAIN text, text[l] # "blank"
    PROVE  First(text) \in DOMAIN text
<1> DEFINE S == {k \in DOMAIN text : text[k] # "blank"}
<1>1. S \subseteq Nat /\ S # {}
  OBVIOUS
<1>2. PICK k \in S : \A j \in S : k <= j
  <2> HIDE DEF S
  <2> QED BY <1>1, LeastNumber
<1>3. ASSUME NEW j \in 1..(k - 1) PROVE text[j] = "blank"
  <2>1. k \in 1..Len(text) /\ j \in DOMAIN text /\ ~(k <= j)
    OBVIOUS
  <2> QED BY <1>2, <2>1
<1> QED BY <1>3 DEF First

\* As many lines as are of some kinds are reported, in order.
LEMMA EachReports ==
    ASSUME NEW text \in Seq(LineKinds), NEW adapter \in Protocols, NEW kinds
    PROVE  LET found == Each(adapter, text, kinds)
               lines == {k \in DOMAIN text : text[k] \in kinds}
           IN  /\ found \in Seq(Report)
               /\ Reports(found, adapter, lines)
               /\ found = <<>> <=> lines = {}
<1> DEFINE found == Each(adapter, text, kinds)
           lines == {k \in DOMAIN text : text[k] \in kinds}
           a == Ascending(lines)
           n == Cardinality(lines)
<1>1. lines \subseteq 1..Len(text) /\ Len(text) \in Nat
  OBVIOUS
<1>2. IsFiniteSet(lines) /\ lines \subseteq Nat /\ n \in Nat
  <2> HIDE DEF lines
  <2> QED BY <1>1, PlacesAreFinite
<1>3. /\ a \in [1..n -> lines]
      /\ \A x \in lines : \E k \in 1..n : a[k] = x
      /\ \A j, k \in 1..n : j < k <=> a[j] < a[k]
  <2> HIDE DEF lines
  <2> QED BY <1>2, AscendingIsInOrder
<1>4. found = [i \in DOMAIN a |-> Found(adapter, a[i])]
  BY DEF Each
<1> HIDE DEF found, a, n, lines
<1>5. DOMAIN a = 1..n /\ \A i \in 1..n : a[i] \in lines /\ a[i] \in Nat
  BY <1>2, <1>3
<1>6. \A i \in 1..n : /\ found[i] = Found(adapter, a[i]) /\ found[i] \in Report
                      /\ found[i].by = adapter /\ found[i].at = a[i]
  BY <1>4, <1>5 DEF Found, Report
<1>7. found \in [1..n -> Report] /\ DOMAIN found = 1..n
  <2>1. found = [i \in 1..n |-> found[i]]
    BY <1>4, <1>5
  <2> QED BY <1>6, <2>1
<1>8. found \in Seq(Report) /\ Len(found) = n
  BY <1>2, <1>7
<1>9. Reports(found, adapter, lines)
  BY <1>3, <1>5, <1>6, <1>7 DEF Reports
<1>10. found = <<>> <=> lines = {}
  <2>1. found = <<>> <=> n = 0
    BY <1>2, <1>8
  <2>2. lines = {} => n = 0
    BY FS_EmptySet DEF n
  <2>3. n = 0 => lines = {}
    BY <1>2, FS_EmptySet DEF n
  <2> QED BY <2>1, <2>2, <2>3
<1> QED BY <1>8, <1>9, <1>10 DEF found, lines

\* The TypeScript compiler's output.
LEMMA TypescriptIsComplete ==
    ASSUME NEW text \in Seq(LineKinds)
    PROVE  /\ Complete(ParseTypescript(text), text)
           /\ ParseTypescript(text).found # <<>> => ParseTypescript(text).found[1].by = "typescript"
           /\ ParseTypescript(text).error = "none" <=> Holds(text, {"ts"}) \/ IsBlank(text)
<1> DEFINE found == Each("typescript", text, {"ts"})
           lines == {k \in DOMAIN text : text[k] \in {"ts"}}
<1>1. /\ found \in Seq(Report) /\ Reports(found, "typescript", lines)
      /\ found = <<>> <=> lines = {}
  BY EachReports DEF Protocols
<1>2. lines = Reportable("typescript", text)
  BY DEF Reportable
<1>3. found = <<>> <=> ~Holds(text, {"ts"})
  BY <1>1 DEF Holds
<1> HIDE DEF lines, found
<1>4. CASE found = <<>> /\ ~IsBlank(text)
  <2>1. ParseTypescript(text) = Failure("parser")
    BY <1>4 DEF ParseTypescript, found
  <2>2. Failure("parser").error # "none"
    BY DEF Failure
  <2> QED BY <1>3, <1>4, <2>1, <2>2, FailuresAreComplete
<1>5. CASE found # <<>> \/ IsBlank(text)
  <2>1. ParseTypescript(text) = Success(found)
    BY <1>5 DEF ParseTypescript, found
  <2>2. found = <<>> => AllIsWell(text) \/ IsOverlooked(text)
    BY <1>5 DEF AllIsWell
  <2>3. Complete(Success(found), text)
    BY <1>1, <1>2, <2>2, ReportsAreComplete
  <2>4. Success(found).found = found /\ Success(found).error = "none"
    BY DEF Success
  <2>5. found # <<>> => 1 \in DOMAIN found
    BY <1>1
  <2>6. found # <<>> => found[1].by = "typescript"
    BY <1>1, <2>5 DEF Reports
  <2> QED BY <1>3, <1>5, <2>1, <2>3, <2>4, <2>6
<1> QED BY <1>4, <1>5

\* What Nushell prints, and what no other adapter takes.
LEMMA NushellIsComplete ==
    ASSUME NEW text \in Seq(LineKinds)
    PROVE  /\ Complete(ParseNushell(text), text)
           /\ ParseNushell(text).found # <<>> => ParseNushell(text).found[1].by = "nushell"
           /\ IsBlank(text) => ParseNushell(text) = Success(<<>>)
<1> DEFINE kinds == LineKinds \ {"blank"}
           found == Each("nushell", text, kinds)
           lines == {k \in DOMAIN text : text[k] \in kinds}
<1>0. \A k \in DOMAIN text : text[k] \in LineKinds
  OBVIOUS
<1>1. /\ found \in Seq(Report) /\ Reports(found, "nushell", lines)
      /\ found = <<>> <=> lines = {}
  <2> HIDE DEF kinds
  <2> QED BY EachReports DEF Protocols
<1>2. lines = Reportable("nushell", text)
  BY <1>0 DEF Reportable
<1>3. found = <<>> <=> IsBlank(text)
  BY <1>1 DEF IsBlank, Holds
<1> HIDE DEF lines, found, kinds
<1>4. ParseNushell(text) = Success(found)
  BY DEF ParseNushell, found, kinds
<1>5. found = <<>> => AllIsWell(text) \/ IsOverlooked(text)
  BY <1>3 DEF AllIsWell
<1>6. Complete(Success(found), text)
  BY <1>1, <1>2, <1>5, ReportsAreComplete
<1>7. Success(found).found = found
  BY DEF Success
<1>8. found # <<>> => 1 \in DOMAIN found
  BY <1>1
<1>9. found # <<>> => found[1].by = "nushell"
  BY <1>1, <1>8 DEF Reports
<1> QED BY <1>3, <1>4, <1>6, <1>7, <1>9

-----------------------------------------------------------------------------
\* A value is in some line.
LEMMA ValuesAreThere ==
    ASSUME NEW text \in Seq(LineKinds), JsonValue(text) # "invalid"
    PROVE  First(text) \in DOMAIN text
<1> DEFINE places == {k \in DOMAIN text : text[k] # "blank"}
           lines == Picked(text, places)
<1>1. places # {}
  <2> SUFFICES ASSUME places = {} PROVE FALSE
    OBVIOUS
  <2>1. Cardinality(places) = 0
    BY FS_EmptySet
  <2>2. lines = <<>>
    <3>1. lines = [k \in 1..Cardinality(places) |-> text[Ascending(places)[k]]]
      BY DEF Picked
    <3> HIDE DEF places, lines
    <3>2. lines = [k \in 1..0 |-> text[Ascending(places)[k]]]
      BY <2>1, <3>1
    <3> QED BY <3>2
  <2>3. JsonValue(text) = IF Len(lines) = 1 /\ lines[1] \in JsonLines THEN lines[1]
                          ELSE IF lines = <<"open", "end">> THEN "native"
                          ELSE "invalid"
    BY DEF JsonValue
  <2> HIDE DEF lines
  <2> QED BY <2>2, <2>3
<1>2. PICK l \in DOMAIN text : text[l] # "blank"
  BY <1>1
<1> QED BY <1>2, FirstIsThere

\* One report, at the first line.
LEMMA OneReport ==
    ASSUME NEW text \in Seq(LineKinds), NEW adapter \in {"aifix", "lsp"}, JsonValue(text) # "invalid"
    PROVE  Complete(Success(<<Found(adapter, First(text))>>), text)
<1> DEFINE line == Found(adapter, First(text))
           found == <<line>>
<1>1. First(text) \in DOMAIN text
  BY ValuesAreThere
<1>2. line.by = adapter /\ line.at = First(text)
  BY DEF Found
<1>3. Reportable(adapter, text) = {First(text)}
  BY <1>1 DEF Reportable
<1> HIDE DEF line
<1>4. found \in Seq({line}) /\ found # <<>> /\ DOMAIN found = {1} /\ found[1] = line
  OBVIOUS
<1> HIDE DEF found
<1>5. Reports(found, adapter, Reportable(adapter, text))
  BY <1>2, <1>3, <1>4 DEF Reports
<1>6. Complete(Success(found), text)
  BY <1>4, <1>5, ReportsAreComplete
<1> QED BY <1>6 DEF line, found

\* One JSON value.
LEMMA JsonIsComplete ==
    ASSUME NEW text \in Seq(LineKinds), NEW made,
           made \in {ParseAifix(text), ParseLsp(text), ParseCompleteJson(text)}
    PROVE  /\ Complete(made, text)
           /\ made.found # <<>> => made.found[1].by \in {"aifix", "lsp"}
<1>1. \/ \E error \in {"json", "parser"} : made = Failure(error)
      \/ JsonValue(text) \in {"clean", "published"} /\ made = Success(<<>>)
      \/ \E adapter \in {"aifix", "lsp"} :
            JsonValue(text) # "invalid" /\ made = Success(<<Found(adapter, First(text))>>)
  <2>1. \/ \E error \in {"json", "parser"} : ParseAifix(text) = Failure(error)
        \/ JsonValue(text) \in {"clean", "published"} /\ ParseAifix(text) = Success(<<>>)
        \/ JsonValue(text) # "invalid" /\ ParseAifix(text) = Success(<<Found("aifix", First(text))>>)
    BY DEF ParseAifix
  <2>2. \/ \E error \in {"json", "parser"} : ParseLsp(text) = Failure(error)
        \/ JsonValue(text) \in {"clean", "published"} /\ ParseLsp(text) = Success(<<>>)
        \/ JsonValue(text) # "invalid" /\ ParseLsp(text) = Success(<<Found("lsp", First(text))>>)
    BY DEF ParseLsp
  <2>3. made = ParseAifix(text) \/ made = ParseLsp(text)
    BY DEF ParseCompleteJson
  <2> QED BY <2>1, <2>2, <2>3
<1>2. CASE \E error \in {"json", "parser"} : made = Failure(error)
  BY <1>2, FailuresAreComplete
<1>3. ASSUME NEW adapter \in {"aifix", "lsp"}, JsonValue(text) # "invalid",
             made = Success(<<Found(adapter, First(text))>>)
      PROVE  Complete(made, text) /\ made.found[1].by \in {"aifix", "lsp"}
  <2>1. made.found[1].by = adapter
    BY <1>3 DEF Success, Found
  <2> QED BY <1>3, <2>1, OneReport
<1>4. CASE JsonValue(text) \in {"clean", "published"} /\ made = Success(<<>>)
  <2>1. AllIsWell(text)
    BY <1>4 DEF AllIsWell
  <2>2. made.found = <<>>
    BY <1>4 DEF Success
  <2> QED BY <2>1, <2>2 DEF Complete
<1> QED BY <1>1, <1>2, <1>3, <1>4

-----------------------------------------------------------------------------
\* The lines that belong to the header at a line, of the first n.
Under(text, n, at) ==
    {k \in 1..n : /\ text[k] \notin {"header", "status"} /\ at < k
                  /\ \A h \in 1..n : text[h] = "header" /\ h < k => h <= at}

\* What the headers of Agda's first n lines have got.
HasTaken(found, text, n) ==
    /\ Reports(found, "agda", Upto(n, text, {"header"}))
    /\ \A i \in DOMAIN found : found[i].body = Under(text, n, found[i].at)

LEMMA AgdaLineType ==
    ASSUME NEW found \in Seq(Report), NEW k \in Nat, NEW kind
    PROVE  AgdaLine(found, k, kind) \in Seq(Report)
<1>1. CASE kind = "header"
  <2>1. Found("agda", k) \in Report
    BY DEF Found, Report, Protocols
  <2>2. AgdaLine(found, k, kind) = Append(found, Found("agda", k))
    BY <1>1 DEF AgdaLine
  <2> QED BY <2>1, <2>2
<1>2. CASE kind # "header" /\ (kind = "status" \/ found = <<>>)
  BY <1>2 DEF AgdaLine
<1>3. CASE kind # "header" /\ kind # "status" /\ found # <<>>
  <2> DEFINE m == Len(found)
             new == [found[m] EXCEPT !.body = @ \cup {k}]
  <2>1. m \in DOMAIN found /\ found[m] \in Report
    BY <1>3
  <2>2. new \in Report
    BY <2>1 DEF Report
  <2>3. AgdaLine(found, k, kind) = [found EXCEPT ![m] = new]
    BY <1>3, <2>1 DEF AgdaLine
  <2> HIDE DEF m, new
  <2> QED BY <2>1, <2>2, <2>3
<1> QED BY <1>1, <1>2, <1>3

\* The lines under a header after one more line.
LEMMA OneMoreUnder ==
    ASSUME NEW text \in Seq(LineKinds), NEW n \in 1..Len(text), NEW at \in 1..(n - 1)
    PROVE  \A k : k \in Under(text, n, at) <=>
              \/ k \in Under(text, n - 1, at)
              \/ /\ k = n /\ text[n] \notin {"header", "status"}
                 /\ \A h \in 1..(n - 1) : text[h] = "header" => h <= at
<1>1. \A k : k \in 1..n <=> k \in 1..(n - 1) \/ k = n
  OBVIOUS
<1>2. /\ \A k \in 1..(n - 1) : ~(n < k) /\ k < n
      /\ at < n /\ ~(n < n)
  OBVIOUS
<1> QED BY <1>1, <1>2 DEF Under

LEMMA AgdaLineKeeps ==
    ASSUME NEW text \in Seq(LineKinds), NEW n \in 1..Len(text), NEW found \in Seq(Report),
           HasTaken(found, text, n - 1)
    PROVE  HasTaken(AgdaLine(found, n, text[n]), text, n)
<1> DEFINE lines == Upto(n - 1, text, {"header"})
           more == Upto(n, text, {"header"})
           new == AgdaLine(found, n, text[n])
<1>1. /\ \A k : k \in more <=> k \in lines \/ (k = n /\ text[n] = "header")
      /\ \A k \in lines : k < n
  BY OneMoreLine
<1>2. lines \subseteq 1..(n - 1) /\ \A k \in 1..(n - 1) : text[k] = "header" <=> k \in lines
  BY DEF Upto
<1>3. /\ Reports(found, "agda", lines)
      /\ \A i \in DOMAIN found : found[i].body = Under(text, n - 1, found[i].at)
  BY DEF HasTaken
<1> HIDE DEF lines
<1>4. \A i \in DOMAIN found : found[i].at \in 1..(n - 1)
  BY <1>2, <1>3 DEF Reports
<1>5. CASE text[n] = "header"
  <2> DEFINE line == Found("agda", n)
  <2>1. line \in Report /\ line.by = "agda" /\ line.at = n /\ line.body = {}
    <3>1. n \in Nat
      OBVIOUS
    <3> QED BY <3>1 DEF Found, Report, Protocols
  <2>2. new = Append(found, line)
    BY <1>5 DEF AgdaLine
  <2> HIDE DEF line, new, more
  <2>3. Reports(new, "agda", more)
    BY <1>1, <1>3, <1>5, <2>1, <2>2, OneMoreReport
  <2>4. ASSUME NEW i \in DOMAIN new PROVE new[i].body = Under(text, n, new[i].at)
    <3>1. (i \in DOMAIN found /\ new[i] = found[i]) \/ new[i] = line
      BY <2>2
    <3>2. CASE i \in DOMAIN found /\ new[i] = found[i]
      <4>1. \A k : k \in Under(text, n, found[i].at) <=> k \in Under(text, n - 1, found[i].at)
        BY <1>4, <1>5, <3>2, OneMoreUnder
      <4>2. Under(text, n, found[i].at) = Under(text, n - 1, found[i].at)
        BY <4>1
      <4> QED BY <1>3, <3>2, <4>2
    <3>3. CASE new[i] = line
      <4>1. \A k : k \notin Under(text, n, n)
        BY DEF Under
      <4>2. Under(text, n, n) = {}
        BY <4>1
      <4> QED BY <2>1, <3>3, <4>2
    <3> QED BY <3>1, <3>2, <3>3
  <2>5. HasTaken(new, text, n)
    BY <2>3, <2>4 DEF HasTaken, more
  <2> QED BY <2>5 DEF new
<1>6. CASE text[n] # "header"
  <2>1. more = lines
    <3>1. \A k : k \in more <=> k \in lines
      BY <1>1, <1>6
    <3> HIDE DEF more
    <3> QED BY <3>1
  <2> HIDE DEF more
  <2>2. CASE text[n] = "status" \/ found = <<>>
    <3>1. new = found
      BY <1>6, <2>2 DEF AgdaLine
    <3>2. ASSUME NEW i \in DOMAIN found PROVE found[i].body = Under(text, n, found[i].at)
      <4>1. text[n] = "status"
        BY <2>2
      <4>2. \A k : k \in Under(text, n, found[i].at) <=> k \in Under(text, n - 1, found[i].at)
        BY <1>4, <4>1, OneMoreUnder
      <4>3. Under(text, n, found[i].at) = Under(text, n - 1, found[i].at)
        BY <4>2
      <4> QED BY <1>3, <4>3
    <3> HIDE DEF new
    <3>3. HasTaken(new, text, n)
      BY <1>3, <2>1, <3>1, <3>2 DEF HasTaken, more
    <3> QED BY <3>3 DEF new
  <2>3. CASE text[n] # "status" /\ found # <<>>
    <3> DEFINE m == Len(found)
    <3>1. /\ m \in DOMAIN found /\ m \in Nat /\ DOMAIN found = 1..m
          /\ \A i \in DOMAIN found : i \in Int /\ i <= m
      BY <2>3
    <3>2. new = [found EXCEPT ![m].body = @ \cup {n}]
      BY <1>6, <2>3 DEF AgdaLine
    <3>3. /\ DOMAIN new = DOMAIN found
          /\ \A i \in DOMAIN found :
                /\ new[i].by = found[i].by /\ new[i].at = found[i].at
                /\ i # m => new[i].body = found[i].body
          /\ new[m].body = found[m].body \cup {n}
      <4>0. \A i \in DOMAIN found : found[i] \in Report
        OBVIOUS
      <4> HIDE DEF new, m
      <4> QED BY <3>1, <3>2, <4>0 DEF Report
    <3> HIDE DEF new, m
    <3>4. Reports(new, "agda", more)
      <4>1. /\ \A i \in DOMAIN found : found[i].by = "agda" /\ found[i].at \in lines
            /\ \A k \in lines : \E i \in DOMAIN found : found[i].at = k
            /\ \A i, j \in DOMAIN found : i < j => found[i].at < found[j].at
        BY <1>3 DEF Reports
      <4>2. \A i \in DOMAIN new : new[i].by = "agda" /\ new[i].at \in more
        BY <2>1, <3>3, <4>1
      <4>3. \A k \in more : \E i \in DOMAIN new : new[i].at = k
        BY <2>1, <3>3, <4>1
      <4>4. \A i, j \in DOMAIN new : i < j => new[i].at < new[j].at
        BY <3>3, <4>1
      <4> QED BY <4>2, <4>3, <4>4 DEF Reports
    <3>5. \A h \in lines : h <= found[m].at
      <4> SUFFICES ASSUME NEW h \in lines PROVE h <= found[m].at
        OBVIOUS
      <4>1. PICK j \in DOMAIN found : found[j].at = h
        BY <1>3 DEF Reports
      <4>2. j = m \/ found[j].at < found[m].at
        BY <1>3, <3>1 DEF Reports
      <4>3. found[j].at \in Int /\ found[m].at \in Int
        BY <1>4, <3>1
      <4> QED BY <4>1, <4>2, <4>3
    <3>6. ASSUME NEW i \in DOMAIN found PROVE new[i].body = Under(text, n, new[i].at)
      <4>1. \A k : k \in Under(text, n, found[i].at) <=>
               \/ k \in found[i].body
               \/ k = n /\ \A h \in lines : h <= found[i].at
        <5>1. \A k : k \in Under(text, n, found[i].at) <=>
                 \/ k \in Under(text, n - 1, found[i].at)
                 \/ /\ k = n /\ text[n] \notin {"header", "status"}
                    /\ \A h \in 1..(n - 1) : text[h] = "header" => h <= found[i].at
          BY <1>4, OneMoreUnder
        <5>2. (\A h \in 1..(n - 1) : text[h] = "header" => h <= found[i].at)
                 <=> \A h \in lines : h <= found[i].at
          BY <1>2
        <5> QED BY <1>3, <1>6, <2>3, <5>1, <5>2
      <4>2. CASE i = m
        <5>1. \A k : k \in Under(text, n, found[i].at) <=> k \in found[i].body \cup {n}
          BY <3>5, <4>1, <4>2
        <5>2. Under(text, n, found[i].at) = found[i].body \cup {n}
          BY <5>1
        <5> QED BY <3>3, <4>2, <5>2
      <4>3. CASE i # m
        <5>1. found[m].at \in lines /\ ~(found[m].at <= found[i].at)
          <6>1. found[i].at < found[m].at
            BY <1>3, <3>1, <4>3 DEF Reports
          <6>2. found[i].at \in Int /\ found[m].at \in Int
            BY <1>4, <3>1
          <6> QED BY <1>3, <3>1, <6>1, <6>2 DEF Reports
        <5>2. \A k : k \in Under(text, n, found[i].at) <=> k \in found[i].body
          BY <4>1, <5>1
        <5>3. Under(text, n, found[i].at) = found[i].body
          BY <5>2
        <5> QED BY <3>3, <4>3, <5>3
      <4> QED BY <4>2, <4>3
    <3>7. HasTaken(new, text, n)
      BY <3>3, <3>4, <3>6 DEF HasTaken, more
    <3> QED BY <3>7 DEF new
  <2> QED BY <2>2, <2>3
<1> QED BY <1>5, <1>6

\* ParseAgda ends with the diagnostics of every line.
LEMMA AgdaTakesAll ==
    ASSUME NEW text \in Seq(LineKinds)
    PROVE  \E found \in Seq(Report) :
              /\ HasTaken(found, text, Len(text))
              /\ ParseAgda(text) =
                    IF found = <<>> /\ Holds(text, LineKinds \ {"blank", "status"}) THEN Failure("parser")
                    ELSE Success(found)
<1> DEFINE N == Len(text)
           V == Seq(Report)
           b == <<>>
           step(v, k) == AgdaLine(v, k, text[k])
           g == [k \in 1..N |-> [v \in V |-> step(v, k)]]
           seq == [k \in DOMAIN text |-> k]
           inv == [n \in 0..N |-> {v \in V : HasTaken(v, text, n)}]
<1>1. N \in Nat /\ b \in V
  OBVIOUS
<1>2. HasTaken(b, text, 0)
  BY DEF HasTaken, Reports, Upto
<1>3. \A k \in 1..N : k \in Nat
  OBVIOUS
<1>4. \A v \in V : \A k \in 1..N : step(v, k) \in V
  BY <1>3, AgdaLineType
<1>5. PICK h : IsTrace(h, N, b, g, V) /\ FoldLeft(step, b, seq) = h[N]
  <2> HIDE DEF b, V
  <2> QED BY <1>1, <1>4, AgdaFold
<1>6. b \in inv[0]
  BY <1>1, <1>2
<1>7. Preserves(inv, N, g, V)
  <2> SUFFICES ASSUME NEW n \in 1..N, NEW v \in V, v \in inv[n - 1] PROVE g[n][v] \in inv[n]
    BY DEF Preserves
  <2>1. n - 1 \in 0..N /\ n \in 0..N
    BY <1>1
  <2>2. HasTaken(v, text, n - 1)
    BY <2>1
  <2>3. HasTaken(step(v, n), text, n)
    BY <2>2, AgdaLineKeeps
  <2> QED BY <1>4, <2>1, <2>3
<1>8. h[N] \in V /\ h[N] \in inv[N]
  <2> HIDE DEF inv, g, b, V, N, seq, step
  <2> QED BY <1>1, <1>5, <1>6, <1>7, TraceInduction
<1>9. HasTaken(h[N], text, N)
  BY <1>1, <1>8
<1>10. ParseAgda(text) =
          IF h[N] = <<>> /\ Holds(text, LineKinds \ {"blank", "status"}) THEN Failure("parser")
          ELSE Success(h[N])
  BY <1>5 DEF ParseAgda
<1> QED BY <1>8, <1>9, <1>10

\* Agda's text after the first header is in one message each.
InOneMessage(found, text) ==
    \A k \in DOMAIN text :
        k > found[1].at /\ text[k] \notin {"header", "status"} =>
            {found[i].at : i \in {j \in DOMAIN found : k \in found[j].body}} =
               {Max({h \in 1..k : text[h] = "header"})}

\* Agda's output.
LEMMA AgdaIsComplete ==
    ASSUME NEW text \in Seq(LineKinds)
    PROVE  LET made == ParseAgda(text)
           IN  /\ Complete(made, text)
               /\ made.found # <<>> => made.found[1].by = "agda" /\ InOneMessage(made.found, text)
<1> DEFINE made == ParseAgda(text)
           bad == Holds(text, LineKinds \ {"blank", "status"})
<1>1. PICK found \in Seq(Report) :
          /\ HasTaken(found, text, Len(text))
          /\ made = IF found = <<>> /\ bad THEN Failure("parser") ELSE Success(found)
  BY AgdaTakesAll
<1>2. Reports(found, "agda", Reportable("agda", text))
  <2>1. Reportable("agda", text) = Upto(Len(text), text, {"header"})
    BY DEF Reportable, Upto
  <2> QED BY <1>1, <2>1 DEF HasTaken
<1>3. CASE found = <<>> /\ bad
  <2>1. made = Failure("parser")
    BY <1>1, <1>3
  <2> HIDE DEF made
  <2>2. Complete(made, text) /\ made.found = <<>>
    BY <2>1, FailuresAreComplete
  <2> QED BY <2>2 DEF made
<1>4. CASE ~(found = <<>> /\ bad)
  <2>1. made = Success(found)
    BY <1>1, <1>4
  <2>2. found = <<>> => AllIsWell(text) \/ IsOverlooked(text)
    BY <1>4 DEF AllIsWell
  <2>3. Complete(Success(found), text)
    BY <1>2, <2>2, ReportsAreComplete
  <2>4. Success(found).found = found
    BY DEF Success
  <2>5. found # <<>> => 1 \in DOMAIN found
    OBVIOUS
  <2>6. found # <<>> => found[1].by = "agda"
    BY <1>2, <2>5 DEF Reports
  <2>7. ASSUME found # <<>>, NEW k \in DOMAIN text, k > found[1].at,
               text[k] \notin {"header", "status"}
        PROVE  {found[i].at : i \in {j \in DOMAIN found : k \in found[j].body}} =
                  {Max({h \in 1..k : text[h] = "header"})}
    <3> DEFINE S == {h \in 1..k : text[h] = "header"}
               M == Max(S)
    <3>1. DOMAIN text = 1..Len(text) /\ k \in Nat /\ k <= Len(text)
      OBVIOUS
    <3>2. \A j \in DOMAIN found : found[j].at \in 1..Len(text) /\ text[found[j].at] = "header"
      BY <1>2, <3>1 DEF Reports, Reportable
    <3>3. \A h \in 1..Len(text) : text[h] = "header" => \E j \in DOMAIN found : found[j].at = h
      BY <1>2, <3>1 DEF Reports, Reportable
    <3>4. found[1].at \in S
      BY <2>5, <2>7, <3>2
    <3>5. M \in S /\ \A h \in S : h <= M
      <4>1. S \in SUBSET (1..k) /\ S # {}
        BY <3>4
      <4> HIDE DEF S
      <4> QED BY <3>1, <4>1, GreatestIsIn
    <3>6. \A j \in DOMAIN found : found[j].body = Under(text, Len(text), found[j].at)
      BY <1>1 DEF HasTaken
    <3> HIDE DEF M
    <3>7. M \in 1..Len(text) /\ text[M] = "header" /\ M <= k /\ M # k
      BY <2>7, <3>1, <3>5
    <3>8. PICK i \in DOMAIN found : found[i].at = M
      BY <3>3, <3>7
    <3>9. k \in found[i].body
      <4>1. M < k
        BY <3>1, <3>7
      <4>2. \A h \in 1..Len(text) : text[h] = "header" /\ h < k => h <= M
        BY <3>1, <3>5
      <4> QED BY <2>7, <3>1, <3>6, <3>8, <4>1, <4>2 DEF Under
    <3>10. ASSUME NEW j \in DOMAIN found, k \in found[j].body PROVE found[j].at = M
      <4>1. found[j].at < k /\ \A h \in 1..Len(text) : text[h] = "header" /\ h < k => h <= found[j].at
        BY <3>6, <3>10 DEF Under
      <4>2. M <= found[j].at
        BY <3>1, <3>7, <4>1
      <4>3. found[j].at \in S
        BY <3>1, <3>2, <4>1
      <4>4. found[j].at <= M /\ found[j].at \in Int /\ M \in Int
        BY <3>2, <3>5, <3>7, <4>3
      <4> QED BY <4>2, <4>4
    <3> HIDE DEF S
    <3>11. {found[j].at : j \in {l \in DOMAIN found : k \in found[l].body}} = {M}
      BY <3>8, <3>9, <3>10
    <3> QED BY <3>11 DEF M, S
  <2>8. found # <<>> => InOneMessage(found, text)
    BY <2>7 DEF InOneMessage
  <2> HIDE DEF made
  <2>9. Complete(made, text) /\ (made.found # <<>> => made.found[1].by = "agda" /\ InOneMessage(made.found, text))
    BY <2>1, <2>3, <2>4, <2>6, <2>8
  <2> QED BY <2>9 DEF made
<1> QED BY <1>3, <1>4

-----------------------------------------------------------------------------
\* What ReportIsComplete asks of one reading.
Whole(made, text) ==
    /\ Complete(made, text)
    /\ made.found # <<>> /\ made.found[1].by = "agda" => InOneMessage(made.found, text)

\* Each adapter's reading.
LEMMA AdaptersAreWhole ==
    ASSUME NEW text \in Seq(LineKinds), NEW adapter \in (Protocols \ {"auto"}) \cup {"json"}
    PROVE  Whole(Parse(adapter, text), text)
<1>1. CASE adapter = "clippy"
  <2>1. Parse(adapter, text) = ParseClippy(text)
    BY <1>1 DEF Parse
  <2> QED BY <2>1, ClippyIsComplete DEF Whole
<1>2. CASE adapter = "agda"
  <2>1. Parse(adapter, text) = ParseAgda(text)
    BY <1>2 DEF Parse
  <2> QED BY <2>1, AgdaIsComplete DEF Whole
<1>3. CASE adapter = "typescript"
  <2>1. Parse(adapter, text) = ParseTypescript(text)
    BY <1>3 DEF Parse
  <2> QED BY <2>1, TypescriptIsComplete DEF Whole
<1>4. CASE adapter = "nushell"
  <2>1. Parse(adapter, text) = ParseNushell(text)
    BY <1>4 DEF Parse
  <2> QED BY <2>1, NushellIsComplete DEF Whole
<1>5. CASE adapter \in {"aifix", "lsp", "json"}
  <2> DEFINE made == Parse(adapter, text)
  <2>1. made \in {ParseAifix(text), ParseLsp(text), ParseCompleteJson(text)}
    BY <1>5 DEF Parse
  <2> HIDE DEF made
  <2>2. Complete(made, text) /\ (made.found # <<>> => made.found[1].by \in {"aifix", "lsp"})
    BY <2>1, JsonIsComplete
  <2>3. Whole(made, text)
    BY <2>2 DEF Whole
  <2> QED BY <2>3 DEF made
<1> QED BY <1>1, <1>2, <1>3, <1>4, <1>5 DEF Protocols

\* A capture is read by the adapter that reads the string.
LEMMA CapturesAreReadAlike ==
    ASSUME NEW text \in Seq(LineKinds)
    PROVE  /\ ParseAuto(text) = Parse(Detect(text), text)
           /\ Detect(text) \in {"clippy", "json", "agda", "typescript", "nushell"}
<1>1. CASE IsBlank(text)
  <2>1. \A k \in DOMAIN text : text[k] = "blank"
    <3>1. \A k \in DOMAIN text : text[k] \in LineKinds
      OBVIOUS
    <3> QED BY <1>1, <3>1 DEF IsBlank, Holds
  <2>2. ~Holds(text, CargoLines) /\ ~Holds(text, {"header", "status"}) /\ ~Holds(text, {"ts"})
    BY <2>1 DEF Holds, CargoLines
  <2>3. Detect(text) = "nushell"
    BY <1>1, <2>2 DEF Detect
  <2>4. Parse("nushell", text) = ParseNushell(text)
    BY DEF Parse
  <2>5. ParseAuto(text) = Success(<<>>)
    BY <1>1, <2>2 DEF ParseAuto
  <2> QED BY <1>1, <2>3, <2>4, <2>5, NushellIsComplete
<1>2. CASE ~IsBlank(text) /\ Holds(text, CargoLines)
  <2>1. ParseAuto(text) = ParseClippy(text) /\ Detect(text) = "clippy"
    BY <1>2 DEF ParseAuto, Detect
  <2>2. Parse("clippy", text) = ParseClippy(text)
    BY DEF Parse
  <2> QED BY <2>1, <2>2
<1>3. CASE ~IsBlank(text) /\ ~Holds(text, CargoLines)
  <2>1. ParseAuto(text) = IF text[First(text)] \in BraceLines THEN ParseCompleteJson(text)
                          ELSE IF Holds(text, {"header", "status"}) THEN ParseAgda(text)
                          ELSE IF ParseTypescript(text).error = "none" THEN ParseTypescript(text)
                          ELSE ParseNushell(text)
    BY <1>3 DEF ParseAuto
  <2>2. Detect(text) = IF text[First(text)] \in BraceLines THEN "json"
                       ELSE IF Holds(text, {"header", "status"}) THEN "agda"
                       ELSE IF Holds(text, {"ts"}) THEN "typescript"
                       ELSE "nushell"
    BY <1>3 DEF Detect
  <2>3. ParseTypescript(text).error = "none" <=> Holds(text, {"ts"})
    BY <1>3, TypescriptIsComplete
  <2>4. /\ Parse("json", text) = ParseCompleteJson(text)
        /\ Parse("agda", text) = ParseAgda(text)
        /\ Parse("typescript", text) = ParseTypescript(text)
        /\ Parse("nushell", text) = ParseNushell(text)
    BY DEF Parse
  <2> QED BY <2>1, <2>2, <2>3, <2>4
<1> QED BY <1>1, <1>2, <1>3

\* Every reading of a tool's output is complete: ReportIsComplete, for every text and
\* every protocol a profile may name.
THEOREM ReportsAreWhole ==
    ASSUME NEW text \in Seq(LineKinds), NEW protocol \in Protocols
    PROVE  ReportIsComplete(protocol, text)
<1> DEFINE made == Replay(protocol, text)
<1>1. made = Parse(protocol, text)
  <2>1. Parse("auto", text) = ParseAuto(text)
    BY DEF Parse
  <2> QED BY <2>1, CapturesAreReadAlike DEF Replay
<1>2. \E adapter \in (Protocols \ {"auto"}) \cup {"json"} : made = Parse(adapter, text)
  BY CapturesAreReadAlike DEF Replay, Protocols
<1> HIDE DEF made
<1>3. Whole(made, text)
  BY <1>2, AdaptersAreWhole
<1>4. ASSUME made.found # <<>>, NEW k \in DOMAIN text,
             made.found[1].by = "agda" /\ k > made.found[1].at, text[k] \notin {"header", "status"}
      PROVE  {made.found[i].at : i \in {j \in DOMAIN made.found : k \in made.found[j].body}} =
                {Max({h \in 1..k : text[h] = "header"})}
  BY <1>3, <1>4 DEF Whole, InOneMessage
<1>5. /\ made.found # <<>> =>
            /\ {made.found[i].at : i \in DOMAIN made.found} = Reportable(made.found[1].by, text)
            /\ \A i, j \in DOMAIN made.found : i < j => made.found[i].at < made.found[j].at
      /\ made = Success(<<>>) => AllIsWell(text) \/ IsOverlooked(text)
  BY <1>3 DEF Whole, Complete
<1> QED BY <1>1, <1>4, <1>5 DEF ReportIsComplete, made

-----------------------------------------------------------------------------
(***************************************************************************)
(* Digests.                                                                *)
(***************************************************************************)

\* Diagnostics are kept one after the other.
LEMMA KeepFold ==
    ASSUME NEW list \in Seq(Diagnostic), NEW V, NEW b \in V,
           \A v \in V : \A d \in Diagnostic : Keep(v, d) \in V
    PROVE  LET step(v, d) == Keep(v, d)
               g == [k \in 1..Len(list) |-> [v \in V |-> step(v, list[k])]]
           IN  \E h : /\ IsTrace(h, Len(list), b, g, V)
                      /\ FoldLeft(Keep, b, list) = h[Len(list)]
<1> DEFINE N == Len(list)
           step(v, d) == Keep(v, d)
           g == [k \in 1..N |-> [v \in V |-> step(v, list[k])]]
           Is(it) == it = [d \in SUBSET DOMAIN list |->
                              IF d = {} THEN b ELSE step(it[d \ {Max(d)}], list[Max(d)])]
           it == CHOOSE f : Is(f)
           h == [n \in 0..N |-> it[1..n]]
<1>1. FoldLeft(Keep, b, list) = it[DOMAIN list]
  BY DEF FoldLeft, MapThenFoldSet
<1>2. /\ N \in Nat /\ DOMAIN list = 1..N /\ g \in [1..N -> [V -> V]]
      /\ \A k \in 1..N : list[k] \in Diagnostic /\ \A v \in V : g[k][v] = step(v, list[k])
  OBVIOUS
<1> HIDE DEF N, g, step
<1>3. \A d \in SUBSET (1..N) : d # {} => Max(d) \in 1..N
  BY <1>2, GreatestIsIn
<1>4. \E f : Is(f)
  <2>1. PICK f \in [SUBSET (1..N) -> V] : TakesIn(f, N, b, g)
    BY <1>2, FoldExists
  <2>2. \A d \in SUBSET (1..N) : d # {} => f[d] = step(f[d \ {Max(d)}], list[Max(d)])
    BY <1>2, <1>3, <2>1 DEF TakesIn
  <2>3. f[{}] = b
    BY <2>1 DEF TakesIn
  <2>4. Is(f)
    BY <1>2, <2>2, <2>3
  <2> QED BY <2>4
<1>5. Is(it)
  <2> HIDE DEF Is
  <2> QED BY <1>4
<1> HIDE DEF it
<1>6. Follows(it, N, b, g, V)
  <2>1. it[{}] = b /\ \A d \in SUBSET (1..N) : d # {} => it[d] = step(it[d \ {Max(d)}], list[Max(d)])
    BY <1>2, <1>5
  <2> HIDE DEF Is, h
  <2>2. ASSUME NEW d \in SUBSET (1..N), d # {}, it[d \ {Max(d)}] \in V
        PROVE  it[d] = g[Max(d)][it[d \ {Max(d)}]]
    <3>1. Max(d) \in 1..N
      BY <1>3, <2>2
    <3>2. it[d] = step(it[d \ {Max(d)}], list[Max(d)])
      BY <2>1, <2>2
    <3>3. g[Max(d)][it[d \ {Max(d)}]] = step(it[d \ {Max(d)}], list[Max(d)])
      BY <1>2, <2>2, <3>1
    <3> QED BY <3>2, <3>3
  <2> QED BY <2>1, <2>2 DEF Follows
<1>7. IsTrace(h, N, b, g, V)
  BY <1>2, <1>6, FoldTrace
<1>8. h[N] = it[DOMAIN list]
  BY <1>2
<1> HIDE DEF h
<1> QED BY <1>1, <1>7, <1>8 DEF N, step, g

\* Diagnostics are gathered in groups one after the other.
LEMMA GatherFold ==
    ASSUME NEW list \in Seq(Diagnostic), NEW limit \in Nat, NEW V, NEW b \in V,
           \A v \in V : \A d \in Diagnostic : Gather(v, d, limit) \in V
    PROVE  LET step(v, d) == Gather(v, d, limit)
               g == [k \in 1..Len(list) |-> [v \in V |-> step(v, list[k])]]
           IN  \E h : /\ IsTrace(h, Len(list), b, g, V)
                      /\ FoldLeft(step, b, list) = h[Len(list)]
<1> DEFINE N == Len(list)
           step(v, d) == Gather(v, d, limit)
           g == [k \in 1..N |-> [v \in V |-> step(v, list[k])]]
           Is(it) == it = [d \in SUBSET DOMAIN list |->
                              IF d = {} THEN b ELSE step(it[d \ {Max(d)}], list[Max(d)])]
           it == CHOOSE f : Is(f)
           h == [n \in 0..N |-> it[1..n]]
<1>1. FoldLeft(step, b, list) = it[DOMAIN list]
  BY DEF FoldLeft, MapThenFoldSet
<1>2. /\ N \in Nat /\ DOMAIN list = 1..N /\ g \in [1..N -> [V -> V]]
      /\ \A k \in 1..N : list[k] \in Diagnostic /\ \A v \in V : g[k][v] = step(v, list[k])
  OBVIOUS
<1> HIDE DEF N, g, step
<1>3. \A d \in SUBSET (1..N) : d # {} => Max(d) \in 1..N
  BY <1>2, GreatestIsIn
<1>4. \E f : Is(f)
  <2>1. PICK f \in [SUBSET (1..N) -> V] : TakesIn(f, N, b, g)
    BY <1>2, FoldExists
  <2>2. \A d \in SUBSET (1..N) : d # {} => f[d] = step(f[d \ {Max(d)}], list[Max(d)])
    BY <1>2, <1>3, <2>1 DEF TakesIn
  <2>3. f[{}] = b
    BY <2>1 DEF TakesIn
  <2>4. Is(f)
    BY <1>2, <2>2, <2>3
  <2> QED BY <2>4
<1>5. Is(it)
  <2> HIDE DEF Is
  <2> QED BY <1>4
<1> HIDE DEF it
<1>6. Follows(it, N, b, g, V)
  <2>1. it[{}] = b /\ \A d \in SUBSET (1..N) : d # {} => it[d] = step(it[d \ {Max(d)}], list[Max(d)])
    BY <1>2, <1>5
  <2> HIDE DEF Is, h
  <2>2. ASSUME NEW d \in SUBSET (1..N), d # {}, it[d \ {Max(d)}] \in V
        PROVE  it[d] = g[Max(d)][it[d \ {Max(d)}]]
    <3>1. Max(d) \in 1..N
      BY <1>3, <2>2
    <3>2. it[d] = step(it[d \ {Max(d)}], list[Max(d)])
      BY <2>1, <2>2
    <3>3. g[Max(d)][it[d \ {Max(d)}]] = step(it[d \ {Max(d)}], list[Max(d)])
      BY <1>2, <2>2, <3>1
    <3> QED BY <3>2, <3>3
  <2> QED BY <2>1, <2>2 DEF Follows
<1>7. IsTrace(h, N, b, g, V)
  BY <1>2, <1>6, FoldTrace
<1>8. h[N] = it[DOMAIN list]
  BY <1>2
<1> HIDE DEF h
<1> QED BY <1>1, <1>7, <1>8 DEF N, step, g

-----------------------------------------------------------------------------
Identities == {Identity(d) : d \in Diagnostic}
Prints == {Fingerprint(i) : i \in Identities}

\* Buckets of identities, and the state of a run that drops repetitions.
Buckets == UNION {[F -> SUBSET Identities] : F \in SUBSET Prints}
KeepState == [kept: Seq(Diagnostic), buckets: Buckets]

LEMMA BucketsAre ==
    ASSUME NEW buckets
    PROVE  buckets \in Buckets <=>
              /\ buckets = [f \in DOMAIN buckets |-> buckets[f]]
              /\ DOMAIN buckets \subseteq Prints
              /\ \A f \in DOMAIN buckets : buckets[f] \subseteq Identities
<1>1. ASSUME buckets \in Buckets
      PROVE  /\ buckets = [f \in DOMAIN buckets |-> buckets[f]]
             /\ DOMAIN buckets \subseteq Prints
             /\ \A f \in DOMAIN buckets : buckets[f] \subseteq Identities
  <2>1. PICK F \in SUBSET Prints : buckets \in [F -> SUBSET Identities]
    BY <1>1 DEF Buckets
  <2> QED BY <2>1
<1>2. ASSUME buckets = [f \in DOMAIN buckets |-> buckets[f]],
             DOMAIN buckets \subseteq Prints,
             \A f \in DOMAIN buckets : buckets[f] \subseteq Identities
      PROVE  buckets \in Buckets
  <2>1. buckets \in [DOMAIN buckets -> SUBSET Identities]
    BY <1>2
  <2>2. DOMAIN buckets \in SUBSET Prints
    BY <1>2
  <2> QED BY <2>1, <2>2 DEF Buckets
<1> QED BY <1>1, <1>2

\* An identity is seen once it is put into the bucket of its fingerprint, and no other is.
LEMMA PutIsSeen ==
    ASSUME NEW buckets \in Buckets, NEW d \in Diagnostic
    PROVE  LET f == Fingerprint(Identity(d))
               bucket == IF f \in DOMAIN buckets THEN buckets[f] ELSE {}
               new == Put(buckets, {f}, bucket \cup {Identity(d)})
           IN  /\ new \in Buckets
               /\ \A e \in Diagnostic : Seen(new, e) <=> Seen(buckets, e) \/ Identity(e) = Identity(d)
<1> DEFINE id == Identity(d)
           f == Fingerprint(id)
           bucket == IF f \in DOMAIN buckets THEN buckets[f] ELSE {}
           new == Put(buckets, {f}, bucket \cup {id})
<1>1. id \in Identities /\ f \in Prints
  BY DEF Identities, Prints
<1>2. DOMAIN buckets \subseteq Prints /\ \A k \in DOMAIN buckets : buckets[k] \subseteq Identities
  BY BucketsAre
<1>3. /\ DOMAIN new = DOMAIN buckets \cup {f}
      /\ new = [k \in DOMAIN new |-> new[k]]
      /\ new[f] = bucket \cup {id}
      /\ \A k \in DOMAIN new : k # f => new[k] = buckets[k]
  <2> HIDE DEF f, id, bucket
  <2> QED BY DEF Put
<1>4. bucket \subseteq Identities
  BY <1>2
<1>5. \A i : f \in DOMAIN buckets /\ i \in buckets[f] <=> i \in bucket
  <2> HIDE DEF f
  <2> QED OBVIOUS
<1> HIDE DEF new, bucket
<1>6. new \in Buckets
  <2>1. DOMAIN new \subseteq Prints
    BY <1>1, <1>2, <1>3
  <2>2. \A k \in DOMAIN new : new[k] \subseteq Identities
    <3> HIDE DEF f, id
    <3> QED BY <1>1, <1>2, <1>3, <1>4
  <2>3. new = [k \in DOMAIN new |-> new[k]]
    BY <1>3
  <2> QED BY <2>1, <2>2, <2>3, BucketsAre
<1>7. ASSUME NEW e \in Diagnostic
      PROVE  Seen(new, e) <=> Seen(buckets, e) \/ Identity(e) = id
  <2> DEFINE i == Identity(e)
  <2>1. CASE Fingerprint(i) = f
    <3>1. Seen(new, e) <=> i \in bucket \cup {id}
      BY <1>3, <2>1 DEF Seen
    <3>2. Seen(buckets, e) <=> i \in bucket
      BY <1>5, <2>1 DEF Seen
    <3> QED BY <3>1, <3>2
  <2>2. CASE Fingerprint(i) # f
    <3>1. i # id
      BY <2>2
    <3>2. Seen(new, e) <=> Seen(buckets, e)
      BY <1>3, <2>2 DEF Seen
    <3> QED BY <3>1, <3>2
  <2> QED BY <2>1, <2>2
<1> QED BY <1>6, <1>7 DEF new, bucket

\* The diagnostics that are not repetitions, of the first n.
Firsts(list, n) == {i \in 1..n : \A j \in 1..(i - 1) : Identity(list[j]) # Identity(list[i])}

\* They are kept, and their identities are in the buckets.
HasKept(state, list, n) ==
    /\ state.kept = Picked(list, Firsts(list, n))
    /\ \A e \in Diagnostic : Seen(state.buckets, e) <=> \E j \in 1..n : Identity(list[j]) = Identity(e)

LEMMA KeepType ==
    ASSUME NEW state \in KeepState, NEW d \in Diagnostic
    PROVE  Keep(state, d) \in KeepState
<1> DEFINE f == Fingerprint(Identity(d))
           bucket == IF f \in DOMAIN state.buckets THEN state.buckets[f] ELSE {}
           new == Put(state.buckets, {f}, bucket \cup {Identity(d)})
<1>1. state.kept \in Seq(Diagnostic) /\ state.buckets \in Buckets
  BY DEF KeepState
<1>2. new \in Buckets
  BY <1>1, PutIsSeen
<1>3. Append(state.kept, d) \in Seq(Diagnostic)
  BY <1>1
<1>4. Keep(state, d) = IF Seen(state.buckets, d) THEN state ELSE [kept |-> Append(state.kept, d), buckets |-> new]
  BY DEF Keep
<1> HIDE DEF new
<1> QED BY <1>2, <1>3, <1>4 DEF KeepState

LEMMA KeepKeeps ==
    ASSUME NEW list \in Seq(Diagnostic), NEW n \in 1..Len(list), NEW state \in KeepState,
           HasKept(state, list, n - 1)
    PROVE  HasKept(Keep(state, list[n]), list, n)
<1> DEFINE d == list[n]
           f == Fingerprint(Identity(d))
           bucket == IF f \in DOMAIN state.buckets THEN state.buckets[f] ELSE {}
           grown == Put(state.buckets, {f}, bucket \cup {Identity(d)})
           new == Keep(state, d)
           before == Firsts(list, n - 1)
           now == Firsts(list, n)
<1>1. d \in Diagnostic /\ state.kept \in Seq(Diagnostic) /\ state.buckets \in Buckets
  BY DEF KeepState
<1>2. /\ state.kept = Picked(list, before)
      /\ \A e \in Diagnostic : Seen(state.buckets, e) <=> \E j \in 1..(n - 1) : Identity(list[j]) = Identity(e)
  BY DEF HasKept
<1>3. \A k : k \in 1..n <=> k \in 1..(n - 1) \/ k = n
  OBVIOUS
<1>4. \A k : k \in now <=> k \in before \/ (k = n /\ \A j \in 1..(n - 1) : Identity(list[j]) # Identity(d))
  BY <1>3 DEF Firsts
<1>5. before \subseteq 1..(n - 1)
  BY DEF Firsts
<1>6. new = IF Seen(state.buckets, d) THEN state ELSE [kept |-> Append(state.kept, d), buckets |-> grown]
  BY DEF Keep
<1>7. \A e \in Diagnostic : Seen(grown, e) <=> Seen(state.buckets, e) \/ Identity(e) = Identity(d)
  BY <1>1, PutIsSeen
<1> HIDE DEF before, now, grown, new
<1>8. CASE Seen(state.buckets, d)
  <2>1. \E j \in 1..(n - 1) : Identity(list[j]) = Identity(d)
    BY <1>1, <1>2, <1>8
  <2>2. now = before
    <3>1. \A k : k \in now <=> k \in before
      BY <1>4, <2>1
    <3> QED BY <3>1
  <2>3. new = state
    BY <1>6, <1>8
  <2>4. \A e \in Diagnostic : Seen(state.buckets, e) <=> \E j \in 1..n : Identity(list[j]) = Identity(e)
    BY <1>2, <1>3, <2>1
  <2>5. HasKept(new, list, n)
    BY <1>2, <2>2, <2>3, <2>4 DEF HasKept, now
  <2> QED BY <2>5 DEF new
<1>9. CASE ~Seen(state.buckets, d)
  <2>1. \A j \in 1..(n - 1) : Identity(list[j]) # Identity(d)
    BY <1>1, <1>2, <1>9
  <2>2. now = before \cup {n}
    <3>1. \A k : k \in now <=> k \in before \cup {n}
      BY <1>4, <2>1
    <3> QED BY <3>1
  <2>3. new.kept = Append(state.kept, d) /\ new.buckets = grown
    BY <1>6, <1>9
  <2>4. Picked(list, now) = Append(Picked(list, before), d)
    BY <1>5, <2>2, PickedGrows
  <2>5. \A e \in Diagnostic : Seen(grown, e) <=> \E j \in 1..n : Identity(list[j]) = Identity(e)
    BY <1>2, <1>3, <1>7
  <2>6. HasKept(new, list, n)
    BY <1>2, <2>3, <2>4, <2>5 DEF HasKept, now
  <2> QED BY <2>6 DEF new
<1> QED BY <1>8, <1>9

\* Exactly the first of the diagnostics that differ in more than their payload is kept.
LEMMA FirstsAreKept ==
    ASSUME NEW list \in Seq(Diagnostic)
    PROVE  Deduped(list) = Picked(list, Firsts(list, Len(list)))
<1> DEFINE N == Len(list)
           V == KeepState
           b == [kept |-> <<>>, buckets |-> <<>>]
           step(v, d) == Keep(v, d)
           g == [k \in 1..N |-> [v \in V |-> step(v, list[k])]]
           inv == [n \in 0..N |-> {v \in V : HasKept(v, list, n)}]
<1>1. N \in Nat
  OBVIOUS
<1>2. b \in V
  <2> DEFINE none == <<>>
  <2>1. none = [f \in DOMAIN none |-> none[f]] /\ DOMAIN none = {}
    OBVIOUS
  <2> HIDE DEF none
  <2>2. none \in Buckets
    BY <2>1, BucketsAre
  <2>3. <<>> \in Buckets
    BY <2>2 DEF none
  <2> QED BY <2>3 DEF KeepState
<1>3. HasKept(b, list, 0)
  <2>1. Firsts(list, 0) = {}
    BY DEF Firsts
  <2>2. \A e \in Diagnostic : ~Seen(<<>>, e)
    BY DEF Seen
  <2>3. b.kept = Picked(list, Firsts(list, 0))
    BY <2>1, NothingPicked
  <2>4. \A j : j \notin 1..0
    OBVIOUS
  <2>5. b.buckets = <<>>
    OBVIOUS
  <2> HIDE DEF b
  <2> QED BY <2>2, <2>3, <2>4, <2>5 DEF HasKept
<1>4. \A v \in V : \A d \in Diagnostic : Keep(v, d) \in V
  BY KeepType
<1>5. PICK h : IsTrace(h, N, b, g, V) /\ FoldLeft(Keep, b, list) = h[N]
  <2> HIDE DEF b, V
  <2> QED BY <1>2, <1>4, KeepFold
<1>6. b \in inv[0]
  BY <1>1, <1>2, <1>3
<1>7. Preserves(inv, N, g, V)
  <2> SUFFICES ASSUME NEW n \in 1..N, NEW v \in V, v \in inv[n - 1] PROVE g[n][v] \in inv[n]
    BY DEF Preserves
  <2>1. n - 1 \in 0..N /\ n \in 0..N
    BY <1>1
  <2>2. HasKept(v, list, n - 1)
    BY <2>1
  <2>3. HasKept(step(v, list[n]), list, n)
    BY <2>2, KeepKeeps
  <2>4. step(v, list[n]) \in V
    <3>1. list[n] \in Diagnostic
      OBVIOUS
    <3> QED BY <1>4, <3>1
  <2> QED BY <2>1, <2>3, <2>4
<1>8. h[N] \in V /\ h[N] \in inv[N]
  <2> HIDE DEF inv, g, b, V, N, step
  <2> QED BY <1>1, <1>2, <1>5, <1>6, <1>7, TraceInduction
<1>9. HasKept(h[N], list, N)
  BY <1>1, <1>8
<1> QED BY <1>5, <1>9 DEF Deduped, HasKept

-----------------------------------------------------------------------------
Keys == {GroupKey(d) : d \in Diagnostic}
Group == [count: Nat, severity: Nat, samples: Seq(Diagnostic)]
Groups == UNION {[K -> Group] : K \in SUBSET Keys}

LEMMA GroupsAre ==
    ASSUME NEW groups
    PROVE  groups \in Groups <=>
              /\ groups = [k \in DOMAIN groups |-> groups[k]]
              /\ DOMAIN groups \subseteq Keys
              /\ \A k \in DOMAIN groups : groups[k] \in Group
<1>1. ASSUME groups \in Groups
      PROVE  /\ groups = [k \in DOMAIN groups |-> groups[k]]
             /\ DOMAIN groups \subseteq Keys
             /\ \A k \in DOMAIN groups : groups[k] \in Group
  <2>1. PICK K \in SUBSET Keys : groups \in [K -> Group]
    BY <1>1 DEF Groups
  <2> QED BY <2>1
<1>2. ASSUME groups = [k \in DOMAIN groups |-> groups[k]],
             DOMAIN groups \subseteq Keys,
             \A k \in DOMAIN groups : groups[k] \in Group
      PROVE  groups \in Groups
  <2>1. groups \in [DOMAIN groups -> Group]
    BY <1>2
  <2>2. DOMAIN groups \in SUBSET Keys
    BY <1>2
  <2> QED BY <2>1, <2>2 DEF Groups
<1> QED BY <1>1, <1>2

\* The first elements of a sequence, no more than a limit.
FirstFew(s, limit) == SubSeq(s, 1, Min({limit, Len(s)}))

LEMMA FewGrow ==
    ASSUME NEW T, NEW s \in Seq(T), NEW x \in T, NEW limit \in Nat
    PROVE  LET few == FirstFew(s, limit)
           IN  /\ few \in Seq(T)
               /\ FirstFew(Append(s, x), limit) = IF Len(few) < limit THEN Append(few, x) ELSE few
<1> DEFINE n == Len(s)
           few == FirstFew(s, limit)
           more == FirstFew(Append(s, x), limit)
<1>0. n \in Nat /\ Append(s, x) \in Seq(T) /\ Len(Append(s, x)) = n + 1
  OBVIOUS
<1>1. CASE n < limit
  <2>1. Min({limit, n}) = n /\ Min({limit, n + 1}) = n + 1
    <3> HIDE DEF n
    <3> QED BY <1>0, <1>1 DEF Min
  <2>2. few = SubSeq(s, 1, n) /\ more = SubSeq(Append(s, x), 1, n + 1)
    <3> HIDE DEF n
    <3>1. few = SubSeq(s, 1, Min({limit, n})) /\ more = SubSeq(Append(s, x), 1, Min({limit, n + 1}))
      BY <1>0 DEF FirstFew, n
    <3> HIDE DEF few, more
    <3> QED BY <2>1, <3>1
  <2>3. SubSeq(s, 1, n) = s
    OBVIOUS
  <2>4. SubSeq(Append(s, x), 1, n + 1) = Append(s, x)
    <3> DEFINE r == Append(s, x)
    <3>1. r \in Seq(T) /\ Len(r) = n + 1
      BY <1>0
    <3>2. SubSeq(r, 1, Len(r)) = r
      <4> HIDE DEF r
      <4> QED BY <3>1
    <3> HIDE DEF r, n
    <3>3. SubSeq(r, 1, n + 1) = r
      BY <3>1, <3>2
    <3> QED BY <3>3 DEF r
  <2> HIDE DEF few, more, n
  <2>5. few = s /\ more = Append(s, x) /\ Len(few) = n
    BY <2>2, <2>3, <2>4 DEF n
  <2> QED BY <1>1, <2>5 DEF few, more
<1>2. CASE ~(n < limit)
  <2>1. Min({limit, n}) = limit /\ Min({limit, n + 1}) = limit
    <3> HIDE DEF n
    <3> QED BY <1>0, <1>2 DEF Min
  <2>2. few = SubSeq(s, 1, limit) /\ more = SubSeq(Append(s, x), 1, limit)
    <3> HIDE DEF n
    <3>1. few = SubSeq(s, 1, Min({limit, n})) /\ more = SubSeq(Append(s, x), 1, Min({limit, n + 1}))
      BY <1>0 DEF FirstFew, n
    <3> HIDE DEF few, more
    <3> QED BY <2>1, <3>1
  <2>3. SubSeq(s, 1, limit) = [k \in 1..limit |-> s[k]]
    BY <1>0, <1>2
  <2>4. SubSeq(Append(s, x), 1, limit) = [k \in 1..limit |-> Append(s, x)[k]]
    <3> DEFINE r == Append(s, x)
    <3>1. r \in Seq(T) /\ limit <= Len(r)
      BY <1>0, <1>2
    <3>2. SubSeq(r, 1, limit) = [k \in 1..limit |-> r[k]]
      <4> HIDE DEF r
      <4> QED BY <3>1
    <3> QED BY <3>2
  <2>5. \A k \in 1..limit : Append(s, x)[k] = s[k] /\ s[k] \in T
    BY <1>0, <1>2
  <2> HIDE DEF few, more, n
  <2>6. few = more
    BY <2>2, <2>3, <2>4, <2>5
  <2>7. few = [k \in 1..limit |-> s[k]] /\ few \in Seq(T) /\ Len(few) = limit
    BY <2>2, <2>3, <2>5
  <2>8. ~(limit < limit)
    OBVIOUS
  <2> QED BY <2>6, <2>7, <2>8 DEF few, more
<1> QED BY <1>1, <1>2

\* The greater of two numbers.
LEMMA MaxOfTwo ==
    ASSUME NEW a \in Nat, NEW b \in Nat
    PROVE  Max({a, b}) \in {a, b} /\ Max({a, b}) \in Nat /\ a <= Max({a, b}) /\ b <= Max({a, b})
<1>1. \E x \in {a, b} : \A y \in {a, b} : x >= y
  <2>1. a >= b \/ b >= a
    OBVIOUS
  <2> QED BY <2>1
<1>2. Max({a, b}) \in {a, b} /\ \A y \in {a, b} : Max({a, b}) >= y
  BY <1>1 DEF Max
<1>3. Max({a, b}) \in Nat
  BY <1>2
<1> QED BY <1>2, <1>3

\* A severity is the worst in a list.
IsWorst(severity, s) ==
    /\ \E k \in DOMAIN s : s[k].severity = severity
    /\ \A k \in DOMAIN s : s[k].severity <= severity

LEMMA WorstGrows ==
    ASSUME NEW s \in Seq(Diagnostic), NEW d \in Diagnostic, NEW severity \in Nat,
           s = <<>> => severity = d.severity, s # <<>> => IsWorst(severity, s)
    PROVE  /\ IsWorst(Max({severity, d.severity}), Append(s, d))
           /\ Max({severity, d.severity}) \in Nat
<1> DEFINE n == Len(s)
           r == Append(s, d)
           m == Max({severity, d.severity})
<1>1. /\ n \in Nat /\ DOMAIN s = 1..n /\ DOMAIN r = 1..(n + 1) /\ r[n + 1] = d
      /\ \A k \in 1..n : r[k] = s[k] /\ s[k] \in Diagnostic /\ k \in 1..(n + 1)
      /\ \A k \in 1..(n + 1) : k \in 1..n \/ k = n + 1
      /\ n + 1 \in 1..(n + 1)
  OBVIOUS
<1>2. d.severity \in Nat /\ \A e \in Diagnostic : e.severity \in Nat
  BY DEF Diagnostic
<1>3. m \in {severity, d.severity} /\ severity <= m /\ d.severity <= m /\ m \in Nat
  BY <1>2, MaxOfTwo
<1> HIDE DEF r, m, n
<1>4. \A k \in 1..n : s[k].severity <= severity /\ s[k].severity \in Nat
  <2>1. ASSUME NEW k \in 1..n PROVE s[k].severity <= severity
    <3>1. s # <<>>
      BY <1>1
    <3> QED BY <1>1, <3>1 DEF IsWorst
  <2> QED BY <1>1, <1>2, <2>1
<1>5. ASSUME NEW k \in 1..(n + 1) PROVE r[k].severity <= m
  <2>1. CASE k \in 1..n
    <3>1. r[k].severity <= severity /\ r[k].severity \in Nat
      BY <1>1, <1>4, <2>1
    <3> QED BY <1>3, <3>1
  <2>2. CASE k = n + 1
    BY <1>1, <1>3, <2>2
  <2> QED BY <1>1, <2>1, <2>2
<1>6. \E k \in 1..(n + 1) : r[k].severity = m
  <2>1. CASE m = d.severity
    BY <1>1, <2>1
  <2>2. CASE m # d.severity
    <3>1. m = severity /\ s # <<>>
      BY <1>3, <2>2
    <3>2. PICK k \in 1..n : s[k].severity = severity
      BY <1>1, <3>1 DEF IsWorst
    <3> QED BY <1>1, <3>1, <3>2
  <2> QED BY <2>1, <2>2
<1> QED BY <1>1, <1>3, <1>5, <1>6 DEF IsWorst, r, m

\* The diagnostics of a group among the first n.
Members(list, n, key) == Picked(list, {k \in 1..n : GroupKey(list[k]) = key})

LEMMA MembersGrow ==
    ASSUME NEW list \in Seq(Diagnostic), NEW n \in 1..Len(list), NEW key
    PROVE  /\ Members(list, n - 1, key) \in Seq(Diagnostic)
           /\ Members(list, n, key) = IF GroupKey(list[n]) = key
                                      THEN Append(Members(list, n - 1, key), list[n])
                                      ELSE Members(list, n - 1, key)
<1> DEFINE before == {k \in 1..(n - 1) : GroupKey(list[k]) = key}
           now == {k \in 1..n : GroupKey(list[k]) = key}
<1>1. \A k : k \in 1..n <=> k \in 1..(n - 1) \/ k = n
  OBVIOUS
<1>2. \A k : k \in now <=> k \in before \/ (k = n /\ GroupKey(list[n]) = key)
  BY <1>1
<1>3. before \subseteq 1..(n - 1) /\ before \subseteq 1..Len(list)
  BY <1>1
<1> HIDE DEF before, now
<1>4. Picked(list, before) \in Seq(Diagnostic)
  BY <1>3, PickedIsIn
<1>5. CASE GroupKey(list[n]) = key
  <2>1. now = before \cup {n}
    <3>1. \A k : k \in now <=> k \in before \cup {n}
      BY <1>2, <1>5
    <3> QED BY <3>1
  <2>2. Picked(list, now) = Append(Picked(list, before), list[n])
    BY <1>3, <2>1, PickedGrows
  <2> QED BY <1>4, <1>5, <2>2 DEF Members, before, now
<1>6. CASE GroupKey(list[n]) # key
  <2>1. now = before
    <3>1. \A k : k \in now <=> k \in before
      BY <1>2, <1>6
    <3> QED BY <3>1
  <2> QED BY <1>4, <1>6, <2>1 DEF Members, before, now
<1> QED BY <1>5, <1>6

\* A group has what its members give it.
IsGroup(group, s, limit) ==
    /\ group.count = Len(s)
    /\ IsWorst(group.severity, s)
    /\ group.samples = FirstFew(s, limit)

HasGathered(groups, list, n, limit) ==
    /\ \A key : key \in DOMAIN groups <=> \E k \in 1..n : GroupKey(list[k]) = key
    /\ \A key \in DOMAIN groups : IsGroup(groups[key], Members(list, n, key), limit)

\* What one more diagnostic makes of a group.
GroupWith(group, d, limit) ==
    [count |-> group.count + 1,
     severity |-> Max({group.severity, d.severity}),
     samples |-> IF Len(group.samples) < limit THEN Append(group.samples, d) ELSE group.samples]

NewGroup(d) == [count |-> 0, severity |-> d.severity, samples |-> <<>>]

GroupOf(groups, d) == IF GroupKey(d) \in DOMAIN groups THEN groups[GroupKey(d)] ELSE NewGroup(d)

LEMMA NewGroupType ==
    ASSUME NEW d \in Diagnostic
    PROVE  NewGroup(d) \in Group
<1>1. d.severity \in Nat
  BY DEF Diagnostic
<1> QED BY <1>1 DEF NewGroup, Group

LEMMA GatherIs ==
    ASSUME NEW groups \in Groups, NEW d \in Diagnostic, NEW limit \in Nat
    PROVE  LET key == GroupKey(d)
               new == Gather(groups, d, limit)
           IN  /\ DOMAIN new = DOMAIN groups \cup {key}
               /\ new = [k \in DOMAIN new |-> new[k]]
               /\ new[key] = GroupWith(GroupOf(groups, d), d, limit)
               /\ \A k \in DOMAIN groups : k # key => new[k] = groups[k]
<1> DEFINE key == GroupKey(d)
           with == GroupWith(GroupOf(groups, d), d, limit)
           new == Gather(groups, d, limit)
<1>1. new = Put(groups, {key}, with)
  BY DEF Gather, GroupWith, GroupOf, NewGroup
<1> HIDE DEF key, with, new
<1>2. /\ DOMAIN new = DOMAIN groups \cup {key}
      /\ new = [k \in DOMAIN new |-> new[k]]
      /\ new[key] = with
      /\ \A k \in DOMAIN groups : k # key => new[k] = groups[k]
  BY <1>1 DEF Put
<1> QED BY <1>2 DEF key, with, new

\* A group with one more member.
LEMMA GroupGrows ==
    ASSUME NEW group \in Group, NEW s \in Seq(Diagnostic), NEW d \in Diagnostic, NEW limit \in Nat,
           s # <<>> => IsGroup(group, s, limit), s = <<>> => group = NewGroup(d)
    PROVE  /\ GroupWith(group, d, limit) \in Group
           /\ IsGroup(GroupWith(group, d, limit), Append(s, d), limit)
<1> DEFINE new == GroupWith(group, d, limit)
           few == FirstFew(s, limit)
           worst == Max({group.severity, d.severity})
<1>1. group.count \in Nat /\ group.severity \in Nat /\ group.samples \in Seq(Diagnostic)
  BY DEF Group
<1>2. group.count = Len(s) /\ group.samples = few
  <2>1. CASE s # <<>>
    BY <2>1 DEF IsGroup
  <2>2. CASE s = <<>>
    <3>1. Min({limit, 0}) = 0
      BY DEF Min
    <3>2. few = <<>>
      <4>1. few = SubSeq(<<>>, 1, Min({limit, 0}))
        BY <2>2 DEF FirstFew
      <4>2. few = SubSeq(<<>>, 1, 0)
        BY <3>1, <4>1
      <4> QED BY <4>2
    <3> QED BY <2>2, <3>2 DEF NewGroup
  <2> QED BY <2>1, <2>2
<1>3. worst \in Nat /\ IsWorst(worst, Append(s, d))
  <2>1. s = <<>> => group.severity = d.severity
    BY DEF NewGroup
  <2>2. s # <<>> => IsWorst(group.severity, s)
    BY DEF IsGroup
  <2> QED BY <1>1, <2>1, <2>2, WorstGrows
<1>4. /\ few \in Seq(Diagnostic)
      /\ FirstFew(Append(s, d), limit) = IF Len(few) < limit THEN Append(few, d) ELSE few
  BY FewGrow
<1>5. /\ new.count = group.count + 1 /\ new.severity = worst
      /\ new.samples = IF Len(group.samples) < limit THEN Append(group.samples, d) ELSE group.samples
      /\ new = [count |-> new.count, severity |-> new.severity, samples |-> new.samples]
  BY DEF GroupWith
<1>6. Len(Append(s, d)) = Len(s) + 1 /\ Len(s) \in Nat
  OBVIOUS
<1>7. Append(few, d) \in Seq(Diagnostic)
  <2> HIDE DEF few
  <2> QED BY <1>4
<1> HIDE DEF new, few, worst
<1>8. new.samples = FirstFew(Append(s, d), limit) /\ new.samples \in Seq(Diagnostic)
  BY <1>2, <1>4, <1>5, <1>7
<1>9. new.count \in Nat /\ new.count = Len(Append(s, d))
  BY <1>2, <1>5, <1>6
<1>10. new \in Group
  BY <1>3, <1>5, <1>8, <1>9 DEF Group
<1>11. IsGroup(new, Append(s, d), limit)
  BY <1>3, <1>5, <1>8, <1>9 DEF IsGroup
<1> QED BY <1>10, <1>11 DEF new

LEMMA GatherType ==
    ASSUME NEW groups \in Groups, NEW d \in Diagnostic, NEW limit \in Nat
    PROVE  Gather(groups, d, limit) \in Groups
<1> DEFINE key == GroupKey(d)
           old == GroupOf(groups, d)
           with == GroupWith(old, d, limit)
           new == Gather(groups, d, limit)
<1>1. DOMAIN groups \subseteq Keys /\ \A k \in DOMAIN groups : groups[k] \in Group
  BY GroupsAre
<1>2. d.severity \in Nat
  BY DEF Diagnostic
<1>3. old \in Group
  <2>1. NewGroup(d) \in Group
    BY NewGroupType
  <2> HIDE DEF key
  <2>2. old = IF key \in DOMAIN groups THEN groups[key] ELSE NewGroup(d)
    BY DEF GroupOf, key
  <2> HIDE DEF old
  <2> QED BY <1>1, <2>1, <2>2
<1> HIDE DEF old
<1>4. with \in Group
  <2>1. old.count \in Nat /\ old.severity \in Nat /\ old.samples \in Seq(Diagnostic)
    BY <1>3 DEF Group
  <2>2. Max({old.severity, d.severity}) \in Nat
    BY <1>2, <2>1, MaxOfTwo
  <2>3. Append(old.samples, d) \in Seq(Diagnostic) /\ old.count + 1 \in Nat
    BY <2>1
  <2> QED BY <2>1, <2>2, <2>3 DEF GroupWith, Group
<1>5. /\ DOMAIN new = DOMAIN groups \cup {key}
      /\ new = [k \in DOMAIN new |-> new[k]]
      /\ new[key] = with
      /\ \A k \in DOMAIN groups : k # key => new[k] = groups[k]
  BY GatherIs DEF old
<1>6. key \in Keys
  BY DEF Keys
<1> HIDE DEF key, with, new
<1>7. DOMAIN new \subseteq Keys /\ \A k \in DOMAIN new : new[k] \in Group
  BY <1>1, <1>4, <1>5, <1>6
<1>8. new \in Groups
  BY <1>5, <1>7, GroupsAre
<1> QED BY <1>8 DEF new

LEMMA GatherKeeps ==
    ASSUME NEW list \in Seq(Diagnostic), NEW n \in 1..Len(list), NEW limit \in Nat,
           NEW groups \in Groups, HasGathered(groups, list, n - 1, limit)
    PROVE  HasGathered(Gather(groups, list[n], limit), list, n, limit)
<1> DEFINE d == list[n]
           key == GroupKey(d)
           old == GroupOf(groups, d)
           with == GroupWith(old, d, limit)
           new == Gather(groups, d, limit)
           s == Members(list, n - 1, key)
<1>1. d \in Diagnostic /\ s \in Seq(Diagnostic) /\ Members(list, n, key) = Append(s, d)
  BY MembersGrow
<1>2. /\ \A k : k \in DOMAIN groups <=> \E i \in 1..(n - 1) : GroupKey(list[i]) = k
      /\ \A k \in DOMAIN groups : IsGroup(groups[k], Members(list, n - 1, k), limit)
  BY DEF HasGathered
<1>3. /\ DOMAIN new = DOMAIN groups \cup {key}
      /\ new[key] = with
      /\ \A k \in DOMAIN groups : k # key => new[k] = groups[k]
  BY <1>1, GatherIs
<1>4. IsGroup(with, Append(s, d), limit)
  <2>1. CASE key \in DOMAIN groups
    <3>1. old = groups[key] /\ old \in Group
      BY <2>1, GroupsAre DEF GroupOf
    <3>2. IsGroup(old, s, limit)
      BY <1>2, <2>1, <3>1
    <3>3. s # <<>>
      BY <3>2 DEF IsGroup, IsWorst
    <3> HIDE DEF old, s, d, key
    <3> QED BY <1>1, <3>1, <3>2, <3>3, GroupGrows
  <2>2. CASE key \notin DOMAIN groups
    <3>1. old = NewGroup(d)
      BY <2>2 DEF GroupOf
    <3>2. old \in Group
      BY <1>1, <3>1, NewGroupType
    <3>3. s = <<>>
      <4>1. \A i \in 1..(n - 1) : GroupKey(list[i]) # key
        BY <1>2, <2>2
      <4>2. {i \in 1..(n - 1) : GroupKey(list[i]) = key} = {}
        BY <4>1
      <4> QED BY <4>2, NothingPicked DEF Members
    <3> HIDE DEF old, s, d, key
    <3> QED BY <1>1, <3>1, <3>2, <3>3, GroupGrows
  <2> QED BY <2>1, <2>2
<1> HIDE DEF new, with
<1>5. \A k : k \in DOMAIN new <=> \E i \in 1..n : GroupKey(list[i]) = k
  <2>1. \A i : i \in 1..n <=> i \in 1..(n - 1) \/ i = n
    OBVIOUS
  <2> QED BY <1>2, <1>3, <2>1
<1>6. ASSUME NEW k \in DOMAIN new PROVE IsGroup(new[k], Members(list, n, k), limit)
  <2>1. CASE k = key
    BY <1>1, <1>3, <1>4, <2>1
  <2>2. CASE k # key
    <3>1. k \in DOMAIN groups /\ new[k] = groups[k]
      BY <1>3, <2>2
    <3>2. Members(list, n, k) = Members(list, n - 1, k)
      BY <2>2, MembersGrow
    <3> QED BY <1>2, <3>1, <3>2
  <2> QED BY <2>1, <2>2
<1>7. HasGathered(new, list, n, limit)
  BY <1>5, <1>6 DEF HasGathered
<1> QED BY <1>7 DEF new

\* Grouped ends with every diagnostic in its group.
LEMMA AllAreGathered ==
    ASSUME NEW list \in Seq(Diagnostic), NEW limit \in Nat
    PROVE  HasGathered(Grouped(list, limit), list, Len(list), limit)
<1> DEFINE N == Len(list)
           V == Groups
           b == <<>>
           step(v, d) == Gather(v, d, limit)
           g == [k \in 1..N |-> [v \in V |-> step(v, list[k])]]
           inv == [n \in 0..N |-> {v \in V : HasGathered(v, list, n, limit)}]
<1>1. N \in Nat
  OBVIOUS
<1>2. b \in V
  <2>1. b = [f \in DOMAIN b |-> b[f]] /\ DOMAIN b = {}
    OBVIOUS
  <2> HIDE DEF b
  <2> QED BY <2>1, GroupsAre
<1>3. HasGathered(b, list, 0, limit)
  BY DEF HasGathered
<1>4. \A v \in V : \A d \in Diagnostic : Gather(v, d, limit) \in V
  BY GatherType
<1>5. PICK h : IsTrace(h, N, b, g, V) /\ FoldLeft(step, b, list) = h[N]
  <2> HIDE DEF b, V
  <2> QED BY <1>2, <1>4, GatherFold
<1>6. b \in inv[0]
  BY <1>1, <1>2, <1>3
<1>7. Preserves(inv, N, g, V)
  <2> SUFFICES ASSUME NEW n \in 1..N, NEW v \in V, v \in inv[n - 1] PROVE g[n][v] \in inv[n]
    BY DEF Preserves
  <2>1. n - 1 \in 0..N /\ n \in 0..N
    BY <1>1
  <2>2. HasGathered(v, list, n - 1, limit)
    BY <2>1
  <2>3. HasGathered(step(v, list[n]), list, n, limit)
    BY <2>2, GatherKeeps
  <2>4. step(v, list[n]) \in V
    <3>1. list[n] \in Diagnostic
      OBVIOUS
    <3> QED BY <1>4, <3>1
  <2> QED BY <2>1, <2>3, <2>4
<1>8. h[N] \in V /\ h[N] \in inv[N]
  <2> HIDE DEF inv, g, b, V, N, step
  <2> QED BY <1>1, <1>2, <1>5, <1>6, <1>7, TraceInduction
<1>9. HasGathered(h[N], list, N, limit)
  BY <1>1, <1>8
<1> QED BY <1>5, <1>9 DEF Grouped

-----------------------------------------------------------------------------
\* Counting n things by what f says of them counts n.
LEMMA CountsAddUp ==
    ASSUME NEW n \in Nat, NEW f
    PROVE  Total([v \in {f[i] : i \in 1..n} |-> Cardinality({i \in 1..n : f[i] = v})]) = n
<1> DEFINE S == {f[i] : i \in 1..n}
           At(v) == {i \in 1..n : f[i] = v}
           In(d) == {i \in 1..n : f[i] \in d}
           counts == [v \in S |-> Cardinality(At(v))]
           pick(d) == CHOOSE x \in d : TRUE
           Is(it) == it = [d \in SUBSET S |-> IF d = {} THEN 0 ELSE counts[pick(d)] + it[d \ {pick(d)}]]
           it == CHOOSE g : Is(g)
           w == [d \in SUBSET S |-> Cardinality(In(d))]
<1>1. Total(counts) = it[S]
  <2>1. DOMAIN counts = S
    OBVIOUS
  <2> HIDE DEF counts, S
  <2> QED BY <2>1 DEF Total, FoldSet, MapThenFoldSet
<1>2. IsFiniteSet(S)
  <2>1. IsFiniteSet(1..n)
    BY FS_Interval
  <2> QED BY <2>1, ImageIsFinite
<1>3. \A d : In(d) \subseteq 1..n /\ IsFiniteSet(In(d)) /\ Cardinality(In(d)) \in Nat
  <2> SUFFICES ASSUME NEW d PROVE In(d) \subseteq 1..n /\ IsFiniteSet(In(d)) /\ Cardinality(In(d)) \in Nat
    OBVIOUS
  <2>1. In(d) \subseteq 1..n
    OBVIOUS
  <2> HIDE DEF In
  <2> QED BY <2>1, PlacesAreFinite
<1>4. ASSUME NEW d \in SUBSET S, d # {}
      PROVE  /\ pick(d) \in d /\ d \ {pick(d)} \in SUBSET S
             /\ counts[pick(d)] + Cardinality(In(d \ {pick(d)})) = Cardinality(In(d))
  <2> DEFINE x == pick(d)
             e == d \ {x}
  <2>1. x \in d
    BY <1>4
  <2> HIDE DEF x
  <2>2. counts[x] = Cardinality(In({x}))
    <3>1. At(x) = In({x})
      OBVIOUS
    <3> QED BY <2>1, <3>1
  <2>3. In(d) = In({x}) \cup In(e) /\ In({x}) \cap In(e) = {}
    BY <2>1
  <2>4. /\ Cardinality(In(d)) = Cardinality(In({x})) + Cardinality(In(e)) - Cardinality({})
    <3>1. IsFiniteSet(In({x})) /\ IsFiniteSet(In(e))
      BY <1>3
    <3> HIDE DEF In, e
    <3> QED BY <2>3, <3>1, FS_Union
  <2>5. Cardinality({}) = 0
    BY FS_EmptySet
  <2>6. Cardinality(In({x})) \in Nat /\ Cardinality(In(e)) \in Nat
    BY <1>3
  <2> HIDE DEF In, counts
  <2>7. counts[x] + Cardinality(In(e)) = Cardinality(In(d))
    BY <2>2, <2>4, <2>5, <2>6
  <2> QED BY <2>1, <2>7 DEF x
<1>5. In({}) = {} /\ Cardinality(In({})) = 0
  BY FS_EmptySet
<1> HIDE DEF In, counts, pick
<1>6. Is(w)
  <2>1. ASSUME NEW d \in SUBSET S
        PROVE  Cardinality(In(d)) = IF d = {} THEN 0 ELSE counts[pick(d)] + w[d \ {pick(d)}]
    <3>1. CASE d = {}
      BY <1>5, <3>1
    <3>2. CASE d # {}
      <4>1. w[d \ {pick(d)}] = Cardinality(In(d \ {pick(d)}))
        BY <1>4, <3>2
      <4> HIDE DEF w
      <4> QED BY <1>4, <3>2, <4>1
    <3> QED BY <3>1, <3>2
  <2> QED BY <2>1
<1>7. Is(it)
  <2> HIDE DEF Is
  <2> QED BY <1>6
<1> HIDE DEF it, w
<1>8. \A d \in SUBSET S : it[d] = IF d = {} THEN 0 ELSE counts[pick(d)] + it[d \ {pick(d)}]
  BY <1>7
<1> HIDE DEF Is
<1>9. \A d \in SUBSET S : IsFiniteSet(d) /\ Cardinality(d) \in Nat /\ (Cardinality(d) = 0 <=> d = {})
  <2> HIDE DEF S
  <2>1. \A d \in SUBSET S : IsFiniteSet(d)
    BY <1>2, FS_Subset
  <2> QED BY <2>1, FS_CardinalityType, FS_EmptySet
<1> DEFINE Agree(k) == \A d \in SUBSET S : Cardinality(d) <= k => it[d] = Cardinality(In(d))
           P == {k \in Nat : Agree(k)}
<1>10. 0 \in P
  <2>1. ASSUME NEW d \in SUBSET S, Cardinality(d) <= 0 PROVE it[d] = Cardinality(In(d))
    <3>1. d = {}
      BY <1>9, <2>1
    <3>2. it[d] = 0
      BY <1>8, <3>1
    <3> QED BY <1>5, <3>1, <3>2
  <2> QED BY <2>1
<1>11. ASSUME NEW k \in Nat, k \in P PROVE k + 1 \in P
  <2>1. ASSUME NEW d \in SUBSET S, Cardinality(d) <= k + 1 PROVE it[d] = Cardinality(In(d))
    <3>1. CASE d = {}
      <4>1. it[d] = 0
        BY <1>8, <3>1
      <4> QED BY <1>5, <3>1, <4>1
    <3>2. CASE d # {}
      <4> DEFINE e == d \ {pick(d)}
      <4>1. pick(d) \in d /\ e \in SUBSET S
        BY <1>4, <3>2
      <4>2. Cardinality(e) = Cardinality(d) - 1
        BY <1>9, <4>1, FS_RemoveElement
      <4>3. Cardinality(e) <= k
        <5>1. Cardinality(d) \in Nat
          BY <1>9
        <5> HIDE DEF e
        <5> QED BY <2>1, <4>2, <5>1
      <4>4. it[e] = Cardinality(In(e))
        <5>1. Agree(k)
          BY <1>11
        <5> HIDE DEF e
        <5> QED BY <4>1, <4>3, <5>1
      <4>5. it[d] = counts[pick(d)] + it[e]
        BY <1>8, <3>2
      <4>6. counts[pick(d)] + Cardinality(In(e)) = Cardinality(In(d))
        BY <1>4, <3>2
      <4> HIDE DEF e
      <4> QED BY <4>4, <4>5, <4>6
    <3> QED BY <3>1, <3>2
  <2> QED BY <2>1
<1>12. Nat \subseteq P
  <2> HIDE DEF P
  <2> QED BY <1>10, <1>11, NumberInduction
<1>13. it[S] = Cardinality(In(S))
  <2>1. Cardinality(S) \in Nat /\ Cardinality(S) <= Cardinality(S)
    BY <1>9
  <2>2. Agree(Cardinality(S))
    BY <1>12, <2>1
  <2> QED BY <2>1, <2>2
<1>14. In(S) = 1..n /\ Cardinality(1..n) = n
  BY FS_Interval DEF In
<1> QED BY <1>1, <1>13, <1>14 DEF counts

-----------------------------------------------------------------------------
\* Every diagnostic is counted once.
LEMMA EachIsCounted ==
    ASSUME NEW T, NEW s \in Seq(T), NEW field
    PROVE  Total(CountBy(s, field)) = Len(s)
<1> DEFINE n == Len(s)
           f == [i \in 1..n |-> s[i][field]]
<1>1. n \in Nat /\ DOMAIN s = 1..n
  OBVIOUS
<1> HIDE DEF n
<1>2. \A i \in 1..n : f[i] = s[i][field]
  OBVIOUS
<1> HIDE DEF f
<1>3. {s[i][field] : i \in DOMAIN s} = {f[i] : i \in 1..n}
  BY <1>1, <1>2
<1>4. \A v : {i \in DOMAIN s : s[i][field] = v} = {i \in 1..n : f[i] = v}
  BY <1>1, <1>2
<1>5. CountBy(s, field) = [v \in {f[i] : i \in 1..n} |-> Cardinality({i \in 1..n : f[i] = v})]
  BY <1>3, <1>4 DEF CountBy
<1>6. Total([v \in {f[i] : i \in 1..n} |-> Cardinality({i \in 1..n : f[i] = v})]) = n
  BY <1>1, CountsAddUp
<1> QED BY <1>5, <1>6 DEF n

\* The worst severity is the greatest.
LEMMA WorstIsGreatest ==
    ASSUME NEW s \in Seq(Diagnostic), NEW severity \in Nat, IsWorst(severity, s)
    PROVE  Max({d.severity : d \in ToSet(s)}) = severity
<1> DEFINE S == {d.severity : d \in ToSet(s)}
<1>1. \A k \in DOMAIN s : s[k].severity \in Nat
  <2>1. \A k \in DOMAIN s : s[k] \in Diagnostic
    OBVIOUS
  <2> QED BY <2>1 DEF Diagnostic
<1>2. severity \in S /\ \A x \in S : x <= severity /\ x \in Nat
  BY <1>1 DEF ToSet, IsWorst
<1> HIDE DEF S
<1>3. \E x \in S : \A y \in S : x >= y
  BY <1>2
<1>4. Max(S) \in S /\ \A y \in S : Max(S) >= y
  BY <1>3 DEF Max
<1>5. Max(S) >= severity /\ Max(S) <= severity /\ Max(S) \in Nat
  BY <1>2, <1>4
<1>6. Max(S) = severity
  BY <1>5
<1> QED BY <1>6 DEF S

\* The digest of any diagnostics is fair: exactly the first of those that differ in more
\* than their payload are kept, however hashes collide, and counted and grouped once.
THEOREM DigestsAreFair ==
    ASSUME NEW list \in Seq(Diagnostic), NEW limit \in Nat
    PROVE  DigestIsFair(list, limit)
<1> DEFINE first == {i \in DOMAIN list : \A j \in 1..(i - 1) : Identity(list[j]) # Identity(list[i])}
           kept == BuildDigest(list, limit).diagnostics
           groups == BuildDigest(list, limit).groups
           members(key) == Picked(kept, {k \in DOMAIN kept : GroupKey(kept[k]) = key})
<1>1. first = Firsts(list, Len(list)) /\ first \subseteq 1..Len(list)
  BY DEF Firsts
<1>2. /\ kept = Deduped(list) /\ groups = Grouped(kept, limit)
      /\ BuildDigest(list, limit).bySeverity = CountBy(kept, "severity")
      /\ BuildDigest(list, limit).bySource = CountBy(kept, "source")
  BY DEF BuildDigest
<1> HIDE DEF first, kept, groups
<1>11. kept = Picked(list, first)
  BY <1>1, <1>2, FirstsAreKept
<1>3. /\ kept \in Seq(Diagnostic) /\ Len(kept) = Cardinality(first)
      /\ \A x : (\E k \in DOMAIN kept : kept[k] = x) <=> \E k \in first : list[k] = x
  <2>1. /\ Picked(list, first) \in Seq(Diagnostic)
        /\ Len(Picked(list, first)) = Cardinality(first)
        /\ HasThose(Picked(list, first), list, first)
    <3> HIDE DEF members
    <3> QED BY <1>1, PickedIsIn
  <2> QED BY <1>11, <2>1 DEF HasThose
<1>4. HasGathered(groups, kept, Len(kept), limit)
  BY <1>2, <1>3, AllAreGathered
<1>5. DOMAIN kept = 1..Len(kept)
  BY <1>3
<1>6. \A key : Members(kept, Len(kept), key) = members(key)
  BY <1>5 DEF Members
<1>7. DOMAIN groups = {GroupKey(list[i]) : i \in first}
  <2>1. \A key : key \in DOMAIN groups <=> \E k \in 1..Len(kept) : GroupKey(kept[k]) = key
    BY <1>4 DEF HasGathered
  <2>2. \A key : key \in DOMAIN groups <=> \E i \in first : GroupKey(list[i]) = key
    BY <1>3, <1>5, <2>1
  <2> QED BY <2>2
<1>8. \A key : members(key) \in Seq(Diagnostic)
  <2> SUFFICES ASSUME NEW key PROVE members(key) \in Seq(Diagnostic)
    OBVIOUS
  <2>1. {k \in DOMAIN kept : GroupKey(kept[k]) = key} \subseteq 1..Len(kept)
    BY <1>5
  <2> QED BY <1>3, <2>1, PickedIsIn
<1>9. ASSUME NEW key \in DOMAIN groups
      PROVE  /\ groups[key].count = Len(members(key))
             /\ groups[key].severity = Max({d.severity : d \in ToSet(members(key))})
             /\ groups[key].samples = SubSeq(members(key), 1, Min({limit, Len(members(key))}))
  <2> DEFINE s == members(key)
             severity == groups[key].severity
  <2>1. IsGroup(groups[key], s, limit)
    BY <1>4, <1>6 DEF HasGathered
  <2>2. s \in Seq(Diagnostic)
    BY <1>8
  <2> HIDE DEF s
  <2>3. groups[key].count = Len(s) /\ IsWorst(severity, s) /\ groups[key].samples = FirstFew(s, limit)
    BY <2>1 DEF IsGroup
  <2>4. severity \in Nat
    <3>1. PICK k \in DOMAIN s : s[k].severity = severity
      BY <2>3 DEF IsWorst
    <3>2. s[k] \in Diagnostic
      BY <2>2
    <3> QED BY <3>1, <3>2 DEF Diagnostic
  <2> HIDE DEF severity
  <2>5. Max({d.severity : d \in ToSet(s)}) = severity
    BY <2>2, <2>3, <2>4, WorstIsGreatest
  <2> QED BY <2>3, <2>5 DEF FirstFew, s, severity
<1>10. /\ Total(CountBy(kept, "severity")) = Cardinality(first)
       /\ Total(CountBy(kept, "source")) = Cardinality(first)
  BY <1>3, EachIsCounted
<1> QED BY <1>2, <1>7, <1>9, <1>10, <1>11 DEF DigestIsFair, first, kept, groups

-----------------------------------------------------------------------------
(***************************************************************************)
(* Lines and the units in them.                                            *)
(***************************************************************************)

\* The places of wide scalars after offset a and up to offset o.
Wides(text, a, o) == {k \in (a + 1)..o : text[k] = "W"}

\* The units between two offsets.
Between(text, a, o) == (o - a) + Cardinality(Wides(text, a, o))

LEMMA WidesAreFinite ==
    ASSUME NEW text, NEW a \in Nat, NEW o \in Nat
    PROVE  IsFiniteSet(Wides(text, a, o)) /\ Cardinality(Wides(text, a, o)) \in Nat
<1>1. Wides(text, a, o) \subseteq 1..o
  BY DEF Wides
<1> QED BY <1>1, PlacesAreFinite

LEMMA NothingBetween ==
    ASSUME NEW text, NEW a \in Nat
    PROVE  Between(text, a, a) = 0
<1>1. Wides(text, a, a) = {}
  BY DEF Wides
<1>2. Cardinality({}) = 0
  BY FS_EmptySet
<1> QED BY <1>1, <1>2 DEF Between

\* One scalar more is as many units more as it takes.
LEMMA BetweenGrows ==
    ASSUME NEW text \in Seq(Scalars), NEW a \in Nat, NEW o \in Nat, a <= o, o < Len(text)
    PROVE  /\ Between(text, a, a) = 0
           /\ Between(text, a, o) \in Nat
           /\ Between(text, a, o + 1) = Between(text, a, o) + Units(text[o + 1])
<1> DEFINE w == Wides(text, a, o)
           x == Wides(text, a, o + 1)
<1>1. IsFiniteSet(w) /\ Cardinality(w) \in Nat
  BY WidesAreFinite
<1>2. Wides(text, a, a) = {}
  BY DEF Wides
<1>3. Cardinality({}) = 0
  BY FS_EmptySet
<1>4. o + 1 \notin w
  BY DEF Wides
<1>5. \A k : k \in x <=> k \in w \/ (k = o + 1 /\ text[o + 1] = "W")
  BY DEF Wides
<1>6. Between(text, a, o) = (o - a) + Cardinality(w) /\ Between(text, a, o + 1) = (o + 1 - a) + Cardinality(x)
  BY DEF Between
<1>7. Between(text, a, a) = 0
  BY <1>2, <1>3 DEF Between
<1> HIDE DEF w, x
<1>8. CASE text[o + 1] = "W"
  <2>1. x = w \cup {o + 1}
    BY <1>5, <1>8
  <2>2. Cardinality(x) = Cardinality(w) + 1
    BY <1>1, <1>4, <2>1, FS_AddElement
  <2>3. Units(text[o + 1]) = 2
    BY <1>8 DEF Units
  <2> QED BY <1>1, <1>6, <1>7, <2>2, <2>3
<1>9. CASE text[o + 1] # "W"
  <2>1. x = w
    BY <1>5, <1>9
  <2>2. Units(text[o + 1]) = 1
    BY <1>9 DEF Units
  <2> QED BY <1>1, <1>6, <1>7, <2>1, <2>2
<1> QED BY <1>8, <1>9

\* The further the offset, the more units are before it.
LEMMA BetweenAscends ==
    ASSUME NEW text \in Seq(Scalars), NEW a \in Nat, NEW o \in Nat, NEW q \in Nat, a <= o, o < q
    PROVE  /\ Between(text, a, o) \in Nat /\ Between(text, a, q) \in Nat
           /\ Between(text, a, o) < Between(text, a, q)
<1>1. Wides(text, a, o) \subseteq Wides(text, a, q)
  BY DEF Wides
<1>2. IsFiniteSet(Wides(text, a, q))
  BY WidesAreFinite
<1>3. Cardinality(Wides(text, a, o)) <= Cardinality(Wides(text, a, q))
  BY <1>1, <1>2, FS_Subset
<1>4. Cardinality(Wides(text, a, o)) \in Nat /\ Cardinality(Wides(text, a, q)) \in Nat
  BY WidesAreFinite
<1> HIDE DEF Wides
<1> QED BY <1>3, <1>4 DEF Between

\* Offsets of one line are told apart by their units.
LEMMA BetweenIsOneToOne ==
    ASSUME NEW text \in Seq(Scalars), NEW a \in Nat, NEW o \in Nat, NEW q \in Nat, a <= o, a <= q
    PROVE  /\ Between(text, a, o) \in Nat
           /\ (Between(text, a, o) = Between(text, a, q)) <=> (o = q)
           /\ (Between(text, a, o) < Between(text, a, q)) <=> (o < q)
<1>1. Between(text, a, o) \in Nat
  BY WidesAreFinite DEF Between
<1>2. Between(text, a, q) \in Nat
  BY WidesAreFinite DEF Between
<1>3. CASE o < q
  <2>1. Between(text, a, o) < Between(text, a, q)
    BY <1>3, BetweenAscends
  <2> QED BY <1>1, <1>2, <1>3, <2>1
<1>4. CASE q < o
  <2>1. Between(text, a, q) < Between(text, a, o)
    BY <1>4, BetweenAscends
  <2> QED BY <1>1, <1>2, <1>4, <2>1
<1>5. CASE o = q
  BY <1>1, <1>5
<1> QED BY <1>3, <1>4, <1>5

\* The units of a part of a text are counted scalar by scalar.
LEMMA UnitsFold ==
    ASSUME NEW list \in Seq(Scalars)
    PROVE  LET V == Nat
               g == [k \in 1..Len(list) |-> [v \in V |-> v + Units(list[k])]]
           IN  \E h : /\ IsTrace(h, Len(list), 0, g, V)
                      /\ FoldLeft(LAMBDA n, scalar : n + Units(scalar), 0, list) = h[Len(list)]
<1> DEFINE N == Len(list)
           V == Nat
           b == 0
           step(v, d) == v + Units(d)
           g == [k \in 1..N |-> [v \in V |-> step(v, list[k])]]
           Is(it) == it = [d \in SUBSET DOMAIN list |->
                              IF d = {} THEN b ELSE step(it[d \ {Max(d)}], list[Max(d)])]
           it == CHOOSE f : Is(f)
           h == [n \in 0..N |-> it[1..n]]
<1>1. FoldLeft(LAMBDA n, scalar : n + Units(scalar), 0, list) = it[DOMAIN list]
  BY DEF FoldLeft, MapThenFoldSet
<1>2. /\ N \in Nat /\ DOMAIN list = 1..N /\ g \in [1..N -> [V -> V]]
      /\ \A k \in 1..N : list[k] \in Scalars /\ \A v \in V : g[k][v] = step(v, list[k])
  BY DEF Units
<1>b. b \in V
  OBVIOUS
<1> HIDE DEF N, g, step, V, b
<1>3. \A d \in SUBSET (1..N) : d # {} => Max(d) \in 1..N
  BY <1>2, GreatestIsIn
<1>4. \E f : Is(f)
  <2>1. PICK f \in [SUBSET (1..N) -> V] : TakesIn(f, N, b, g)
    BY <1>2, <1>b, FoldExists
  <2>2. \A d \in SUBSET (1..N) : d # {} => f[d] = step(f[d \ {Max(d)}], list[Max(d)])
    BY <1>2, <1>3, <2>1 DEF TakesIn
  <2>3. f[{}] = b
    BY <2>1 DEF TakesIn
  <2>4. Is(f)
    BY <1>2, <2>2, <2>3
  <2> QED BY <2>4
<1>5. Is(it)
  <2> HIDE DEF Is
  <2> QED BY <1>4
<1> HIDE DEF it
<1>6. Follows(it, N, b, g, V)
  <2>1. it[{}] = b /\ \A d \in SUBSET (1..N) : d # {} => it[d] = step(it[d \ {Max(d)}], list[Max(d)])
    BY <1>2, <1>5
  <2> HIDE DEF Is, h
  <2>2. ASSUME NEW d \in SUBSET (1..N), d # {}, it[d \ {Max(d)}] \in V
        PROVE  it[d] = g[Max(d)][it[d \ {Max(d)}]]
    <3>1. Max(d) \in 1..N
      BY <1>3, <2>2
    <3>2. it[d] = step(it[d \ {Max(d)}], list[Max(d)])
      BY <2>1, <2>2
    <3>3. g[Max(d)][it[d \ {Max(d)}]] = step(it[d \ {Max(d)}], list[Max(d)])
      BY <1>2, <2>2, <3>1
    <3> QED BY <3>2, <3>3
  <2> QED BY <2>1, <2>2 DEF Follows
<1>7. IsTrace(h, N, b, g, V)
  BY <1>2, <1>b, <1>6, FoldTrace
<1>8. h[N] = it[DOMAIN list]
  BY <1>2
<1> HIDE DEF h
<1> QED BY <1>1, <1>7, <1>8 DEF N, step, g, V, b

LEMMA UnitsAreBetween ==
    ASSUME NEW text \in Seq(Scalars), NEW a \in Nat, NEW o \in Nat, a <= o, o <= Len(text)
    PROVE  FoldLeft(LAMBDA n, scalar : n + Units(scalar), 0, SubSeq(text, a + 1, o)) = Between(text, a, o)
<1> DEFINE list == SubSeq(text, a + 1, o)
           N == Len(list)
           V == Nat
           b == 0
           g == [k \in 1..N |-> [v \in V |-> v + Units(list[k])]]
           inv == [n \in 0..N |-> {v \in V : v = Between(text, a, a + n)}]
<1>1. list \in Seq(Scalars) /\ N = o - a /\ \A k \in 1..N : list[k] = text[a + k]
  OBVIOUS
<1> HIDE DEF list
<1>2. PICK h : IsTrace(h, N, b, g, V) /\ FoldLeft(LAMBDA n, scalar : n + Units(scalar), 0, list) = h[N]
  BY <1>1, UnitsFold
<1>3. N \in Nat /\ b \in V
  BY <1>1
<1>4. b \in inv[0]
  <2>1. Between(text, a, a) = 0
    BY NothingBetween
  <2> QED BY <1>3, <2>1
<1>5. Preserves(inv, N, g, V)
  <2> SUFFICES ASSUME NEW n \in 1..N, NEW v \in V, v \in inv[n - 1] PROVE g[n][v] \in inv[n]
    BY DEF Preserves
  <2>1. n - 1 \in 0..N /\ n \in 0..N /\ n \in Int
    BY <1>3
  <2>2. v = Between(text, a, a + (n - 1))
    BY <2>1
  <2>3. a + (n - 1) \in Nat /\ a <= a + (n - 1) /\ a + (n - 1) < Len(text) /\ a + (n - 1) + 1 = a + n
    BY <1>1, <2>1
  <2>4. Between(text, a, a + n) = v + Units(text[a + n])
    BY <2>2, <2>3, BetweenGrows
  <2>5. g[n][v] = v + Units(text[a + n]) /\ g[n][v] \in Nat
    BY <1>1 DEF Units
  <2> QED BY <2>1, <2>4, <2>5
<1>6. h[N] \in inv[N]
  <2> HIDE DEF inv, g, b, V, N
  <2> QED BY <1>2, <1>3, <1>4, <1>5, TraceInduction
<1>7. h[N] = Between(text, a, a + N) /\ a + N = o
  BY <1>1, <1>3, <1>6
<1> QED BY <1>2, <1>7 DEF list

\* How many of a set are before a number.
Rank(S, s) == Cardinality({t \in S : t < s})

\* An element of a set has as many before it as its place in their order says.
LEMMA PlaceIsRank ==
    ASSUME NEW S, IsFiniteSet(S), S \subseteq Nat
    PROVE  \A k \in 1..Cardinality(S) : Rank(S, Ascending(S)[k]) = k - 1
<1> DEFINE a == Ascending(S)
           n == Cardinality(S)
           below(k) == {t \in S : t < a[k]}
           P == {k \in Nat : k + 1 <= n => Cardinality(below(k + 1)) = k}
<1>1. /\ n \in Nat
      /\ a \in [1..n -> S]
      /\ \A x \in S : \E k \in 1..n : a[k] = x
      /\ \A j, k \in 1..n : j < k <=> a[j] < a[k]
  BY AscendingIsInOrder
<1> HIDE DEF a, n
<1>2. 0 \in P
  <2>1. ASSUME 1 <= n PROVE below(1) = {}
    <3>1. 1 \in 1..n
      BY <1>1, <2>1
    <3>2. ASSUME NEW t \in S, t < a[1] PROVE FALSE
      <4>1. PICK k \in 1..n : a[k] = t
        BY <1>1
      <4>2. k < 1
        BY <1>1, <3>1, <3>2, <4>1
      <4> QED BY <1>1, <4>2
    <3> QED BY <3>2
  <2>2. Cardinality({}) = 0
    BY FS_EmptySet
  <2> QED BY <2>1, <2>2
<1>3. ASSUME NEW k \in Nat, k \in P PROVE k + 1 \in P
  <2> SUFFICES ASSUME (k + 1) + 1 <= n PROVE Cardinality(below((k + 1) + 1)) = k + 1
    OBVIOUS
  <2>1. k + 1 \in 1..n /\ (k + 1) + 1 \in 1..n /\ k + 1 < (k + 1) + 1 /\ k + 1 <= n
    BY <1>1
  <2>2. a[k + 1] \in S /\ a[(k + 1) + 1] \in S /\ a[k + 1] < a[(k + 1) + 1]
    BY <1>1, <2>1
  <2>3. below((k + 1) + 1) = below(k + 1) \cup {a[k + 1]}
    <3>1. ASSUME NEW t \in S, t < a[(k + 1) + 1], t # a[k + 1] PROVE t < a[k + 1]
      <4>1. PICK j \in 1..n : a[j] = t
        BY <1>1
      <4>2. j < (k + 1) + 1 /\ j # k + 1 /\ j \in Int
        BY <1>1, <2>1, <3>1, <4>1
      <4>3. j < k + 1
        BY <2>1, <4>2
      <4> QED BY <1>1, <2>1, <4>1, <4>3
    <3>2. ASSUME NEW t \in S, t < a[k + 1] PROVE t < a[(k + 1) + 1]
      <4>1. t \in Nat /\ a[k + 1] \in Nat /\ a[(k + 1) + 1] \in Nat
        BY <2>2
      <4> QED BY <2>2, <3>2, <4>1
    <3> QED BY <2>2, <3>1, <3>2
  <2>4. IsFiniteSet(below(k + 1))
    BY FS_Subset
  <2>5. a[k + 1] \notin below(k + 1)
    <3>1. a[k + 1] \in Nat
      BY <2>2
    <3>2. ~(a[k + 1] < a[k + 1])
      BY <3>1
    <3> QED BY <3>2
  <2>6. Cardinality(below(k + 1)) = k
    BY <1>3, <2>1
  <2> HIDE DEF below
  <2> QED BY <2>3, <2>4, <2>5, <2>6, FS_AddElement
<1>4. Nat \subseteq P
  <2> HIDE DEF P
  <2> QED BY <1>2, <1>3, NumberInduction
<1>5. ASSUME NEW k \in 1..n PROVE Cardinality(below(k)) = k - 1
  <2>1. k - 1 \in Nat /\ (k - 1) + 1 = k /\ k <= n
    BY <1>1
  <2>2. k - 1 \in P
    BY <1>4, <2>1
  <2> HIDE DEF below
  <2> QED BY <2>1, <2>2
<1> QED BY <1>5 DEF a, n, Rank

\* Every number less than their count is the number of those before one of them.
LEMMA RanksAreOneToOne ==
    ASSUME NEW S, IsFiniteSet(S), S \subseteq Nat
    PROVE  /\ \A n \in Nat : n < Cardinality(S) => \E s \in S : Rank(S, s) = n
           /\ \A s, r \in S : Rank(S, s) = Rank(S, r) => s = r
           /\ \A s \in S : Rank(S, s) \in Nat /\ Rank(S, s) < Cardinality(S)
<1> DEFINE a == Ascending(S)
           n == Cardinality(S)
           rank(s) == Rank(S, s)
<1>1. /\ n \in Nat
      /\ a \in [1..n -> S]
      /\ \A x \in S : \E k \in 1..n : a[k] = x
  BY AscendingIsInOrder
<1>2. \A k \in 1..n : rank(a[k]) = k - 1
  BY PlaceIsRank
<1> HIDE DEF a, n, rank
<1>3. ASSUME NEW m \in Nat, m < n PROVE \E s \in S : rank(s) = m
  <2>1. m + 1 \in 1..n /\ (m + 1) - 1 = m
    BY <1>1, <1>3
  <2> QED BY <1>1, <1>2, <2>1
<1>4. ASSUME NEW s \in S PROVE \E k \in 1..n : s = a[k] /\ rank(s) = k - 1
  BY <1>1, <1>2
<1>5. ASSUME NEW s \in S, NEW r \in S, rank(s) = rank(r) PROVE s = r
  <2>1. PICK j \in 1..n : s = a[j] /\ rank(s) = j - 1
    BY <1>4
  <2>2. PICK k \in 1..n : r = a[k] /\ rank(r) = k - 1
    BY <1>4
  <2>3. j = k
    BY <1>1, <1>5, <2>1, <2>2
  <2> QED BY <2>1, <2>2, <2>3
<1>6. \A s \in S : rank(s) \in Nat /\ rank(s) < n
  <2> TAKE s \in S
  <2>1. PICK k \in 1..n : rank(s) = k - 1
    BY <1>4
  <2> QED BY <1>1, <2>1
<1> QED BY <1>3, <1>5, <1>6 DEF n, rank

LEMMA StartsAreFinite ==
    ASSUME NEW text \in Seq(Scalars)
    PROVE  /\ LineStarts(text) \subseteq 0..Len(text)
           /\ LineStarts(text) \subseteq Nat
           /\ IsFiniteSet(LineStarts(text))
           /\ 0 \in LineStarts(text)
           /\ Cardinality(LineStarts(text)) \in Nat
<1>1. LineStarts(text) \subseteq 0..Len(text) /\ 0 \in LineStarts(text)
  BY DEF LineStarts
<1>2. IsFiniteSet(0..Len(text)) /\ 0..Len(text) \subseteq Nat
  BY FS_Interval
<1>3. IsFiniteSet(LineStarts(text))
  BY <1>1, <1>2, FS_Subset
<1> QED BY <1>1, <1>2, <1>3, FS_CardinalityType

\* A line starts at a, the first so many are before it, and ends before its break at e.
IsLine(text, line, a, e) ==
    /\ a \in LineStarts(text)
    /\ Rank(LineStarts(text), a) = line
    /\ e \in a..Len(text)
    /\ e = Len(text) \/ text[e + 1] \in Breaks
    /\ \A k \in (a + 1)..e : text[k] \notin Breaks

LEMMA LineRangeIsLine ==
    ASSUME NEW text \in Seq(Scalars), NEW line \in Nat, line < Cardinality(LineStarts(text))
    PROVE  /\ LineRange(text, line) = <<LineRange(text, line)[1], LineRange(text, line)[2]>>
           /\ IsLine(text, line, LineRange(text, line)[1], LineRange(text, line)[2])
<1> DEFINE S == LineStarts(text)
           a == CHOOSE s \in S : Cardinality({t \in S : t < s}) = line
           E == {o \in a..Len(text) : o = Len(text) \/ text[o + 1] \in Breaks}
           e == Min(E)
<1>1. \E s \in S : Rank(S, s) = line
  <2>1. IsFiniteSet(S) /\ S \subseteq Nat /\ line < Cardinality(S)
    BY StartsAreFinite
  <2> HIDE DEF S
  <2> QED BY <2>1, RanksAreOneToOne
<1>2. a \in S /\ Rank(S, a) = line
  BY <1>1 DEF Rank
<1>3. LineRange(text, line) = <<a, e>>
  BY DEF LineRange
<1> HIDE DEF a
<1>4. a \in 0..Len(text)
  BY <1>2, StartsAreFinite
<1>5. E \subseteq Nat /\ Len(text) \in E
  BY <1>4
<1>6. e \in E /\ \A o \in E : e <= o
  <2> HIDE DEF E
  <2> QED BY <1>5, LeastNumber
<1> HIDE DEF e
<1>7. ASSUME NEW k \in (a + 1)..e PROVE text[k] \notin Breaks
  <2>1. k - 1 \in a..Len(text) /\ k - 1 < e /\ (k - 1) + 1 = k /\ e \in Int
    BY <1>4, <1>6
  <2>2. ~(e <= k - 1)
    BY <1>4, <2>1
  <2>3. k - 1 \notin E
    BY <1>6, <2>2
  <2> QED BY <2>1, <2>3
<1>8. IsLine(text, line, a, e)
  BY <1>2, <1>6, <1>7 DEF IsLine
<1> QED BY <1>3, <1>8

\* The greatest of some numbers up to N is one of them.
LEMMA GreatestNumber ==
    ASSUME NEW N \in Nat, NEW S \in SUBSET (0..N), S # {}
    PROVE  Max(S) \in S /\ \A j \in S : j <= Max(S)
<1> DEFINE D == {N - k : k \in S}
<1>0. \A k \in S : k \in Int /\ N - k \in Nat
  OBVIOUS
<1>1. D \subseteq Nat /\ D # {}
  BY <1>0
<1>2. PICK m \in D : \A n \in D : m <= n
  <2> HIDE DEF D
  <2> QED BY <1>1, LeastNumber
<1>3. PICK k \in S : m = N - k
  BY <1>2
<1>4. \A j \in S : N - k <= N - j
  BY <1>2, <1>3
<1>5. \A j \in S : j <= k
  BY <1>0, <1>4
<1>6. \E x \in S : \A y \in S : x >= y
  BY <1>0, <1>5
<1>7. Max(S) \in S /\ \A y \in S : Max(S) >= y
  BY <1>6 DEF Max
<1> QED BY <1>0, <1>7

\* The last start of a line that is not after an offset.
IsStartOf(text, a, o) ==
    /\ a \in LineStarts(text) /\ a <= o
    /\ \A t \in LineStarts(text) : t <= o => t <= a

\* The position of an offset is that of its line, and the units from where it starts.
LEMMA PositionIs ==
    ASSUME NEW text \in Seq(Scalars), NEW o \in 0..Len(text), NEW a, IsStartOf(text, a, o)
    PROVE  /\ PositionOf(text, o) = <<Rank(LineStarts(text), a), Between(text, a, o)>>
           /\ LineOf(text, o) = Rank(LineStarts(text), a)
<1> DEFINE S == LineStarts(text)
           D == {s \in S : s <= o}
           start == Max(D)
<1>1. S \subseteq 0..Len(text) /\ IsFiniteSet(S) /\ 0 \in S /\ a \in S /\ a \in Nat /\ o \in Nat /\ a <= o
  BY StartsAreFinite DEF IsStartOf
<1>2. start = a
  <2>1. Len(text) \in Nat /\ D \in SUBSET (0..Len(text)) /\ a \in D
    BY <1>1
  <2>2. start \in D /\ \A j \in D : j <= start
    <3> HIDE DEF D
    <3> QED BY <2>1, GreatestNumber
  <2>3. start <= a /\ a <= start
    BY <2>1, <2>2 DEF IsStartOf
  <2> QED BY <1>1, <2>1, <2>2, <2>3
<1>3. LineOf(text, o) = Rank(S, a)
  <2> DEFINE before == {t \in S : t < a}
             after == {t \in S : 0 < t /\ t <= o}
  <2>1. /\ IsFiniteSet(before) /\ IsFiniteSet(after)
        /\ Cardinality(before) \in Nat /\ Cardinality(after) \in Nat
    <3>1. before \subseteq S /\ after \subseteq S
      OBVIOUS
    <3> HIDE DEF before, after, S
    <3> QED BY <1>1, <3>1, FS_Subset, FS_CardinalityType
  <2>2. before \cup {a} = D /\ a \notin before
    <3>1. \A t \in S : t <= o <=> t < a \/ t = a
      <4> TAKE t \in S
      <4>1. t \in Nat /\ (t <= o => t <= a)
        BY <1>1 DEF IsStartOf
      <4> QED BY <1>1, <4>1
    <3>2. ~(a < a)
      BY <1>1
    <3> QED BY <1>1, <3>1, <3>2
  <2>3. after \cup {0} = D /\ 0 \notin after
    <3>1. \A t \in S : t <= o <=> (0 < t /\ t <= o) \/ t = 0
      <4> TAKE t \in S
      <4>1. t \in Nat
        BY <1>1
      <4> QED BY <1>1, <4>1
    <3> QED BY <1>1, <3>1
  <2> HIDE DEF before, after, D
  <2>4. Cardinality(D) = Cardinality(before) + 1
    BY <2>1, <2>2, FS_AddElement
  <2>5. Cardinality(D) = Cardinality(after) + 1
    BY <2>1, <2>3, FS_AddElement
  <2>6. Cardinality(after) = Cardinality(before)
    BY <2>1, <2>4, <2>5
  <2> QED BY <2>6 DEF LineOf, before, after, Rank
<1>4. FoldLeft(LAMBDA n, scalar : n + Units(scalar), 0, SubSeq(text, a + 1, o)) = Between(text, a, o)
  <2>1. o <= Len(text)
    OBVIOUS
  <2> QED BY <1>1, <2>1, UnitsAreBetween
<1>5. PositionOf(text, o) = <<LineOf(text, o), Between(text, a, o)>>
  <2>1. PositionOf(text, o) = <<LineOf(text, o), FoldLeft(LAMBDA n, scalar : n + Units(scalar), 0, SubSeq(text, start + 1, o))>>
    BY DEF PositionOf
  <2> HIDE DEF start
  <2> QED BY <1>2, <1>4, <2>1
<1> QED BY <1>3, <1>5

LEMMA StartExists ==
    ASSUME NEW text \in Seq(Scalars), NEW o \in 0..Len(text)
    PROVE  \E a : IsStartOf(text, a, o)
<1> DEFINE D == {s \in LineStarts(text) : s <= o}
<1>1. Len(text) \in Nat /\ D \in SUBSET (0..Len(text)) /\ 0 \in D
  BY StartsAreFinite
<1>2. Max(D) \in D /\ \A j \in D : j <= Max(D)
  <2> HIDE DEF D
  <2> QED BY <1>1, GreatestNumber
<1> QED BY <1>2 DEF IsStartOf

\* The offsets that a position of a line may name are those of the line, by their units.
LEMMA NamedOnLine ==
    ASSUME NEW text \in Seq(Scalars), NEW line \in Nat, NEW a, NEW e, IsLine(text, line, a, e), NEW c
    PROVE  Named(text, <<line, c>>) = {o \in a..e : Between(text, a, o) = c}
<1> DEFINE S == LineStarts(text)
<1>1. S \subseteq 0..Len(text) /\ a \in S /\ a \in Nat /\ e \in Nat /\ a <= e /\ e <= Len(text) /\ Len(text) \in Nat
  BY StartsAreFinite DEF IsLine
<1>2. ASSUME NEW o \in a..e PROVE o \in Boundaries(text) /\ IsStartOf(text, a, o)
  <2>1. \A k \in (a + 1)..o : k \notin S
    <3> TAKE k \in (a + 1)..o
    <3>1. text[k] \notin Breaks /\ k # 0
      BY <1>1 DEF IsLine
    <3> QED BY <3>1 DEF LineStarts, Breaks
  <2>2. IsStartOf(text, a, o)
    <3>1. ASSUME NEW t \in S, t <= o PROVE t <= a
      <4>1. t \in Nat
        BY <1>1
      <4> QED BY <1>1, <2>1, <3>1, <4>1
    <3> QED BY <1>1, <3>1 DEF IsStartOf
  <2>3. o \in 0..Len(text)
    BY <1>1
  <2>4. ASSUME 0 < o, o < Len(text), text[o] = "r", text[o + 1] = "n" PROVE FALSE
    <3>1. CASE o = a
      <4>1. text[a] = "n" \/ (text[a] = "r" /\ (a = Len(text) \/ text[a + 1] # "n"))
        BY <1>1, <2>4, <3>1 DEF LineStarts
      <4> QED BY <1>1, <2>4, <3>1, <4>1
    <3>2. CASE o # a
      <4>1. o \in (a + 1)..e
        BY <1>1, <3>2
      <4>2. text[o] \notin Breaks
        BY <4>1 DEF IsLine
      <4> QED BY <2>4, <4>2 DEF Breaks
    <3> QED BY <3>1, <3>2
  <2> QED BY <2>2, <2>3, <2>4 DEF Boundaries
<1>3. ASSUME NEW o \in Boundaries(text), IsStartOf(text, a, o) PROVE o \in a..e
  <2>1. o \in 0..Len(text) /\ ~(0 < o /\ o < Len(text) /\ text[o] = "r" /\ text[o + 1] = "n") /\ a <= o
    BY <1>3 DEF Boundaries, IsStartOf
  <2>2. SUFFICES ASSUME e < o PROVE FALSE
    BY <1>1, <2>1
  <2>3. e # Len(text) /\ text[e + 1] \in Breaks /\ e + 1 \in 1..Len(text) /\ e + 1 <= o /\ ~(e + 1 <= a)
    BY <1>1, <2>1, <2>2 DEF IsLine
  <2>4. e + 1 \notin S
    BY <1>3, <2>3 DEF IsStartOf
  <2>5. text[e + 1] = "r" /\ e + 1 # Len(text) /\ text[(e + 1) + 1] = "n"
    BY <2>3, <2>4 DEF LineStarts, Breaks
  <2>6. (e + 1) + 1 \in S
    BY <1>1, <2>3, <2>5 DEF LineStarts
  <2>7. ~((e + 1) + 1 <= o)
    BY <1>1, <1>3, <2>6 DEF IsStartOf
  <2>8. o = e + 1
    BY <1>1, <2>1, <2>3, <2>7
  <2> QED BY <1>1, <2>1, <2>3, <2>5, <2>8
<1>4. ASSUME NEW o \in Boundaries(text)
      PROVE  PositionOf(text, o) = <<line, c>> <=> o \in a..e /\ Between(text, a, o) = c
  <2>1. o \in 0..Len(text)
    BY DEF Boundaries
  <2>2. PICK b : IsStartOf(text, b, o)
    BY <2>1, StartExists
  <2>3. PositionOf(text, o) = <<Rank(S, b), Between(text, b, o)>>
    BY <2>1, <2>2, PositionIs
  <2>4. Rank(S, a) = line /\ b \in S
    BY <2>2 DEF IsLine, IsStartOf
  <2>5. Rank(S, b) = line <=> b = a
    <3>1. IsFiniteSet(S) /\ S \subseteq Nat
      BY StartsAreFinite
    <3> HIDE DEF S
    <3> QED BY <1>1, <2>4, <3>1, RanksAreOneToOne
  <2>6. CASE b = a
    <3>1. o \in a..e
      BY <1>3, <2>2, <2>6
    <3>2. PositionOf(text, o) = <<line, Between(text, a, o)>>
      BY <2>3, <2>5, <2>6
    <3> QED BY <3>1, <3>2
  <2>7. CASE b # a
    <3>1. o \notin a..e
      <4>1. SUFFICES ASSUME o \in a..e PROVE FALSE
        OBVIOUS
      <4>2. IsStartOf(text, a, o)
        BY <1>2, <4>1
      <4>3. a <= b /\ b <= a
        BY <1>1, <2>2, <2>4, <4>2 DEF IsStartOf
      <4>4. b \in Nat
        BY <1>1, <2>4
      <4> QED BY <1>1, <2>7, <4>3, <4>4
    <3>2. PositionOf(text, o) # <<line, c>>
      BY <2>3, <2>5, <2>7
    <3> QED BY <3>1, <3>2
  <2> QED BY <2>6, <2>7
<1>5. \A o \in a..e : o \in Boundaries(text)
  BY <1>2
<1> QED BY <1>4, <1>5 DEF Named

\* No offset is on a line that is not there.
LEMMA NamedOnNoLine ==
    ASSUME NEW text \in Seq(Scalars), NEW line \in Nat, line >= Cardinality(LineStarts(text)), NEW c
    PROVE  Named(text, <<line, c>>) = {}
<1> DEFINE S == LineStarts(text)
<1> SUFFICES ASSUME NEW o \in Boundaries(text), PositionOf(text, o) = <<line, c>> PROVE FALSE
  BY DEF Named
<1>1. o \in 0..Len(text)
  BY DEF Boundaries
<1>2. PICK b : IsStartOf(text, b, o)
  BY <1>1, StartExists
<1>3. Rank(S, b) = line /\ b \in S
  <2>1. PositionOf(text, o) = <<Rank(S, b), Between(text, b, o)>>
    BY <1>1, <1>2, PositionIs
  <2> QED BY <1>2, <2>1 DEF IsStartOf
<1>4. IsFiniteSet(S) /\ S \subseteq Nat /\ Cardinality(S) \in Nat /\ line >= Cardinality(S)
  BY StartsAreFinite
<1>5. line < Cardinality(S)
  <2> HIDE DEF S
  <2> QED BY <1>3, <1>4, RanksAreOneToOne
<1> QED BY <1>4, <1>5

\* The line that a position of an offset is on, and where the offset is on it.
LEMMA NamedIsOnLine ==
    ASSUME NEW text \in Seq(Scalars), NEW p \in Position, NEW o \in Named(text, p)
    PROVE  \E a, e : /\ IsLine(text, p[1], a, e) /\ a \in Nat /\ e \in Nat
                     /\ o \in a..e /\ o \in 0..Len(text)
                     /\ Between(text, a, o) = p[2]
<1> DEFINE line == p[1]
           S == LineStarts(text)
<1>1. p = <<line, p[2]>> /\ line \in Nat
  BY DEF Position
<1> HIDE DEF line
<1>2. Cardinality(S) \in Nat
  BY StartsAreFinite
<1>3. line < Cardinality(S)
  <2>1. CASE line >= Cardinality(S)
    BY <1>1, <2>1, NamedOnNoLine
  <2> HIDE DEF S
  <2> QED BY <1>1, <1>2, <2>1
<1>4. PICK a, e : IsLine(text, line, a, e)
  BY <1>1, <1>3, LineRangeIsLine
<1>5. Named(text, <<line, p[2]>>) = {x \in a..e : Between(text, a, x) = p[2]}
  BY <1>1, <1>4, NamedOnLine
<1>6. o \in a..e /\ Between(text, a, o) = p[2]
  BY <1>1, <1>5
<1>7. a \in Nat /\ e \in Nat /\ o \in 0..Len(text)
  BY <1>4, <1>6, StartsAreFinite DEF IsLine
<1> QED BY <1>4, <1>6, <1>7 DEF line

\* A later line starts after an earlier one has ended.
LEMMA LinesAreApart ==
    ASSUME NEW text \in Seq(Scalars), NEW l \in Nat, NEW m \in Nat, NEW a, NEW e, NEW b, NEW f,
           IsLine(text, l, a, e), IsLine(text, m, b, f)
    PROVE  /\ (l = m) => (a = b)
           /\ l < m => e < b
<1> DEFINE S == LineStarts(text)
<1>1. /\ S \subseteq Nat /\ IsFiniteSet(S) /\ a \in S /\ b \in S /\ a \in Nat /\ b \in Nat /\ e \in Nat
      /\ Rank(S, a) = l /\ Rank(S, b) = m
  BY StartsAreFinite DEF IsLine
<1>2. ASSUME l = m PROVE a = b
  <2>1. IsFiniteSet(S) /\ S \subseteq Nat
    BY <1>1
  <2>2. Rank(S, a) = Rank(S, b) /\ a \in S /\ b \in S
    BY <1>1, <1>2
  <2> HIDE DEF S
  <2>3. \A s, r \in S : Rank(S, s) = Rank(S, r) => s = r
    BY <2>1, RanksAreOneToOne
  <2> QED BY <2>2, <2>3
<1>3. ASSUME l < m PROVE e < b
  <2>1. a < b
    <3>1. SUFFICES ASSUME b <= a PROVE FALSE
      BY <1>1
    <3> DEFINE B == {t \in S : t < b}
               A == {t \in S : t < a}
    <3>2. B \subseteq A
      <4>1. \A t \in S : t < b => t < a
        <5> TAKE t \in S
        <5>1. t \in Nat
          BY <1>1
        <5> QED BY <1>1, <3>1, <5>1
      <4> QED BY <4>1
    <3>3. IsFiniteSet(A)
      <4>1. A \subseteq S
        OBVIOUS
      <4> HIDE DEF A, S
      <4> QED BY <1>1, <4>1, FS_Subset
    <3>4. Cardinality(A) = l /\ Cardinality(B) = m
      BY <1>1 DEF Rank
    <3> HIDE DEF A, B
    <3>5. Cardinality(B) <= Cardinality(A)
      BY <3>2, <3>3, FS_Subset
    <3> QED BY <1>3, <3>4, <3>5
  <2>2. SUFFICES ASSUME b <= e PROVE FALSE
    BY <1>1
  <2>3. b \in (a + 1)..e
    BY <1>1, <2>1, <2>2
  <2>4. text[b] \notin Breaks /\ b # 0
    BY <1>1, <2>3 DEF IsLine
  <2> QED BY <1>1, <2>4 DEF LineStarts, Breaks
<1> QED BY <1>2, <1>3

\* A position names one offset at most, and offsets are in the order of the positions
\* that name them.
LEMMA NamedAreInOrder ==
    ASSUME NEW text \in Seq(Scalars), NEW p \in Position, NEW q \in Position,
           NEW o \in Named(text, p), NEW r \in Named(text, q)
    PROVE  /\ o \in 0..Len(text) /\ r \in 0..Len(text)
           /\ Before(p, q) <=> o < r
           /\ p = q <=> o = r
<1>1. PICK a, e : /\ IsLine(text, p[1], a, e) /\ a \in Nat /\ e \in Nat
                  /\ o \in a..e /\ o \in 0..Len(text)
                  /\ Between(text, a, o) = p[2]
  BY NamedIsOnLine
<1>2. PICK b, f : /\ IsLine(text, q[1], b, f) /\ b \in Nat /\ f \in Nat
                  /\ r \in b..f /\ r \in 0..Len(text)
                  /\ Between(text, b, r) = q[2]
  BY NamedIsOnLine
<1>3. p[1] \in Nat /\ q[1] \in Nat /\ p[2] \in Nat /\ q[2] \in Nat /\ p = <<p[1], p[2]>> /\ q = <<q[1], q[2]>>
  BY DEF Position
<1>4. o \in Nat /\ r \in Nat
  BY <1>1, <1>2
<1>5. CASE p[1] = q[1]
  <2>1. a = b
    <3>1. IsLine(text, p[1], a, e) /\ IsLine(text, p[1], b, f) /\ p[1] \in Nat
      BY <1>1, <1>2, <1>3, <1>5
    <3> QED BY <3>1, LinesAreApart
  <2>2. a <= o /\ a <= r /\ Between(text, a, r) = q[2]
    BY <1>1, <1>2, <2>1
  <2>8. a \in Nat /\ o \in Nat /\ r \in Nat /\ a <= o /\ a <= r
    BY <1>1, <1>4, <2>2
  <2>3. (Between(text, a, o) = Between(text, a, r)) <=> (o = r)
    BY <2>8, BetweenIsOneToOne
  <2>4. (Between(text, a, o) < Between(text, a, r)) <=> o < r
    BY <1>1, <1>4, <2>2, BetweenIsOneToOne
  <2>5. Before(p, q) <=> p[2] < q[2]
    BY <1>3, <1>5 DEF Before
  <2>6. p = q <=> p[2] = q[2]
    BY <1>3, <1>5
  <2>7. p[2] = Between(text, a, o) /\ q[2] = Between(text, a, r)
    BY <1>1, <2>2
  <2> QED BY <1>1, <1>2, <2>3, <2>4, <2>5, <2>6, <2>7
<1>6. CASE p[1] < q[1]
  <2>1. e < b
    BY <1>1, <1>2, <1>3, <1>6, LinesAreApart
  <2>2. o < r /\ o # r
    BY <1>1, <1>2, <1>4, <2>1
  <2>3. Before(p, q) /\ p # q
    BY <1>3, <1>6 DEF Before
  <2> QED BY <1>1, <1>2, <2>2, <2>3
<1>7. CASE q[1] < p[1]
  <2>1. f < a
    BY <1>1, <1>2, <1>3, <1>7, LinesAreApart
  <2>2. ~(o < r) /\ o # r
    BY <1>1, <1>2, <1>4, <2>1
  <2>3. ~Before(p, q) /\ p # q
    BY <1>3, <1>7 DEF Before
  <2> QED BY <1>1, <1>2, <2>2, <2>3
<1> QED BY <1>3, <1>5, <1>6, <1>7

-----------------------------------------------------------------------------
(***************************************************************************)
(* The scan of a line.                                                     *)
(***************************************************************************)

\* Positions in their order, each once.
AreSorted(positions) ==
    /\ positions \in Seq(Position)
    /\ \A j, k \in DOMAIN positions : j < k => Before(positions[j], positions[k])

Offsets == UNION {[K -> Nat] : K \in SUBSET Position}

ScanState(positions) ==
    [next: 1..(Len(positions) + 1), units: Nat, at: Nat, offsets: Offsets, error: {"none", "split"}]

LEMMA PositionsAre ==
    ASSUME NEW positions \in Seq(Position), NEW k \in 1..Len(positions)
    PROVE  positions[k] \in Position /\ positions[k][1] \in Nat /\ positions[k][2] \in Nat
<1>1. positions[k] \in Position
  OBVIOUS
<1> QED BY <1>1 DEF Position

LEMMA OffsetsAre ==
    ASSUME NEW offsets
    PROVE  offsets \in Offsets <=>
              /\ offsets = [p \in DOMAIN offsets |-> offsets[p]]
              /\ DOMAIN offsets \subseteq Position
              /\ \A p \in DOMAIN offsets : offsets[p] \in Nat
<1>1. ASSUME offsets \in Offsets
      PROVE  /\ offsets = [p \in DOMAIN offsets |-> offsets[p]]
             /\ DOMAIN offsets \subseteq Position
             /\ \A p \in DOMAIN offsets : offsets[p] \in Nat
  <2>1. PICK K \in SUBSET Position : offsets \in [K -> Nat]
    BY <1>1 DEF Offsets
  <2> QED BY <2>1
<1>2. ASSUME offsets = [p \in DOMAIN offsets |-> offsets[p]],
             DOMAIN offsets \subseteq Position,
             \A p \in DOMAIN offsets : offsets[p] \in Nat
      PROVE  offsets \in Offsets
  <2>1. offsets \in [DOMAIN offsets -> Nat]
    BY <1>2
  <2> QED BY <1>2, <2>1 DEF Offsets
<1> QED BY <1>1, <1>2

\* The positions from next on and before stop get an offset, and the others keep theirs.
HasPut(new, old, positions, next, stop, at) ==
    /\ \A p : p \in DOMAIN new <=> p \in DOMAIN old \/ \E k \in next..(stop - 1) : p = positions[k]
    /\ \A k \in next..(stop - 1) : new[positions[k]] = at
    /\ \A p \in DOMAIN old : (\A k \in next..(stop - 1) : p # positions[k]) => new[p] = old[p]

\* The scan stops at the first position that has not so many units.
LEMMA TakeStops ==
    ASSUME NEW positions \in Seq(Position), NEW scan \in ScanState(positions)
    PROVE  LET new == Take(positions, scan)
           IN  /\ new \in ScanState(positions)
               /\ new.next \in scan.next..(Len(positions) + 1)
               /\ \A k \in scan.next..(new.next - 1) : k \in 1..Len(positions) /\ positions[k][2] = scan.units
               /\ new.next <= Len(positions) => positions[new.next][2] # scan.units
               /\ new.units = scan.units /\ new.at = scan.at /\ new.error = scan.error
               /\ HasPut(new.offsets, scan.offsets, positions, scan.next, new.next, scan.at)
<1> DEFINE m == Len(positions)
           S == {k \in scan.next..(m + 1) : k > m \/ positions[k][2] # scan.units}
           stop == Min(S)
           keys == {positions[k] : k \in scan.next..(stop - 1)}
           put == Put(scan.offsets, keys, scan.at)
           new == Take(positions, scan)
<1>1. /\ m \in Nat /\ scan.next \in 1..(m + 1) /\ scan.units \in Nat /\ scan.at \in Nat
      /\ scan.offsets \in Offsets /\ scan.error \in {"none", "split"}
      /\ scan = [next |-> scan.next, units |-> scan.units, at |-> scan.at, offsets |-> scan.offsets, error |-> scan.error]
  BY DEF ScanState
<1>2. new = [scan EXCEPT !.next = stop, !.offsets = put]
  BY DEF Take
<1>3. S \subseteq Nat /\ m + 1 \in S
  BY <1>1
<1>4. stop \in S /\ \A k \in S : stop <= k
  <2> HIDE DEF S
  <2> QED BY <1>3, LeastNumber
<1>5. stop \in scan.next..(m + 1) /\ (stop <= m => positions[stop][2] # scan.units) /\ stop \in 1..(m + 1)
  BY <1>1, <1>4
<1>6. ASSUME NEW k \in scan.next..(stop - 1) PROVE k \in 1..m /\ positions[k][2] = scan.units
  <2>1. k \in 1..m /\ k \in scan.next..(m + 1) /\ ~(stop <= k) /\ ~(k > m)
    BY <1>1, <1>5
  <2>2. k \notin S
    BY <1>4, <2>1
  <2> QED BY <2>1, <2>2
<1> HIDE DEF stop, S
<1>7. /\ DOMAIN put = DOMAIN scan.offsets \cup keys
      /\ put = [p \in DOMAIN put |-> put[p]]
      /\ \A p \in keys : put[p] = scan.at
      /\ \A p \in DOMAIN put : p \notin keys => put[p] = scan.offsets[p]
  <2> HIDE DEF keys
  <2> QED BY DEF Put
<1> HIDE DEF put
<1>8. keys \subseteq Position
  BY <1>1, <1>6
<1>9. put \in Offsets
  <2>1. DOMAIN scan.offsets \subseteq Position /\ \A p \in DOMAIN scan.offsets : scan.offsets[p] \in Nat
    BY <1>1, OffsetsAre
  <2> HIDE DEF keys
  <2>2. DOMAIN put \subseteq Position
    BY <1>7, <1>8, <2>1
  <2>3. \A p \in DOMAIN put : put[p] \in Nat
    BY <1>1, <1>7, <2>1
  <2> QED BY <1>7, <2>2, <2>3, OffsetsAre
<1>10. HasPut(put, scan.offsets, positions, scan.next, stop, scan.at)
  BY <1>7 DEF HasPut
<1> HIDE DEF new
<1>11. new = [next |-> stop, units |-> scan.units, at |-> scan.at, offsets |-> put, error |-> scan.error]
  <2> HIDE DEF keys
  <2> QED BY <1>1, <1>2
<1>12. new \in ScanState(positions)
  BY <1>1, <1>5, <1>9, <1>11 DEF ScanState
<1>13. /\ new.next = stop /\ new.units = scan.units /\ new.at = scan.at /\ new.error = scan.error
       /\ new.offsets = put
  BY <1>11
<1>14. \A k \in scan.next..(new.next - 1) : k \in 1..m /\ positions[k][2] = scan.units
  BY <1>6, <1>13
<1>15. HasPut(new.offsets, scan.offsets, positions, scan.next, new.next, scan.at)
  BY <1>10, <1>13
<1>16. new.next \in scan.next..(m + 1) /\ (new.next <= m => positions[new.next][2] # scan.units)
  BY <1>5, <1>13
<1> QED BY <1>12, <1>13, <1>14, <1>15, <1>16 DEF new, m

\* The positions from lo to hi are on one line.
OnLine(positions, lo, hi) ==
    /\ lo \in 1..hi /\ hi \in 1..Len(positions)
    /\ \A j, k \in lo..hi : j < k => positions[j][2] < positions[k][2]

\* A position has the offset at which so many units are counted.
IsAt(text, a, p, offsets) ==
    /\ p \in DOMAIN offsets
    /\ offsets[p] \in Nat /\ a <= offsets[p]
    /\ Between(text, a, offsets[p]) = p[2]

\* No offset has so many units before it.
IsNowhere(text, a, p) == \A o \in Nat : a <= o => Between(text, a, o) # p[2]

\* The positions before next are at offsets of the first n scalars, and their units
\* ascend, whatever their lines.
Passed(text, positions, lo, next, a, n) ==
    /\ \A k \in lo..(next - 1) :
          /\ positions[k][2] <= Between(text, a, a + n)
          /\ \E o \in a..(a + n) : Between(text, a, o) = positions[k][2]
    /\ \A j, k \in lo..(next - 1) : j < k => positions[j][2] <= positions[k][2]

\* A position has fewer units than the one before it, or seems to be within a wide
\* scalar among the first n.
IsMissed(text, positions, k, a, n) ==
    \/ positions[k][2] < positions[k - 1][2]
    \/ \E o \in (a + 1)..(a + n) :
          text[o] = "W" /\ Between(text, a, o) = positions[k][2] + 1

\* What has been found after n scalars of the line that starts at a.
Scanned(text, positions, scan, old, lo, hi, a, n) ==
    /\ scan.error = "none" =>
          /\ scan.at = a + n /\ scan.units = Between(text, a, a + n)
          /\ scan.next >= lo
          /\ \A k \in lo..hi : k < scan.next =>
                /\ IsAt(text, a, positions[k], scan.offsets)
                /\ scan.offsets[positions[k]] <= a + n
          /\ scan.next <= Len(positions) => positions[scan.next][2] > scan.units
          /\ Passed(text, positions, lo, scan.next, a, n)
          /\ \A p \in DOMAIN old : (\A k \in lo..Len(positions) : p # positions[k]) =>
                p \in DOMAIN scan.offsets /\ scan.offsets[p] = old[p]
          /\ \A p \in DOMAIN scan.offsets : p \in DOMAIN old \/ \E k \in lo..Len(positions) : p = positions[k]
    /\ scan.error = "split" =>
          \E k \in lo..Len(positions) :
             \/ k <= hi /\ IsNowhere(text, a, positions[k])
             \/ k > hi /\ IsMissed(text, positions, k, a, n)

\* As Scanned, but positions may wait for the offset the scan is at.
Moved(text, positions, scan, old, lo, hi, a, n) ==
    /\ scan.at = a + n /\ scan.units = Between(text, a, a + n)
    /\ scan.next >= lo
    /\ \A k \in lo..hi : k < scan.next =>
          /\ IsAt(text, a, positions[k], scan.offsets)
          /\ scan.offsets[positions[k]] <= a + n
    /\ scan.next <= hi => positions[scan.next][2] >= scan.units
    /\ Passed(text, positions, lo, scan.next, a, n)
    /\ \A p \in DOMAIN old : (\A k \in lo..Len(positions) : p # positions[k]) =>
          p \in DOMAIN scan.offsets /\ scan.offsets[p] = old[p]
    /\ \A p \in DOMAIN scan.offsets : p \in DOMAIN old \/ \E k \in lo..Len(positions) : p = positions[k]

LEMMA TakeKeeps ==
    ASSUME NEW text \in Seq(Scalars), NEW positions \in Seq(Position), NEW scan \in ScanState(positions),
           NEW old, NEW lo \in Nat, NEW hi \in Nat, NEW a \in Nat, NEW n \in Nat,
           OnLine(positions, lo, hi), Moved(text, positions, scan, old, lo, hi, a, n),
           scan.error = "none"
    PROVE  LET new == Take(positions, scan)
           IN  /\ new.next <= hi => positions[new.next][2] > new.units
               /\ (new.next <= Len(positions) => positions[new.next][2] >= new.units)
                     => Scanned(text, positions, new, old, lo, hi, a, n)
<1> DEFINE m == Len(positions)
           new == Take(positions, scan)
<1>1. /\ new \in ScanState(positions)
      /\ new.next \in scan.next..(m + 1)
      /\ \A k \in scan.next..(new.next - 1) : k \in 1..m /\ positions[k][2] = scan.units
      /\ new.next <= m => positions[new.next][2] # scan.units
      /\ new.units = scan.units /\ new.at = scan.at /\ new.error = scan.error
      /\ HasPut(new.offsets, scan.offsets, positions, scan.next, new.next, scan.at)
  BY TakeStops
<1> HIDE DEF new
<1>2. /\ m \in Nat /\ scan.next \in 1..(m + 1) /\ scan.units \in Nat /\ scan.at \in Nat
      /\ new.next \in Nat /\ scan.next <= new.next /\ new.next <= m + 1
  BY <1>1 DEF ScanState
<1>3. lo \in 1..hi /\ hi \in 1..m /\ \A j, k \in lo..hi : j < k => positions[j][2] < positions[k][2]
  BY DEF OnLine
<1>4. /\ scan.at = a + n /\ scan.units = Between(text, a, a + n) /\ scan.next >= lo
      /\ \A k \in lo..hi : k < scan.next =>
            /\ IsAt(text, a, positions[k], scan.offsets)
            /\ scan.offsets[positions[k]] <= a + n
      /\ scan.next <= hi => positions[scan.next][2] >= scan.units
  BY DEF Moved
<1>5. ASSUME NEW k \in lo..hi, k < new.next
      PROVE  IsAt(text, a, positions[k], new.offsets) /\ new.offsets[positions[k]] <= a + n
  <2>1. k \in Nat /\ k \in 1..m
    BY <1>3
  <2>2. CASE \E j \in scan.next..(new.next - 1) : positions[k] = positions[j]
    <3>1. PICK j \in scan.next..(new.next - 1) : positions[k] = positions[j]
      BY <2>2
    <3>2. positions[k] \in DOMAIN new.offsets /\ new.offsets[positions[k]] = a + n
      BY <1>1, <1>4, <3>1 DEF HasPut
    <3>3. positions[k][2] = Between(text, a, a + n)
      BY <1>1, <1>4, <3>1
    <3> QED BY <3>2, <3>3 DEF IsAt
  <2>3. CASE \A j \in scan.next..(new.next - 1) : positions[k] # positions[j]
    <3>1. k < scan.next
      <4>1. k \notin scan.next..(new.next - 1)
        BY <2>3
      <4> QED BY <1>2, <1>5, <2>1, <4>1
    <3>2. IsAt(text, a, positions[k], scan.offsets) /\ scan.offsets[positions[k]] <= a + n
      BY <1>4, <3>1
    <3>3. positions[k] \in DOMAIN new.offsets /\ new.offsets[positions[k]] = scan.offsets[positions[k]]
      BY <1>1, <2>3, <3>2 DEF HasPut, IsAt
    <3> QED BY <3>2, <3>3 DEF IsAt
  <2> QED BY <2>2, <2>3
<1>6. ASSUME new.next <= hi PROVE positions[new.next][2] > new.units
  <2>1. new.next \in lo..hi /\ scan.next \in lo..hi /\ new.next <= m
    BY <1>2, <1>3, <1>4, <1>6
  <2>2. positions[new.next][2] \in Nat /\ positions[scan.next][2] \in Nat
    <3>1. new.next \in 1..m /\ scan.next \in 1..m
      BY <1>2, <1>3, <2>1
    <3> QED BY <3>1, PositionsAre
  <2>3. positions[scan.next][2] >= scan.units
    BY <1>2, <1>4, <2>1
  <2>4. positions[new.next][2] >= positions[scan.next][2]
    <3>1. CASE new.next = scan.next
      BY <2>2, <3>1
    <3>2. CASE scan.next < new.next
      <4>1. positions[scan.next][2] < positions[new.next][2]
        BY <1>3, <2>1, <3>2
      <4> QED BY <2>2, <4>1
    <3> QED BY <1>2, <3>1, <3>2
  <2>5. positions[new.next][2] # scan.units /\ new.units = scan.units
    BY <1>1, <2>1
  <2>6. scan.units \in Nat
    BY <1>2
  <2>7. positions[new.next][2] > scan.units
    BY <2>2, <2>3, <2>4, <2>5, <2>6
  <2> QED BY <2>5, <2>7
<1>7. ASSUME NEW p \in DOMAIN old, \A k \in lo..m : p # positions[k]
      PROVE  p \in DOMAIN new.offsets /\ new.offsets[p] = old[p]
  <2>1. p \in DOMAIN scan.offsets /\ scan.offsets[p] = old[p]
    BY <1>7 DEF Moved
  <2>2. \A k \in scan.next..(new.next - 1) : k \in lo..m
    BY <1>2, <1>3, <1>4
  <2>3. \A k \in scan.next..(new.next - 1) : p # positions[k]
    BY <1>7, <2>2
  <2> QED BY <1>1, <2>1, <2>3 DEF HasPut
<1>8. ASSUME NEW p \in DOMAIN new.offsets
      PROVE  p \in DOMAIN old \/ \E k \in lo..m : p = positions[k]
  <2>1. CASE p \in DOMAIN scan.offsets
    BY <2>1 DEF Moved
  <2>2. CASE \E k \in scan.next..(new.next - 1) : p = positions[k]
    <3>1. \A k \in scan.next..(new.next - 1) : k \in lo..m
      BY <1>2, <1>3, <1>4
    <3> QED BY <2>2, <3>1
  <2> QED BY <1>1, <2>1, <2>2 DEF HasPut
<1>9. new.at = a + n /\ new.units = Between(text, a, a + n) /\ new.next >= lo /\ new.error = "none"
  BY <1>1, <1>2, <1>3, <1>4
<1>10. Passed(text, positions, lo, new.next, a, n)
  <2>1. Passed(text, positions, lo, scan.next, a, n)
    BY DEF Moved
  <2>2. \A k \in lo..(new.next - 1) : k \in Nat /\ positions[k][2] \in Nat
    <3> TAKE k \in lo..(new.next - 1)
    <3>1. k \in 1..m
      BY <1>2, <1>3
    <3> QED BY <3>1, PositionsAre
  <2>3. \A k \in lo..(new.next - 1) : k \in lo..(scan.next - 1) \/ k \in scan.next..(new.next - 1)
    BY <1>2, <1>3
  <2>4. \A k \in scan.next..(new.next - 1) : positions[k][2] = Between(text, a, a + n)
    BY <1>1, <1>4
  <2>5. Between(text, a, a + n) \in Nat /\ a + n \in a..(a + n)
    BY <1>2, <1>4
  <2>6. ASSUME NEW k \in lo..(new.next - 1)
        PROVE  /\ positions[k][2] <= Between(text, a, a + n)
               /\ \E o \in a..(a + n) : Between(text, a, o) = positions[k][2]
    BY <2>1, <2>3, <2>4, <2>5 DEF Passed
  <2>7. ASSUME NEW j \in lo..(new.next - 1), NEW k \in lo..(new.next - 1), j < k
        PROVE  positions[j][2] <= positions[k][2]
    <3>1. CASE k \in lo..(scan.next - 1)
      <4>1. j \in lo..(scan.next - 1)
        BY <1>2, <2>7, <3>1
      <4> QED BY <2>1, <2>7, <3>1, <4>1 DEF Passed
    <3>2. CASE k \in scan.next..(new.next - 1)
      BY <2>4, <2>6, <3>2
    <3> QED BY <2>3, <3>1, <3>2
  <2> QED BY <2>6, <2>7 DEF Passed
<1>11. ASSUME new.next <= m => positions[new.next][2] >= new.units
       PROVE  Scanned(text, positions, new, old, lo, hi, a, n)
  <2>1. ASSUME new.next <= m PROVE positions[new.next][2] > new.units
    <3>1. new.next \in 1..m
      BY <1>2, <2>1
    <3>2. positions[new.next][2] \in Nat
      BY <3>1, PositionsAre
    <3> QED BY <1>1, <1>2, <1>11, <2>1, <3>2
  <2>2. \A k \in lo..hi : k < new.next =>
           IsAt(text, a, positions[k], new.offsets) /\ new.offsets[positions[k]] <= a + n
    BY <1>5
  <2> QED BY <1>7, <1>8, <1>9, <1>10, <2>1, <2>2 DEF Scanned
<1> QED BY <1>6, <1>11 DEF new

\* One scalar further.
LEMMA ScanKeeps ==
    ASSUME NEW text \in Seq(Scalars), NEW positions \in Seq(Position), NEW scan \in ScanState(positions),
           NEW old, NEW lo \in Nat, NEW hi \in Nat, NEW a \in Nat, NEW n \in Nat, n > 0, a + n <= Len(text),
           OnLine(positions, lo, hi), Scanned(text, positions, scan, old, lo, hi, a, n - 1)
    PROVE  LET new == ScanScalar(positions, scan, text[a + n])
           IN  new \in ScanState(positions) /\ Scanned(text, positions, new, old, lo, hi, a, n)
<1> DEFINE m == Len(positions)
           scalar == text[a + n]
           on == [scan EXCEPT !.at = @ + 1, !.units = @ + Units(scalar)]
           moved == Take(positions, on)
           new == ScanScalar(positions, scan, scalar)
<1>1. /\ m \in Nat /\ scan.next \in 1..(m + 1) /\ scan.units \in Nat /\ scan.at \in Nat
      /\ scan.offsets \in Offsets /\ scan.error \in {"none", "split"}
      /\ scan = [next |-> scan.next, units |-> scan.units, at |-> scan.at, offsets |-> scan.offsets, error |-> scan.error]
      /\ Units(scalar) \in 1..2
  BY DEF ScanState, Units
<1>2. /\ on \in ScanState(positions) /\ on.next = scan.next /\ on.at = scan.at + 1
      /\ on.units = scan.units + Units(scalar) /\ on.offsets = scan.offsets /\ on.error = scan.error
  <2> DEFINE u == Units(scalar)
  <2>1. scan.units + u \in Nat /\ scan.at + 1 \in Nat
    BY <1>1
  <2>4. on = [scan EXCEPT !.at = scan.at + 1, !.units = scan.units + u]
    OBVIOUS
  <2> HIDE DEF u, on, scalar
  <2>2. on = [next |-> scan.next, units |-> scan.units + u, at |-> scan.at + 1, offsets |-> scan.offsets,
              error |-> scan.error]
    BY <1>1, <2>4
  <2>3. on \in ScanState(positions)
    BY <1>1, <2>1, <2>2 DEF ScanState
  <2> QED BY <2>2, <2>3 DEF u
<1>3. new = IF scan.error # "none" THEN scan
            ELSE IF moved.next <= m /\ positions[moved.next][2] < moved.units
                 THEN [moved EXCEPT !.error = "split"]
                 ELSE moved
  BY DEF ScanScalar
<1> HIDE DEF on
<1>4. /\ moved \in ScanState(positions)
      /\ moved.next \in on.next..(m + 1)
      /\ \A k \in on.next..(moved.next - 1) : k \in 1..m /\ positions[k][2] = on.units
      /\ moved.units = on.units /\ moved.error = on.error
  BY <1>2, TakeStops
<1> HIDE DEF moved, new
<1>5. CASE scan.error # "none"
  <2>1. new = scan /\ scan.error = "split"
    BY <1>1, <1>3, <1>5
  <2>2. \A k : IsMissed(text, positions, k, a, n - 1) => IsMissed(text, positions, k, a, n)
    <3>1. \A o \in (a + 1)..(a + (n - 1)) : o \in (a + 1)..(a + n)
      OBVIOUS
    <3> QED BY <3>1 DEF IsMissed
  <2>3. Scanned(text, positions, scan, old, lo, hi, a, n)
    BY <2>1, <2>2 DEF Scanned
  <2> QED BY <2>1, <2>3 DEF new, scalar
<1>6. CASE scan.error = "none"
  <2>1. /\ scan.at = a + (n - 1) /\ scan.units = Between(text, a, a + (n - 1)) /\ scan.next >= lo
        /\ \A k \in lo..hi : k < scan.next =>
              /\ IsAt(text, a, positions[k], scan.offsets)
              /\ scan.offsets[positions[k]] <= a + (n - 1)
        /\ scan.next <= m => positions[scan.next][2] > scan.units
        /\ Passed(text, positions, lo, scan.next, a, n - 1)
        /\ \A p \in DOMAIN old : (\A k \in lo..m : p # positions[k]) =>
              p \in DOMAIN scan.offsets /\ scan.offsets[p] = old[p]
        /\ \A p \in DOMAIN scan.offsets : p \in DOMAIN old \/ \E k \in lo..m : p = positions[k]
    BY <1>6 DEF Scanned
  <2>2. lo \in 1..hi /\ hi \in 1..m
    BY DEF OnLine
  <2>3. Between(text, a, a + n) = scan.units + Units(scalar)
    <3>1. a + (n - 1) \in Nat /\ a <= a + (n - 1) /\ a + (n - 1) < Len(text) /\ (a + (n - 1)) + 1 = a + n
      OBVIOUS
    <3> QED BY <2>1, <3>1, BetweenGrows
  <2>4. on.at = a + n /\ on.units = Between(text, a, a + n)
    BY <1>2, <2>1, <2>3
  <2>5. \A k \in lo..hi : k < on.next =>
              /\ IsAt(text, a, positions[k], on.offsets)
              /\ on.offsets[positions[k]] <= a + n
    <3> SUFFICES ASSUME NEW k \in lo..hi, k < on.next
                 PROVE  IsAt(text, a, positions[k], on.offsets) /\ on.offsets[positions[k]] <= a + n
      OBVIOUS
    <3>1. IsAt(text, a, positions[k], on.offsets) /\ on.offsets[positions[k]] <= a + (n - 1)
      BY <1>2, <2>1
    <3>2. on.offsets[positions[k]] \in Nat
      BY <3>1 DEF IsAt
    <3> QED BY <3>1, <3>2
  <2>6. CASE scan.next <= hi /\ positions[scan.next][2] < on.units
    <3>1. scan.next \in lo..m /\ scan.next \in 1..m
      BY <1>1, <2>1, <2>2, <2>6
    <3>2. positions[scan.next][2] \in Nat
      BY <3>1, PositionsAre
    <3>3. moved.next = scan.next
      <4>1. scan.next \notin on.next..(moved.next - 1)
        <5>1. on.units \in Nat
          BY <1>1, <1>2
        <5>2. positions[scan.next][2] # on.units
          BY <2>6, <3>2, <5>1
        <5> QED BY <1>4, <5>2
      <4> QED BY <1>1, <1>2, <1>4, <4>1
    <3>4. new = [moved EXCEPT !.error = "split"]
      BY <1>3, <1>4, <1>6, <2>6, <3>1, <3>3
    <3>5. new.error = "split" /\ new \in ScanState(positions)
      BY <1>4, <3>4 DEF ScanState
    <3>6. IsNowhere(text, a, positions[scan.next])
      <4> SUFFICES ASSUME NEW o \in Nat, a <= o, Between(text, a, o) = positions[scan.next][2] PROVE FALSE
        BY DEF IsNowhere
      <4>1. Between(text, a, a + (n - 1)) < Between(text, a, o)
        BY <2>1, <2>6, <3>1
      <4>2. Between(text, a, o) < Between(text, a, a + n)
        BY <2>4, <2>6
      <4>3. a + (n - 1) \in Nat /\ a + n \in Nat /\ a <= a + (n - 1) /\ a <= a + n
        OBVIOUS
      <4>4. a + (n - 1) < o
        BY <4>1, <4>3, BetweenIsOneToOne
      <4>5. o < a + n
        BY <4>2, <4>3, BetweenIsOneToOne
      <4> QED BY <4>4, <4>5
    <3>7. Scanned(text, positions, new, old, lo, hi, a, n)
      BY <2>6, <3>1, <3>5, <3>6 DEF Scanned
    <3> QED BY <3>5, <3>7 DEF new, scalar
  <2>7. CASE ~(scan.next <= hi /\ positions[scan.next][2] < on.units)
    <3>1. on.next <= hi => positions[on.next][2] >= on.units
      <4> SUFFICES ASSUME on.next <= hi PROVE positions[on.next][2] >= on.units
        OBVIOUS
      <4>1. scan.next \in 1..m
        <5>1. scan.next <= hi
          BY <1>2
        <5> QED BY <1>1, <2>2, <5>1
      <4>2. positions[scan.next][2] \in Nat
        BY <4>1, PositionsAre
      <4>3. on.units \in Nat
        BY <1>2 DEF ScanState
      <4> QED BY <1>2, <2>7, <4>2, <4>3
    <3>2. Moved(text, positions, on, old, lo, hi, a, n)
      <4>1. Passed(text, positions, lo, on.next, a, n)
        <5>1. Passed(text, positions, lo, on.next, a, n - 1)
          BY <1>2, <2>1
        <5>2. ASSUME NEW k \in lo..(on.next - 1)
              PROVE  /\ positions[k][2] <= Between(text, a, a + n)
                     /\ \E o \in a..(a + n) : Between(text, a, o) = positions[k][2]
          <6>1. PICK o \in a..(a + (n - 1)) : Between(text, a, o) = positions[k][2]
            BY <5>1 DEF Passed
          <6>2. positions[k][2] <= scan.units
            BY <2>1, <5>1 DEF Passed
          <6>3. k \in 1..m
            BY <1>1, <1>2, <2>2
          <6>4. positions[k][2] \in Nat
            BY <6>3, PositionsAre
          <6>5. o \in a..(a + n)
            OBVIOUS
          <6>6. scan.units \in Nat /\ Units(scalar) \in Nat
            BY <1>1
          <6>7. positions[k][2] <= scan.units + Units(scalar)
            BY <6>2, <6>4, <6>6
          <6> QED BY <2>3, <6>1, <6>5, <6>7
        <5> QED BY <5>1, <5>2 DEF Passed
      <4> QED BY <1>2, <2>1, <2>4, <2>5, <3>1, <4>1 DEF Moved
    <3>3. /\ moved.next <= hi => positions[moved.next][2] > moved.units
          /\ (moved.next <= m => positions[moved.next][2] >= moved.units)
                => Scanned(text, positions, moved, old, lo, hi, a, n)
      BY <1>2, <1>6, <3>2, TakeKeeps DEF moved
    <3>4. CASE moved.next <= m /\ positions[moved.next][2] < moved.units
      <4> DEFINE k == moved.next
      <4>1. new = [moved EXCEPT !.error = "split"]
        BY <1>3, <1>6, <3>4
      <4>2. new.error = "split" /\ new \in ScanState(positions)
        BY <1>4, <4>1 DEF ScanState
      <4>3. k \in lo..m /\ k \in 1..m
        BY <1>1, <1>2, <1>4, <2>1, <2>2, <3>4
      <4>4. moved.units \in Nat /\ positions[k][2] \in Nat
        <5>1. moved.units \in Nat
          BY <1>4 DEF ScanState
        <5> QED BY <4>3, <5>1, PositionsAre
      <4>5. k > hi
        BY <2>2, <3>3, <3>4, <4>3, <4>4
      <4>6. IsMissed(text, positions, k, a, n)
        <5>1. CASE k = scan.next
          <6>1. positions[k][2] > scan.units /\ positions[k][2] < scan.units + Units(scalar)
            BY <1>2, <1>4, <2>1, <3>4, <5>1
          <6>5. scan.units \in Nat /\ positions[k][2] \in Nat
            BY <1>1, <4>4
          <6>2. scalar = "W" /\ Units(scalar) = 2
            <7>1. CASE scalar = "W"
              BY <7>1 DEF Units
            <7>2. CASE scalar # "W"
              <8>1. Units(scalar) = 1
                BY <7>2 DEF Units
              <8> HIDE DEF scalar, k
              <8> QED BY <6>1, <6>5, <8>1
            <7> QED BY <7>1, <7>2
          <6>3. Between(text, a, a + n) = positions[k][2] + 1
            <7>1. positions[k][2] > scan.units /\ positions[k][2] < scan.units + 2
              BY <6>1, <6>2
            <7>2. Between(text, a, a + n) = scan.units + 2
              BY <2>3, <6>2
            <7> HIDE DEF scalar, k
            <7> QED BY <6>5, <7>1, <7>2
          <6>4. a + n \in (a + 1)..(a + n)
            OBVIOUS
          <6> QED BY <6>2, <6>3, <6>4 DEF IsMissed, scalar
        <5>2. CASE k # scan.next
          <6>1. k - 1 \in on.next..(k - 1)
            BY <1>1, <1>2, <1>4, <4>3, <5>2
          <6>2. positions[k - 1][2] = moved.units
            BY <1>4, <6>1
          <6> QED BY <3>4, <6>2 DEF IsMissed
        <5> QED BY <5>1, <5>2
      <4> HIDE DEF k
      <4>7. Scanned(text, positions, new, old, lo, hi, a, n)
        BY <4>2, <4>3, <4>5, <4>6 DEF Scanned
      <4> QED BY <4>2, <4>7 DEF new, scalar
    <3>5. CASE ~(moved.next <= m /\ positions[moved.next][2] < moved.units)
      <4>1. new = moved
        BY <1>3, <1>6, <3>5
      <4>2. ASSUME moved.next <= m PROVE positions[moved.next][2] >= moved.units
        <5>1. moved.next \in 1..m
          BY <1>1, <1>2, <1>4, <4>2
        <5>2. moved.units \in Nat
          BY <1>4 DEF ScanState
        <5>3. positions[moved.next][2] \in Nat
          BY <5>1, PositionsAre
        <5> QED BY <3>5, <4>2, <5>2, <5>3
      <4> QED BY <1>4, <3>3, <4>1, <4>2 DEF new, scalar
    <3> QED BY <3>4, <3>5
  <2> QED BY <2>6, <2>7
<1> QED BY <1>5, <1>6

LEMMA ScanType ==
    ASSUME NEW positions \in Seq(Position), NEW scan \in ScanState(positions), NEW scalar
    PROVE  ScanScalar(positions, scan, scalar) \in ScanState(positions)
<1> DEFINE u == Units(scalar)
           on == [scan EXCEPT !.at = @ + 1, !.units = @ + u]
           moved == Take(positions, on)
           new == ScanScalar(positions, scan, scalar)
<1>1. /\ scan.next \in 1..(Len(positions) + 1) /\ scan.units + u \in Nat /\ scan.at + 1 \in Nat
      /\ scan.offsets \in Offsets /\ scan.error \in {"none", "split"}
      /\ scan = [next |-> scan.next, units |-> scan.units, at |-> scan.at, offsets |-> scan.offsets, error |-> scan.error]
  BY DEF ScanState, Units
<1>2. new = IF scan.error # "none" THEN scan
            ELSE IF moved.next <= Len(positions) /\ positions[moved.next][2] < moved.units
                 THEN [moved EXCEPT !.error = "split"]
                 ELSE moved
  BY DEF ScanScalar
<1>3. on = [scan EXCEPT !.at = scan.at + 1, !.units = scan.units + u]
  OBVIOUS
<1> HIDE DEF u, on
<1>4. on = [next |-> scan.next, units |-> scan.units + u, at |-> scan.at + 1, offsets |-> scan.offsets,
            error |-> scan.error]
  BY <1>1, <1>3
<1>5. on \in ScanState(positions)
  BY <1>1, <1>4 DEF ScanState
<1>6. moved \in ScanState(positions)
  BY <1>5, TakeStops
<1> HIDE DEF moved
<1>7. [moved EXCEPT !.error = "split"] \in ScanState(positions)
  BY <1>6 DEF ScanState
<1> HIDE DEF new
<1>8. new \in ScanState(positions)
  BY <1>2, <1>6, <1>7
<1> QED BY <1>8 DEF new

\* The scalars of a line are scanned one after the other.
LEMMA ScanFold ==
    ASSUME NEW list \in Seq(Scalars), NEW positions \in Seq(Position), NEW V, NEW b \in V,
           \A v \in V : \A d \in Scalars : ScanScalar(positions, v, d) \in V
    PROVE  LET step(v, d) == ScanScalar(positions, v, d)
               g == [k \in 1..Len(list) |-> [v \in V |-> step(v, list[k])]]
           IN  \E h : /\ IsTrace(h, Len(list), b, g, V)
                      /\ FoldLeft(step, b, list) = h[Len(list)]
<1> DEFINE N == Len(list)
           step(v, d) == ScanScalar(positions, v, d)
           g == [k \in 1..N |-> [v \in V |-> step(v, list[k])]]
           Is(it) == it = [d \in SUBSET DOMAIN list |->
                              IF d = {} THEN b ELSE step(it[d \ {Max(d)}], list[Max(d)])]
           it == CHOOSE f : Is(f)
           h == [n \in 0..N |-> it[1..n]]
<1>1. FoldLeft(step, b, list) = it[DOMAIN list]
  BY DEF FoldLeft, MapThenFoldSet
<1>2. /\ N \in Nat /\ DOMAIN list = 1..N /\ g \in [1..N -> [V -> V]]
      /\ \A k \in 1..N : list[k] \in Scalars /\ \A v \in V : g[k][v] = step(v, list[k])
  OBVIOUS
<1> HIDE DEF N, g, step
<1>3. \A d \in SUBSET (1..N) : d # {} => Max(d) \in 1..N
  BY <1>2, GreatestIsIn
<1>4. \E f : Is(f)
  <2>1. PICK f \in [SUBSET (1..N) -> V] : TakesIn(f, N, b, g)
    BY <1>2, FoldExists
  <2>2. \A d \in SUBSET (1..N) : d # {} => f[d] = step(f[d \ {Max(d)}], list[Max(d)])
    BY <1>2, <1>3, <2>1 DEF TakesIn
  <2>3. f[{}] = b
    BY <2>1 DEF TakesIn
  <2>4. Is(f)
    BY <1>2, <2>2, <2>3
  <2> QED BY <2>4
<1>5. Is(it)
  <2> HIDE DEF Is
  <2> QED BY <1>4
<1> HIDE DEF it
<1>6. Follows(it, N, b, g, V)
  <2>1. it[{}] = b /\ \A d \in SUBSET (1..N) : d # {} => it[d] = step(it[d \ {Max(d)}], list[Max(d)])
    BY <1>2, <1>5
  <2> HIDE DEF Is, h
  <2>2. ASSUME NEW d \in SUBSET (1..N), d # {}, it[d \ {Max(d)}] \in V
        PROVE  it[d] = g[Max(d)][it[d \ {Max(d)}]]
    <3>1. Max(d) \in 1..N
      BY <1>3, <2>2
    <3>2. it[d] = step(it[d \ {Max(d)}], list[Max(d)])
      BY <2>1, <2>2
    <3>3. g[Max(d)][it[d \ {Max(d)}]] = step(it[d \ {Max(d)}], list[Max(d)])
      BY <1>2, <2>2, <3>1
    <3> QED BY <3>2, <3>3
  <2> QED BY <2>1, <2>2 DEF Follows
<1>7. IsTrace(h, N, b, g, V)
  BY <1>2, <1>6, FoldTrace
<1>8. h[N] = it[DOMAIN list]
  BY <1>2
<1> HIDE DEF h
<1> QED BY <1>1, <1>7, <1>8 DEF N, step, g

\* The whole of a line is scanned.
LEMMA LineIsScanned ==
    ASSUME NEW text \in Seq(Scalars), NEW positions \in Seq(Position), NEW old \in Offsets,
           NEW lo \in Nat, NEW hi \in Nat, NEW a \in Nat, NEW e \in Nat,
           OnLine(positions, lo, hi), a <= e, e <= Len(text)
    PROVE  LET step(scan, scalar) == ScanScalar(positions, scan, scalar)
               done == FoldLeft(step, Take(positions, [next |-> lo, units |-> 0, at |-> a,
                                                       offsets |-> old, error |-> "none"]),
                                SubSeq(text, a + 1, e))
           IN  done \in ScanState(positions) /\ Scanned(text, positions, done, old, lo, hi, a, e - a)
<1> DEFINE list == SubSeq(text, a + 1, e)
           N == Len(list)
           V == ScanState(positions)
           first == [next |-> lo, units |-> 0, at |-> a, offsets |-> old, error |-> "none"]
           b == Take(positions, first)
           step(v, d) == ScanScalar(positions, v, d)
           g == [k \in 1..N |-> [v \in V |-> step(v, list[k])]]
           inv == [n \in 0..N |-> {v \in V : Scanned(text, positions, v, old, lo, hi, a, n)}]
<1>1. list \in Seq(Scalars) /\ N = e - a /\ \A k \in 1..N : list[k] = text[a + k]
  OBVIOUS
<1>2. N \in Nat
  BY <1>1
<1>3. lo \in 1..Len(positions) /\ lo \in 1..hi /\ hi \in 1..Len(positions)
  BY DEF OnLine
<1>4. first \in V
  BY <1>3 DEF ScanState
<1>5. Moved(text, positions, first, old, lo, hi, a, 0)
  <2>1. Between(text, a, a) = 0 /\ a + 0 = a
    BY NothingBetween
  <2>2. positions[lo][2] >= 0
    <3>1. positions[lo][2] \in Nat
      BY <1>3, PositionsAre
    <3> QED BY <3>1
  <2>3. \A k \in lo..hi : ~(k < lo)
    OBVIOUS
  <2>4. first.at = a + 0 /\ first.units = Between(text, a, a + 0) /\ first.next = lo /\ first.offsets = old
    BY <2>1
  <2>5. first.units = 0 /\ lo >= lo
    OBVIOUS
  <2>6. Passed(text, positions, lo, lo, a, 0)
    <3>1. lo..(lo - 1) = {}
      OBVIOUS
    <3> QED BY <3>1 DEF Passed
  <2> HIDE DEF first
  <2> QED BY <2>2, <2>3, <2>4, <2>5, <2>6 DEF Moved
<1>6. b \in V /\ Scanned(text, positions, b, old, lo, hi, a, 0)
  <2>1. first.error = "none" /\ first.units = 0 /\ 0 \in Nat
    OBVIOUS
  <2> HIDE DEF first
  <2>2. b \in V /\ b.units = 0
    BY <1>4, <2>1, TakeStops
  <2>3. ASSUME b.next <= Len(positions) PROVE positions[b.next][2] >= b.units
    <3>1. b.next \in 1..Len(positions)
      BY <2>2, <2>3 DEF ScanState
    <3>2. positions[b.next][2] \in Nat
      BY <3>1, PositionsAre
    <3> QED BY <2>2, <3>2
  <2>4. (b.next <= Len(positions) => positions[b.next][2] >= b.units)
           => Scanned(text, positions, b, old, lo, hi, a, 0)
    BY <1>4, <1>5, <2>1, TakeKeeps
  <2> QED BY <2>2, <2>3, <2>4
<1> HIDE DEF b, first
<1>7. \A v \in V : \A d \in Scalars : ScanScalar(positions, v, d) \in V
  BY ScanType
<1> HIDE DEF V
<1>8. PICK h : IsTrace(h, N, b, g, V) /\ FoldLeft(step, b, list) = h[N]
  <2>1. list \in Seq(Scalars) /\ b \in V
    BY <1>1, <1>6
  <2> HIDE DEF list
  <2> QED BY <1>7, <2>1, ScanFold
<1>9. b \in inv[0]
  BY <1>2, <1>6
<1>10. Preserves(inv, N, g, V)
  <2> SUFFICES ASSUME NEW n \in 1..N, NEW v \in V, v \in inv[n - 1] PROVE g[n][v] \in inv[n]
    BY DEF Preserves
  <2>0. Len(text) \in Nat
    OBVIOUS
  <2> HIDE DEF list, N
  <2>1. n - 1 \in 0..N /\ n \in 0..N /\ n \in Nat /\ n > 0 /\ a + n <= Len(text)
    BY <1>1, <1>2, <2>0
  <2>2. Scanned(text, positions, v, old, lo, hi, a, n - 1)
    BY <2>1
  <2>3. list[n] = text[a + n]
    BY <1>1
  <2>4. Scanned(text, positions, step(v, list[n]), old, lo, hi, a, n) /\ step(v, list[n]) \in V
    <3>1. v \in ScanState(positions)
      BY DEF V
    <3> QED BY <2>1, <2>2, <2>3, <3>1, ScanKeeps DEF V
  <2> HIDE DEF list, step
  <2> QED BY <2>1, <2>4
<1>11. h[N] \in V /\ h[N] \in inv[N]
  <2> HIDE DEF inv, g, b, N
  <2> QED BY <1>2, <1>6, <1>8, <1>9, <1>10, TraceInduction
<1>12. Scanned(text, positions, h[N], old, lo, hi, a, N)
  BY <1>2, <1>11
<1> QED BY <1>1, <1>8, <1>11, <1>12 DEF b, first, V

\* A place is in the middle of a wide scalar if one of the scalars of the line ends
\* one unit later.
LEMMA WideIsOnLine ==
    ASSUME NEW text \in Seq(Scalars), NEW line \in Nat, NEW a, NEW e, IsLine(text, line, a, e),
           NEW units \in Nat
    PROVE  IsWithinWide(text, line, units) <=>
              \E o \in (a + 1)..e : text[o] = "W" /\ Between(text, a, o) = units + 1
<1> DEFINE named == Named(text, <<line, units + 1>>)
<1>1. a \in Nat /\ e \in Nat /\ a <= e /\ e <= Len(text) /\ Len(text) \in Nat
  BY StartsAreFinite DEF IsLine
<1>2. named = {o \in a..e : Between(text, a, o) = units + 1}
  BY NamedOnLine
<1>3. \A o \in DOMAIN text : text[o] = "W" => o \in Boundaries(text)
  BY DEF Boundaries
<1>4. \A o \in DOMAIN text : text[o] = "W" =>
         (PositionOf(text, o) = <<line, units + 1>> <=> o \in named)
  BY <1>3 DEF Named
<1> HIDE DEF named
<1>5. \A o \in (a + 1)..e : o \in DOMAIN text /\ o \in a..e
  BY <1>1
<1>6. ASSUME NEW o \in named PROVE o \in (a + 1)..e
  <2>1. o \in a..e /\ Between(text, a, o) = units + 1
    BY <1>2
  <2>2. Between(text, a, a) = 0
    BY <1>1, NothingBetween
  <2>3. o # a
    BY <2>1, <2>2
  <2> QED BY <1>1, <2>1, <2>3
<1> QED BY <1>2, <1>4, <1>5, <1>6 DEF IsWithinWide

\* While a line is scanned no position of it is misread for another: the next position,
\* on whatever line, has no fewer units; and before one of a later line that would be
\* within a wide scalar there is one with more units.
NoneMissed(text, positions, line) ==
    /\ \A k \in DOMAIN positions :
          k + 1 \in DOMAIN positions /\ positions[k][1] = line
          => positions[k][2] <= positions[k + 1][2]
    /\ \A k \in DOMAIN positions :
          positions[k][1] > line /\ IsWithinWide(text, line, positions[k][2])
          => \E i \in DOMAIN positions : i <= k /\ positions[i][2] > positions[k][2]

\* The positions of a line are from lo on and before next, those of later lines after lo.
AreFrom(positions, line, lo, next) ==
    /\ \A k \in 1..Len(positions) : positions[k][1] = line => lo <= k /\ k < next
    /\ \A k \in 1..Len(positions) : positions[k][1] > line => lo <= k

LEMMA BothSides ==
    ASSUME NEW x \in Nat, NEW y \in Nat, NEW z \in Nat, x <= y, z > y
    PROVE  x <= z /\ z > x
OBVIOUS

LEMMA OneBetween ==
    ASSUME NEW n \in Nat, NEW x \in Nat, NEW y, NEW z, x + 2 = n + 1, y = n, z = n + 1
    PROVE  x < y /\ y < z
OBVIOUS

\* A line that is scanned to its end.
LEMMA ScanMissesNone ==
    ASSUME NEW text \in Seq(Scalars), NEW positions \in Seq(Position), NEW line \in Nat,
           NEW a \in Nat, NEW e \in Nat, IsLine(text, line, a, e),
           NEW lo \in 1..Len(positions), NEW next \in 1..(Len(positions) + 1),
           AreFrom(positions, line, lo, next),
           next <= Len(positions) => positions[next][2] > Between(text, a, e),
           Passed(text, positions, lo, next, a, e - a)
    PROVE  NoneMissed(text, positions, line)
<1> DEFINE m == Len(positions)
<1>1. /\ m \in Nat /\ DOMAIN positions = 1..m /\ a <= e /\ e <= Len(text) /\ a + (e - a) = e
      /\ lo \in Nat /\ next \in Nat /\ next <= m + 1
  BY DEF IsLine
<1>2. /\ \A k \in lo..(next - 1) : positions[k][2] <= Between(text, a, e)
      /\ \A j, k \in lo..(next - 1) : j < k => positions[j][2] <= positions[k][2]
  BY <1>1 DEF Passed
<1>3. \A k \in lo..(next - 1) : \E o \in a..e : Between(text, a, o) = positions[k][2]
  BY <1>1 DEF Passed
<1>4. \A k \in 1..m : positions[k][2] \in Nat
  BY PositionsAre
<1>5. Between(text, a, e) \in Nat
  BY <1>1, BetweenIsOneToOne
<1> HIDE DEF m
<1>6. ASSUME NEW k \in 1..m, k + 1 \in 1..m, positions[k][1] = line
      PROVE  positions[k][2] <= positions[k + 1][2]
  <2>1. k \in lo..(next - 1)
    <3>1. lo <= k /\ k < next
      BY <1>6 DEF m, AreFrom
    <3> QED BY <1>1, <3>1
  <2>2. CASE k + 1 < next
    <3>1. k + 1 \in lo..(next - 1) /\ k < k + 1
      BY <1>1, <2>1, <2>2
    <3> QED BY <1>2, <2>1, <3>1
  <2>3. CASE ~(k + 1 < next)
    <3>1. next = k + 1 /\ next <= m
      BY <1>1, <1>6, <2>1, <2>3
    <3>2. positions[k + 1][2] > Between(text, a, e) /\ positions[k][2] <= Between(text, a, e)
      BY <1>2, <2>1, <3>1 DEF m
    <3>3. positions[k + 1][2] \in Nat /\ positions[k][2] \in Nat
      BY <1>4, <1>6
    <3> QED BY <1>5, <3>2, <3>3, BothSides
  <2> QED BY <2>2, <2>3
<1>7. ASSUME NEW k \in 1..m, positions[k][1] > line, IsWithinWide(text, line, positions[k][2])
      PROVE  \E i \in 1..m : i <= k /\ positions[i][2] > positions[k][2]
  <2>1. positions[k][2] \in Nat
    BY <1>4
  <2>2. PICK o \in (a + 1)..e : text[o] = "W" /\ Between(text, a, o) = positions[k][2] + 1
    <3> DEFINE units == positions[k][2]
    <3>1. units \in Nat /\ IsWithinWide(text, line, units)
      BY <1>7, <2>1
    <3> HIDE DEF units
    <3>2. \E o \in (a + 1)..e : text[o] = "W" /\ Between(text, a, o) = units + 1
      BY <3>1, WideIsOnLine
    <3> QED BY <3>2 DEF units
  <2>3. o \in Nat /\ a <= o /\ o <= e /\ o - 1 \in Nat /\ a <= o - 1 /\ o - 1 < Len(text) /\ (o - 1) + 1 = o
    BY <1>1
  <2>4. Between(text, a, o - 1) + 2 = positions[k][2] + 1 /\ Between(text, a, o - 1) \in Nat
    <3>1. /\ Between(text, a, o - 1) \in Nat
          /\ Between(text, a, o) = Between(text, a, o - 1) + Units(text[o])
      BY <2>3, BetweenGrows
    <3>2. Units(text[o]) = 2
      BY <2>2 DEF Units
    <3> QED BY <2>2, <3>1, <3>2
  <2>5. ~(k < next)
    <3> SUFFICES ASSUME k < next PROVE FALSE
      OBVIOUS
    <3>1. lo <= k
      BY <1>7 DEF m, AreFrom
    <3>2. k \in lo..(next - 1)
      BY <1>1, <3>1
    <3>3. PICK p \in a..e : Between(text, a, p) = positions[k][2]
      BY <1>3, <3>2
    <3>4. p \in Nat /\ a <= p
      OBVIOUS
    <3>5. Between(text, a, o - 1) < Between(text, a, p) /\ Between(text, a, p) < Between(text, a, o)
      BY <2>1, <2>2, <2>4, <3>3, OneBetween
    <3>6. o - 1 < p
      BY <2>3, <3>4, <3>5, BetweenIsOneToOne
    <3>7. p < o
      BY <2>3, <3>4, <3>5, BetweenIsOneToOne
    <3> QED BY <2>3, <3>4, <3>6, <3>7
  <2>6. next \in 1..m /\ next <= k
    BY <1>1, <2>5
  <2>7. positions[next][2] > Between(text, a, e)
    BY <1>1, <2>6 DEF m
  <2>8. Between(text, a, o) <= Between(text, a, e)
    <3>1. CASE o = e
      BY <1>5, <3>1
    <3>2. CASE o < e
      <4>1. Between(text, a, o) < Between(text, a, e)
        BY <1>1, <2>3, <3>2, BetweenIsOneToOne
      <4> QED BY <1>5, <2>1, <2>2, <4>1
    <3> QED BY <2>3, <3>1, <3>2
  <2>9. positions[next][2] > positions[k][2]
    <3>1. positions[next][2] \in Nat
      BY <1>4, <2>6
    <3>2. positions[k][2] <= Between(text, a, e)
      <4>1. positions[k][2] + 1 <= Between(text, a, e)
        BY <2>2, <2>8
      <4> QED BY <1>5, <2>1, <4>1
    <3> QED BY <1>5, <2>1, <2>7, <3>1, <3>2, BothSides
  <2> QED BY <2>6, <2>9
<1> QED BY <1>1, <1>6, <1>7 DEF NoneMissed

\* What one line adds to the offsets.
AddsLine(text, positions, old, new, line) ==
    /\ new \in Offsets
    /\ \A k \in DOMAIN positions : positions[k][1] = line =>
          positions[k] \in DOMAIN new /\ new[positions[k]] \in Named(text, positions[k])
    /\ \A p \in DOMAIN old : p[1] < line => p \in DOMAIN new /\ new[p] = old[p]
    /\ \A p \in DOMAIN new : p \in DOMAIN old \/ \E k \in DOMAIN positions : p = positions[k]

LEMMA LineIsResolved ==
    ASSUME NEW text \in Seq(Scalars), NEW positions, AreSorted(positions), NEW old \in Offsets,
           NEW line \in Nat, line < Cardinality(LineStarts(text)),
           \E k \in DOMAIN positions : positions[k][1] = line
    PROVE  LET made == ResolveLine(text, positions, old, line)
           IN  \/ /\ made = [error |-> "none", offsets |-> made.offsets]
                  /\ AddsLine(text, positions, old, made.offsets, line)
                  /\ NoneMissed(text, positions, line)
               \/ /\ made = [error |-> "character"]
                  /\ \E k \in DOMAIN positions : Named(text, positions[k]) = {}
               \/ /\ made = [error |-> "split"]
                  /\ \/ \E k \in DOMAIN positions : Named(text, positions[k]) = {}
                     \/ \E j, k \in DOMAIN positions : Misread(text, positions[j], positions[k])
<1> DEFINE m == Len(positions)
           of(n) == {k \in DOMAIN positions : positions[k][1] = n}
           on == of(line)
           lo == Min(on)
           hi == Max(on)
           range == LineRange(text, line)
           a == range[1]
           e == range[2]
           step(scan, scalar) == ScanScalar(positions, scan, scalar)
           done == FoldLeft(step, Take(positions, [next |-> lo, units |-> 0, at |-> a,
                                                   offsets |-> old, error |-> "none"]),
                            SubSeq(text, a + 1, e))
           made == ResolveLine(text, positions, old, line)
<1>1. positions \in Seq(Position) /\ m \in Nat /\ DOMAIN positions = 1..m
  BY DEF AreSorted
<1>2. made = IF done.error # "none" THEN [error |-> done.error]
             ELSE IF done.next <= hi THEN [error |-> "character"]
             ELSE [error |-> "none", offsets |-> done.offsets]
  BY DEF ResolveLine, Failed
<1>3. IsLine(text, line, a, e)
  BY LineRangeIsLine
<1>4. a \in Nat /\ e \in Nat /\ a <= e /\ e <= Len(text)
  BY <1>3, StartsAreFinite DEF IsLine
<1> HIDE DEF range, a, e
<1>5. on \in SUBSET (1..m) /\ on # {} /\ on \subseteq Nat
  BY <1>1
<1>6. lo \in on /\ hi \in on /\ \A k \in on : lo <= k /\ k <= hi
  <2> HIDE DEF on
  <2> QED BY <1>1, <1>5, LeastNumber, GreatestIsIn
<1> HIDE DEF lo, hi
<1>7. lo \in 1..m /\ hi \in 1..m /\ lo <= hi /\ positions[lo][1] = line /\ positions[hi][1] = line
  BY <1>5, <1>6
<1>8. ASSUME NEW j \in 1..m, NEW k \in 1..m, j < k
      PROVE  positions[j][1] < positions[k][1] \/ (positions[j][1] = positions[k][1] /\ positions[j][2] < positions[k][2])
  BY <1>1, <1>8 DEF AreSorted, Before
<1>9. \A k \in 1..m : /\ positions[k] = <<positions[k][1], positions[k][2]>>
                       /\ positions[k][1] \in Nat /\ positions[k][2] \in Nat
  BY <1>1 DEF Position
<1>10. ASSUME NEW k \in lo..hi PROVE k \in 1..m /\ positions[k][1] = line
  <2>1. k \in 1..m /\ k \in Nat
    BY <1>1, <1>7
  <2>2. positions[k][1] \in Nat
    BY <1>9, <2>1
  <2>3. positions[k][1] >= line
    <3>1. CASE k = lo
      BY <1>7, <3>1
    <3>2. CASE lo < k
      BY <1>7, <1>8, <2>1, <2>2, <3>2
    <3> QED BY <1>7, <2>1, <3>1, <3>2
  <2>4. positions[k][1] <= line
    <3>1. CASE k = hi
      BY <1>7, <3>1
    <3>2. CASE k < hi
      BY <1>7, <1>8, <2>1, <2>2, <3>2
    <3> QED BY <1>7, <2>1, <3>1, <3>2
  <2> QED BY <2>1, <2>2, <2>3, <2>4
<1>11. OnLine(positions, lo, hi)
  <2>1. ASSUME NEW j \in lo..hi, NEW k \in lo..hi, j < k PROVE positions[j][2] < positions[k][2]
    <3>1. j \in 1..m /\ k \in 1..m /\ positions[j][1] = line /\ positions[k][1] = line
      BY <1>10
    <3> QED BY <1>8, <2>1, <3>1
  <2> QED BY <1>1, <1>7, <2>1 DEF OnLine
<1>12. lo \in Nat /\ hi \in Nat
  BY <1>7
<1>13. done \in ScanState(positions) /\ Scanned(text, positions, done, old, lo, hi, a, e - a)
  BY <1>1, <1>4, <1>11, <1>12, LineIsScanned
<1> HIDE DEF done, made
<1>14. done.next \in Nat /\ done.offsets \in Offsets /\ done.error \in {"none", "split"}
  BY <1>13 DEF ScanState
<1>15. \A k \in 1..m : positions[k][1] = line =>
          Named(text, positions[k]) = {o \in a..e : Between(text, a, o) = positions[k][2]}
  <2> TAKE k \in 1..m
  <2> SUFFICES ASSUME positions[k][1] = line
               PROVE  Named(text, positions[k]) = {o \in a..e : Between(text, a, o) = positions[k][2]}
    OBVIOUS
  <2>1. positions[k] = <<line, positions[k][2]>>
    BY <1>9
  <2>2. \A c : Named(text, <<line, c>>) = {o \in a..e : Between(text, a, o) = c}
    <3> HIDE DEF m, of, on, step
    <3> QED BY <1>3, NamedOnLine
  <2> QED BY <2>1, <2>2
<1>16. CASE done.error # "none"
  <2>1. done.error = "split" /\ made = [error |-> "split"]
    BY <1>2, <1>14, <1>16
  <2>2. PICK k \in lo..m : \/ k <= hi /\ IsNowhere(text, a, positions[k])
                           \/ k > hi /\ IsMissed(text, positions, k, a, e - a)
    BY <1>13, <2>1 DEF Scanned
  <2>3. k \in 1..m /\ k \in Nat
    BY <1>1, <1>7
  <2>4. CASE k <= hi /\ IsNowhere(text, a, positions[k])
    <3>1. positions[k][1] = line
      BY <1>10, <1>12, <2>3, <2>4
    <3>2. Named(text, positions[k]) = {}
      <4>1. \A o \in a..e : Between(text, a, o) # positions[k][2]
        BY <1>4, <2>4 DEF IsNowhere
      <4> QED BY <1>15, <2>3, <3>1, <4>1
    <3> QED BY <1>1, <2>1, <2>3, <3>2 DEF made
  <2>5. CASE k > hi /\ IsMissed(text, positions, k, a, e - a)
    <3>1. positions[k][1] > line
      <4>1. positions[hi][1] < positions[k][1] \/ positions[hi][1] = positions[k][1]
        BY <1>7, <1>8, <1>12, <2>3, <2>5
      <4>2. positions[k][1] # line
        BY <1>1, <1>6, <1>12, <2>3, <2>5
      <4> QED BY <1>7, <1>9, <2>3, <4>1, <4>2
    <3>2. \E j \in 1..m : Misread(text, positions[j], positions[k])
      <4>1. CASE positions[k][2] < positions[k - 1][2]
        <5>1. k - 1 \in 1..m /\ k - 1 < k
          BY <1>1, <1>7, <1>12, <2>3, <2>5
        <5>2. positions[k - 1][2] \in Nat /\ positions[k][2] \in Nat
          BY <1>9, <2>3, <5>1
        <5>3. ~(positions[k - 1][2] < positions[k][2])
          BY <4>1, <5>2
        <5>4. positions[k - 1][1] < positions[k][1]
          BY <1>8, <2>3, <5>1, <5>3
        <5> QED BY <4>1, <5>1, <5>4 DEF Misread
      <4>2. CASE \E o \in (a + 1)..(a + (e - a)) :
                    text[o] = "W" /\ Between(text, a, o) = positions[k][2] + 1
        <5>1. a + (e - a) = e
          BY <1>4
        <5>2. \E o \in (a + 1)..e : text[o] = "W" /\ Between(text, a, o) = positions[k][2] + 1
          BY <4>2, <5>1
        <5>3. IsWithinWide(text, line, positions[k][2])
          <6>1. positions[k][2] \in Nat
            BY <1>9, <2>3
          <6> QED BY <1>3, <5>2, <6>1, WideIsOnLine
        <5>4. line < positions[k][1]
          BY <1>9, <2>3, <3>1
        <5> QED BY <1>7, <5>3, <5>4 DEF Misread
      <4> QED BY <2>5, <4>1, <4>2 DEF IsMissed
    <3> QED BY <1>1, <2>1, <2>3, <3>2 DEF made
  <2> QED BY <2>2, <2>4, <2>5
<1>17. CASE done.error = "none" /\ done.next <= hi
  <2>1. made = [error |-> "character"]
    BY <1>2, <1>17
  <2>2. positions[done.next][2] > done.units /\ done.units = Between(text, a, a + (e - a)) /\ done.next >= lo
    <3>1. done.next <= m
      BY <1>1, <1>7, <1>12, <1>14, <1>17
    <3> QED BY <1>13, <1>17, <3>1 DEF Scanned
  <2>3. done.next \in lo..hi /\ a + (e - a) = e
    BY <1>4, <1>12, <1>14, <1>17, <2>2
  <2>4. done.next \in 1..m /\ positions[done.next][1] = line
    BY <1>10, <2>3
  <2>5. Named(text, positions[done.next]) = {}
    <3> SUFFICES ASSUME NEW o \in a..e, Between(text, a, o) = positions[done.next][2] PROVE FALSE
      BY <1>15, <2>4
    <3>1. Between(text, a, e) < Between(text, a, o)
      BY <2>2, <2>3
    <3>2. o \in Nat /\ a <= o /\ o <= e
      BY <1>4
    <3>3. e < o
      BY <1>4, <3>1, <3>2, BetweenIsOneToOne
    <3> QED BY <1>4, <3>2, <3>3
  <2> QED BY <1>1, <2>1, <2>4, <2>5 DEF made
<1>18. CASE done.error = "none" /\ ~(done.next <= hi)
  <2>1. made = [error |-> "none", offsets |-> done.offsets]
    BY <1>2, <1>18
  <2>2. ASSUME NEW k \in 1..m, positions[k][1] = line
        PROVE  positions[k] \in DOMAIN done.offsets /\ done.offsets[positions[k]] \in Named(text, positions[k])
    <3>1. k \in lo..hi /\ k < done.next
      BY <1>1, <1>6, <1>12, <1>14, <1>18, <2>2
    <3>2. IsAt(text, a, positions[k], done.offsets) /\ done.offsets[positions[k]] <= a + (e - a)
      BY <1>13, <1>18, <3>1 DEF Scanned
    <3>3. done.offsets[positions[k]] \in a..e
      BY <1>4, <3>2 DEF IsAt
    <3> QED BY <1>15, <2>2, <3>2, <3>3 DEF IsAt
  <2>3. ASSUME NEW p \in DOMAIN old, p[1] < line
        PROVE  p \in DOMAIN done.offsets /\ done.offsets[p] = old[p]
    <3>1. p \in Position
      BY OffsetsAre
    <3>2. ASSUME NEW k \in lo..m PROVE p # positions[k]
      <4>1. k \in 1..m /\ k \in Nat
        BY <1>7
      <4>2. positions[k][1] >= line /\ positions[k][1] \in Nat
        <5>1. CASE k = lo
          BY <1>7, <1>9, <4>1, <5>1
        <5>2. CASE lo < k
          BY <1>7, <1>8, <1>9, <4>1, <5>2
        <5> QED BY <1>7, <4>1, <5>1, <5>2
      <4> QED BY <2>3, <4>2
    <3> QED BY <1>13, <1>18, <3>2 DEF Scanned
  <2>4. \A p \in DOMAIN done.offsets : p \in DOMAIN old \/ \E k \in DOMAIN positions : p = positions[k]
    <3>1. \A k \in lo..m : k \in DOMAIN positions
      BY <1>1, <1>7
    <3> QED BY <1>13, <1>18, <3>1 DEF Scanned
  <2>5. AddsLine(text, positions, old, done.offsets, line)
    BY <1>1, <1>14, <2>2, <2>3, <2>4 DEF AddsLine
  <2>6. NoneMissed(text, positions, line)
    <3>1. \A k \in 1..m : positions[k][1] = line => lo <= k /\ k < done.next
      BY <1>1, <1>6, <1>12, <1>14, <1>18
    <3>2. ASSUME NEW k \in 1..m, positions[k][1] > line PROVE lo <= k
      <4> SUFFICES ASSUME k < lo PROVE FALSE
        BY <1>7
      <4>1. positions[k][1] < line \/ positions[k][1] = line
        BY <1>7, <1>8
      <4> QED BY <1>9, <3>2, <4>1
    <3>3. /\ Passed(text, positions, lo, done.next, a, e - a)
          /\ done.next <= m => positions[done.next][2] > Between(text, a, e)
      <4>1. a + (e - a) = e
        BY <1>4
      <4> QED BY <1>13, <1>18, <4>1 DEF Scanned
    <3>4. done.next \in 1..(m + 1)
      BY <1>13 DEF ScanState
    <3>5. AreFrom(positions, line, lo, done.next)
      BY <3>1, <3>2 DEF AreFrom
    <3> HIDE DEF on, of, step
    <3> QED BY <1>1, <1>3, <1>4, <1>7, <3>3, <3>4, <3>5, ScanMissesNone
  <2> QED BY <2>1, <2>5, <2>6 DEF made
<1> QED BY <1>14, <1>16, <1>17, <1>18

\* What the lines of a list come to, and the steps on the way.
Lines(text, positions, b, list) ==
    FoldLeft(LAMBDA v, d : NextLine(text, positions, v, d), b, list)

LineSteps(text, positions, list, V) ==
    [k \in 1..Len(list) |-> [v \in V |-> NextLine(text, positions, v, list[k])]]

\* Lines are resolved one after the other.
LEMMA LinesFold ==
    ASSUME NEW D, NEW list \in Seq(D), NEW text \in Seq(Scalars), NEW positions \in Seq(Position),
           NEW V, NEW b \in V,
           \A v \in V : \A d \in D : NextLine(text, positions, v, d) \in V
    PROVE  \E h : /\ IsTrace(h, Len(list), b, LineSteps(text, positions, list, V), V)
                  /\ Lines(text, positions, b, list) = h[Len(list)]
<1> DEFINE N == Len(list)
           step(v, d) == NextLine(text, positions, v, d)
           g == [k \in 1..N |-> [v \in V |-> step(v, list[k])]]
           Is(it) == it = [d \in SUBSET DOMAIN list |->
                              IF d = {} THEN b ELSE step(it[d \ {Max(d)}], list[Max(d)])]
           it == CHOOSE f : Is(f)
           h == [n \in 0..N |-> it[1..n]]
<1>1. FoldLeft(step, b, list) = it[DOMAIN list]
  BY DEF FoldLeft, MapThenFoldSet
<1>2. /\ N \in Nat /\ DOMAIN list = 1..N /\ g \in [1..N -> [V -> V]]
      /\ \A k \in 1..N : list[k] \in D /\ \A v \in V : g[k][v] = step(v, list[k])
  OBVIOUS
<1> HIDE DEF N, g, step
<1>3. \A d \in SUBSET (1..N) : d # {} => Max(d) \in 1..N
  BY <1>2, GreatestIsIn
<1>4. \E f : Is(f)
  <2>1. PICK f \in [SUBSET (1..N) -> V] : TakesIn(f, N, b, g)
    BY <1>2, FoldExists
  <2>2. \A d \in SUBSET (1..N) : d # {} => f[d] = step(f[d \ {Max(d)}], list[Max(d)])
    BY <1>2, <1>3, <2>1 DEF TakesIn
  <2>3. f[{}] = b
    BY <2>1 DEF TakesIn
  <2>4. Is(f)
    BY <1>2, <2>2, <2>3
  <2> QED BY <2>4
<1>5. Is(it)
  <2> HIDE DEF Is
  <2> QED BY <1>4
<1> HIDE DEF it
<1>6. Follows(it, N, b, g, V)
  <2>1. it[{}] = b /\ \A d \in SUBSET (1..N) : d # {} => it[d] = step(it[d \ {Max(d)}], list[Max(d)])
    BY <1>2, <1>5
  <2> HIDE DEF Is, h
  <2>2. ASSUME NEW d \in SUBSET (1..N), d # {}, it[d \ {Max(d)}] \in V
        PROVE  it[d] = g[Max(d)][it[d \ {Max(d)}]]
    <3>1. Max(d) \in 1..N
      BY <1>3, <2>2
    <3>2. it[d] = step(it[d \ {Max(d)}], list[Max(d)])
      BY <2>1, <2>2
    <3>3. g[Max(d)][it[d \ {Max(d)}]] = step(it[d \ {Max(d)}], list[Max(d)])
      BY <1>2, <2>2, <3>1
    <3> QED BY <3>2, <3>3
  <2> QED BY <2>1, <2>2 DEF Follows
<1>7. IsTrace(h, N, b, g, V)
  BY <1>2, <1>6, FoldTrace
<1>8. h[N] = it[DOMAIN list]
  BY <1>2
<1> HIDE DEF h
<1>9. g = LineSteps(text, positions, list, V)
  BY DEF LineSteps, g, step, N
<1>10. FoldLeft(step, b, list) = Lines(text, positions, b, list)
  BY DEF Lines, step
<1> QED BY <1>1, <1>7, <1>8, <1>9, <1>10 DEF N

LinesFound == [error: {"none"}, offsets: Offsets] \cup [error: {"character", "split"}]

\* What is known of the positions after some lines.
HasResolved(text, positions, found, lines) ==
    /\ found.error = "none" =>
          /\ \A k \in DOMAIN positions : positions[k][1] \in lines =>
                positions[k] \in DOMAIN found.offsets /\ found.offsets[positions[k]] \in Named(text, positions[k])
          /\ \A p \in DOMAIN found.offsets : \E k \in DOMAIN positions : p = positions[k]
          /\ \A line \in lines : NoneMissed(text, positions, line)
    /\ found.error = "character" => \E k \in DOMAIN positions : Named(text, positions[k]) = {}
    /\ found.error = "split" =>
          \/ \E k \in DOMAIN positions : Named(text, positions[k]) = {}
          \/ \E j, k \in DOMAIN positions : Misread(text, positions[j], positions[k])

\* One line more.
LEMMA NextLineKeeps ==
    ASSUME NEW text \in Seq(Scalars), NEW positions, AreSorted(positions), NEW found \in LinesFound,
           NEW line \in Nat, line < Cardinality(LineStarts(text)),
           \E k \in DOMAIN positions : positions[k][1] = line
    PROVE  LET new == NextLine(text, positions, found, line)
           IN  /\ new \in LinesFound
               /\ \A lines \in SUBSET Nat :
                     HasResolved(text, positions, found, lines) /\ (\A l \in lines : l < line)
                        => HasResolved(text, positions, new, lines \cup {line})
<1> DEFINE new == NextLine(text, positions, found, line)
<1>1. CASE found.error # "none"
  <2>1. new = found
    BY <1>1 DEF NextLine
  <2>2. ASSUME NEW lines, HasResolved(text, positions, found, lines)
        PROVE  HasResolved(text, positions, found, lines \cup {line})
    BY <1>1, <2>2 DEF HasResolved
  <2> QED BY <2>1, <2>2
<1>2. CASE found.error = "none"
  <2> DEFINE old == found.offsets
             made == ResolveLine(text, positions, old, line)
  <2>1. new = made /\ old \in Offsets
    BY <1>2 DEF NextLine, LinesFound
  <2> HIDE DEF new, old
  <2>2. \/ /\ made = [error |-> "none", offsets |-> made.offsets]
           /\ AddsLine(text, positions, old, made.offsets, line)
           /\ NoneMissed(text, positions, line)
        \/ /\ made = [error |-> "character"]
           /\ \E k \in DOMAIN positions : Named(text, positions[k]) = {}
        \/ /\ made = [error |-> "split"]
           /\ \/ \E k \in DOMAIN positions : Named(text, positions[k]) = {}
              \/ \E j, k \in DOMAIN positions : Misread(text, positions[j], positions[k])
    BY <2>1, LineIsResolved
  <2> HIDE DEF made
  <2>3. CASE /\ made = [error |-> "none", offsets |-> made.offsets]
             /\ AddsLine(text, positions, old, made.offsets, line)
             /\ NoneMissed(text, positions, line)
    <3>1. made.offsets \in Offsets /\ made.error = "none"
      BY <2>3 DEF AddsLine
    <3>2. new \in LinesFound
      BY <2>1, <2>3, <3>1 DEF LinesFound
    <3>3. ASSUME NEW lines \in SUBSET Nat, HasResolved(text, positions, found, lines), \A l \in lines : l < line
          PROVE  HasResolved(text, positions, new, lines \cup {line})
      <4>1. ASSUME NEW k \in DOMAIN positions, positions[k][1] \in lines \cup {line}
            PROVE  positions[k] \in DOMAIN made.offsets /\ made.offsets[positions[k]] \in Named(text, positions[k])
        <5>1. CASE positions[k][1] = line
          BY <2>3, <5>1 DEF AddsLine
        <5>2. CASE positions[k][1] \in lines
          <6>1. positions[k] \in DOMAIN old /\ old[positions[k]] \in Named(text, positions[k])
            BY <1>2, <3>3, <5>2 DEF HasResolved, old
          <6>2. positions[k][1] < line
            BY <3>3, <5>2
          <6> QED BY <2>3, <6>1, <6>2 DEF AddsLine
        <5> QED BY <4>1, <5>1, <5>2
      <4>2. \A p \in DOMAIN made.offsets : \E k \in DOMAIN positions : p = positions[k]
        <5>1. \A p \in DOMAIN old : \E k \in DOMAIN positions : p = positions[k]
          BY <1>2, <3>3 DEF HasResolved, old
        <5> QED BY <2>3, <5>1 DEF AddsLine
      <4>3. \A l \in lines \cup {line} : NoneMissed(text, positions, l)
        BY <1>2, <2>3, <3>3 DEF HasResolved
      <4> QED BY <2>1, <3>1, <4>1, <4>2, <4>3 DEF HasResolved
    <3> QED BY <3>2, <3>3 DEF new
  <2>4. CASE made = [error |-> "character"] /\ \E k \in DOMAIN positions : Named(text, positions[k]) = {}
    <3>1. new \in LinesFound /\ new.error = "character"
      BY <2>1, <2>4 DEF LinesFound
    <3>2. \A lines : HasResolved(text, positions, new, lines)
      BY <2>4, <3>1 DEF HasResolved
    <3> QED BY <3>1, <3>2 DEF new
  <2>5. CASE /\ made = [error |-> "split"]
             /\ \/ \E k \in DOMAIN positions : Named(text, positions[k]) = {}
                \/ \E j, k \in DOMAIN positions : Misread(text, positions[j], positions[k])
    <3>1. new \in LinesFound /\ new.error = "split"
      BY <2>1, <2>5 DEF LinesFound
    <3>2. \A lines : HasResolved(text, positions, new, lines)
      BY <2>5, <3>1 DEF HasResolved
    <3> QED BY <3>1, <3>2 DEF new
  <2> QED BY <2>2, <2>3, <2>4, <2>5
<1> QED BY <1>1, <1>2

\* Where no line was missed any, later positions have no fewer units.
LEMMA UnitsAscend ==
    ASSUME NEW text, NEW positions, AreSorted(positions),
           \A k \in DOMAIN positions : NoneMissed(text, positions, positions[k][1]),
           NEW j \in DOMAIN positions, NEW k \in DOMAIN positions, j <= k
    PROVE  positions[j][2] <= positions[k][2]
<1> DEFINE m == Len(positions)
           bad == {i \in DOMAIN positions : j <= i /\ ~(positions[j][2] <= positions[i][2])}
           l == Min(bad)
<1>1. positions \in Seq(Position) /\ m \in Nat /\ DOMAIN positions = 1..m
  BY DEF AreSorted
<1>2. \A i \in 1..m : positions[i][2] \in Nat
  BY <1>1 DEF Position
<1> SUFFICES ASSUME bad # {} PROVE FALSE
  OBVIOUS
<1>3. l \in bad /\ \A i \in bad : l <= i
  <2>1. bad \subseteq Nat
    BY <1>1
  <2> HIDE DEF bad
  <2> QED BY <2>1, LeastNumber
<1> HIDE DEF l
<1>4. l \in 1..m /\ j \in 1..m /\ j <= l /\ ~(positions[j][2] <= positions[l][2])
  BY <1>1, <1>3
<1>5. j # l
  BY <1>2, <1>4
<1>6. l - 1 \in 1..m /\ (l - 1) + 1 = l /\ j <= l - 1 /\ ~(l <= l - 1)
  BY <1>1, <1>4, <1>5
<1>7. positions[j][2] <= positions[l - 1][2]
  <2>1. l - 1 \notin bad
    BY <1>3, <1>6
  <2> QED BY <1>1, <1>6, <2>1
<1> HIDE DEF bad
<1>8. positions[l - 1][2] <= positions[l][2]
  BY <1>1, <1>4, <1>6 DEF NoneMissed
<1>9. positions[j][2] \in Nat /\ positions[l - 1][2] \in Nat /\ positions[l][2] \in Nat
  BY <1>2, <1>4, <1>6
<1> QED BY <1>4, <1>7, <1>8, <1>9

\* Where no line was missed any, none is misread for another.
LEMMA NoneIsMisread ==
    ASSUME NEW text, NEW positions, AreSorted(positions),
           \A k \in DOMAIN positions : NoneMissed(text, positions, positions[k][1]),
           NEW j \in DOMAIN positions, NEW k \in DOMAIN positions
    PROVE  ~Misread(text, positions[j], positions[k])
<1>1. positions \in Seq(Position) /\ DOMAIN positions = 1..Len(positions)
  BY DEF AreSorted
<1>2. \A i \in DOMAIN positions : positions[i][1] \in Nat /\ positions[i][2] \in Nat /\ i \in Nat
  BY <1>1 DEF Position
<1> SUFFICES ASSUME positions[j][1] < positions[k][1]
             PROVE  ~(positions[k][2] < positions[j][2] \/ IsWithinWide(text, positions[j][1], positions[k][2]))
  BY DEF Misread
<1>3. j < k
  <2>1. ~(k < j)
    <3>1. k < j => Before(positions[k], positions[j])
      BY DEF AreSorted
    <3> QED BY <1>2, <3>1 DEF Before
  <2>2. j # k
    BY <1>2
  <2> QED BY <1>2, <2>1, <2>2
<1>4. ~(positions[k][2] < positions[j][2])
  <2>1. j <= k
    BY <1>2, <1>3
  <2>2. positions[j][2] <= positions[k][2]
    BY <2>1, UnitsAscend
  <2> QED BY <1>2, <2>2
<1>5. ASSUME IsWithinWide(text, positions[j][1], positions[k][2]) PROVE FALSE
  <2>1. positions[k][1] > positions[j][1]
    BY <1>2
  <2>2. PICK i \in DOMAIN positions : i <= k /\ positions[i][2] > positions[k][2]
    BY <1>5, <2>1 DEF NoneMissed
  <2>3. positions[i][2] <= positions[k][2]
    BY <2>2, UnitsAscend
  <2> QED BY <1>2, <2>2, <2>3
<1> QED BY <1>4, <1>5

\* All positions of a text are resolved to the offsets they name, or it is said of one
\* that it names none, or one is misread for another of an earlier line
\* (resolve_position_offsets).
THEOREM AllAreResolved ==
    ASSUME NEW text \in Seq(Scalars), NEW positions, AreSorted(positions)
    PROVE  LET made == Resolve(text, positions)
               offsets == made.offsets
           IN  \/ /\ made = [error |-> "none", offsets |-> offsets]
                  /\ offsets = [p \in DOMAIN offsets |-> offsets[p]]
                  /\ \A p : p \in DOMAIN offsets <=> \E k \in DOMAIN positions : p = positions[k]
                  /\ \A k \in DOMAIN positions : offsets[positions[k]] \in Named(text, positions[k])
                  /\ ~ \E j, k \in DOMAIN positions : Misread(text, positions[j], positions[k])
               \/ /\ made = [error |-> "line"] \/ made = [error |-> "character"]
                  /\ \E k \in DOMAIN positions : Named(text, positions[k]) = {}
               \/ /\ made = [error |-> "split"]
                  /\ \/ \E k \in DOMAIN positions : Named(text, positions[k]) = {}
                     \/ \E j, k \in DOMAIN positions : Misread(text, positions[j], positions[k])
<1> DEFINE m == Len(positions)
           lines == {positions[k][1] : k \in DOMAIN positions}
           asc == Ascending(lines)
           N == Cardinality(lines)
           none == <<>>
           b == [error |-> "none", offsets |-> none]
           V == LinesFound
           step(v, d) == NextLine(text, positions, v, d)
           done == FoldLeft(step, b, asc)
           made == Resolve(text, positions)
           some == \E line \in lines : line >= Cardinality(LineStarts(text))
           g == [k \in 1..N |-> [v \in V |-> step(v, asc[k])]]
           upto(n) == {asc[j] : j \in 1..n}
           inv == [n \in 0..N |-> {v \in V : HasResolved(text, positions, v, upto(n))}]
<1>1. positions \in Seq(Position) /\ m \in Nat /\ DOMAIN positions = 1..m
  BY DEF AreSorted
<1>2. made = IF some THEN [error |-> "line"] ELSE done
  BY DEF Resolve, Failed
<1>3. lines \in SUBSET Nat /\ lines \subseteq Nat
  BY <1>1, PositionsAre
<1>4. IsFiniteSet(lines)
  <2>1. IsFiniteSet(1..m)
    BY <1>1, FS_Interval
  <2> DEFINE f == [k \in 1..m |-> positions[k][1]]
  <2>3. lines = {f[k] : k \in 1..m}
    BY <1>1
  <2> HIDE DEF f, lines
  <2> QED BY <2>1, <2>3, ImageIsFinite
<1>5. /\ N \in Nat
      /\ asc \in [1..N -> lines]
      /\ \A x \in lines : \E k \in 1..N : asc[k] = x
      /\ \A j, k \in 1..N : j < k <=> asc[j] < asc[k]
  <2> HIDE DEF lines
  <2> QED BY <1>3, <1>4, AscendingIsInOrder
<1>6. asc \in Seq(lines) /\ Len(asc) = N
  <2> HIDE DEF asc, lines, N
  <2> QED BY <1>5
<1>7. CASE some
  <2>1. PICK k \in DOMAIN positions : positions[k][1] >= Cardinality(LineStarts(text))
    BY <1>7
  <2>2. positions[k] = <<positions[k][1], positions[k][2]>> /\ positions[k][1] \in Nat
    BY <1>1 DEF Position
  <2>3. Named(text, positions[k]) = {}
    BY <2>1, <2>2, NamedOnNoLine
  <2> HIDE DEF some, made, done
  <2>4. made = [error |-> "line"]
    BY <1>2, <1>7
  <2> QED BY <2>3, <2>4 DEF made
<1>8. CASE ~some
  <2>1. \A line \in lines : line \in Nat /\ line < Cardinality(LineStarts(text))
    <3> TAKE line \in lines
    <3>1. Cardinality(LineStarts(text)) \in Nat
      BY StartsAreFinite
    <3>2. line \in Nat
      BY <1>3
    <3>3. ~(line >= Cardinality(LineStarts(text)))
      BY <1>8
    <3> HIDE DEF lines, some
    <3> QED BY <3>1, <3>2, <3>3
  <2>2. made = done
    BY <1>2, <1>8
  <2>3. \A line \in lines : \E k \in DOMAIN positions : positions[k][1] = line
    OBVIOUS
  <2> HIDE DEF lines, asc, N, made, some
  <2>4. b \in V
    <3>1. none = [p \in DOMAIN none |-> none[p]] /\ DOMAIN none = {}
      OBVIOUS
    <3> HIDE DEF none
    <3>2. none \in Offsets
      BY <3>1, OffsetsAre
    <3> QED BY <3>2 DEF LinesFound
  <2>5. HasResolved(text, positions, b, upto(0))
    <3>1. upto(0) = {}
      OBVIOUS
    <3>2. b.error = "none" /\ DOMAIN b.offsets = {}
      OBVIOUS
    <3> HIDE DEF b, upto
    <3> QED BY <3>1, <3>2 DEF HasResolved
  <2>6. ASSUME NEW v \in V, NEW line \in lines PROVE NextLine(text, positions, v, line) \in V
    BY <2>1, <2>3, NextLineKeeps
  <2> HIDE DEF b, V
  <2>7. PICK h : IsTrace(h, N, b, g, V) /\ FoldLeft(step, b, asc) = h[N]
    <3>1. asc \in Seq(lines) /\ Len(asc) = N
      BY <1>6
    <3>2. \A v \in V : \A d \in lines : NextLine(text, positions, v, d) \in V
      BY <2>6
    <3>3. positions \in Seq(Position)
      BY <1>1
    <3>4. g = LineSteps(text, positions, asc, V)
      BY <3>1 DEF LineSteps
    <3>5. FoldLeft(step, b, asc) = Lines(text, positions, b, asc)
      BY DEF Lines
    <3> HIDE DEF g, step
    <3>6. \E h : /\ IsTrace(h, Len(asc), b, LineSteps(text, positions, asc, V), V)
                 /\ Lines(text, positions, b, asc) = h[Len(asc)]
      BY <2>4, <3>1, <3>2, <3>3, LinesFold
    <3> QED BY <3>1, <3>4, <3>5, <3>6
  <2>8. b \in inv[0]
    <3>1. 0 \in 0..N
      BY <1>5
    <3> HIDE DEF upto, step, g
    <3>2. inv[0] = {v \in V : HasResolved(text, positions, v, upto(0))}
      BY <3>1
    <3> HIDE DEF inv
    <3> QED BY <2>4, <2>5, <3>2
  <2>9. Preserves(inv, N, g, V)
    <3> SUFFICES ASSUME NEW n \in 1..N, NEW v \in V, v \in inv[n - 1] PROVE g[n][v] \in inv[n]
      BY DEF Preserves
    <3>1. n - 1 \in 0..N /\ n \in 0..N /\ n \in Nat
      BY <1>5
    <3>2. HasResolved(text, positions, v, upto(n - 1))
      BY <3>1
    <3> DEFINE line == asc[n]
    <3>3. line \in lines /\ line \in Nat /\ line < Cardinality(LineStarts(text))
      BY <1>5, <2>1
    <3>4. \A j \in 1..(n - 1) : j \in 1..N /\ j < n
      BY <1>5
    <3>5. \A l \in upto(n - 1) : l < line
      BY <1>5, <3>4
    <3>6. upto(n - 1) \in SUBSET Nat
      BY <1>5, <2>1, <3>4
    <3>7. upto(n) = upto(n - 1) \cup {line}
      <4>1. \A j : j \in 1..n <=> j \in 1..(n - 1) \/ j = n
        BY <1>5
      <4> QED BY <4>1
    <3>8. v \in LinesFound
      BY DEF V
    <3>9. HasResolved(text, positions, step(v, line), upto(n))
      <4> HIDE DEF upto, line
      <4> QED BY <2>3, <3>2, <3>3, <3>5, <3>6, <3>7, <3>8, NextLineKeeps
    <3>10. step(v, line) \in V
      BY <2>6, <3>3
    <3> QED BY <3>1, <3>9, <3>10
  <2>10. h[N] \in V /\ h[N] \in inv[N]
    <3> HIDE DEF inv, g
    <3> QED BY <1>5, <2>4, <2>7, <2>8, <2>9, TraceInduction
  <2>11. made \in LinesFound /\ HasResolved(text, positions, made, upto(N))
    <3>1. N \in 0..N
      BY <1>5
    <3>2. made = h[N]
      BY <2>2, <2>7
    <3>3. HasResolved(text, positions, h[N], upto(N))
      BY <2>10, <3>1
    <3> HIDE DEF upto
    <3> QED BY <2>10, <3>2, <3>3 DEF V
  <2>12. \A k \in DOMAIN positions : positions[k][1] \in upto(N)
    BY <1>5 DEF lines
  <2> HIDE DEF upto
  <2>13. CASE made.error = "none"
    <3>1. made = [error |-> "none", offsets |-> made.offsets] /\ made.offsets \in Offsets
      BY <2>11, <2>13 DEF LinesFound
    <3>2. made.offsets = [p \in DOMAIN made.offsets |-> made.offsets[p]]
      BY <3>1, OffsetsAre
    <3>3. \A k \in DOMAIN positions :
              positions[k] \in DOMAIN made.offsets /\ made.offsets[positions[k]] \in Named(text, positions[k])
      BY <2>11, <2>12, <2>13 DEF HasResolved
    <3>4. \A p \in DOMAIN made.offsets : \E k \in DOMAIN positions : p = positions[k]
      BY <2>11, <2>13 DEF HasResolved
    <3>5. \A k \in DOMAIN positions : NoneMissed(text, positions, positions[k][1])
      BY <2>11, <2>12, <2>13 DEF HasResolved
    <3>6. ~ \E j, k \in DOMAIN positions : Misread(text, positions[j], positions[k])
      BY <3>5, NoneIsMisread
    <3> QED BY <3>1, <3>2, <3>3, <3>4, <3>6 DEF made
  <2>14. CASE made.error = "character"
    <3>1. made = [error |-> "character"]
      BY <2>11, <2>14 DEF LinesFound
    <3>2. \E k \in DOMAIN positions : Named(text, positions[k]) = {}
      BY <2>11, <2>14 DEF HasResolved
    <3> QED BY <3>1, <3>2 DEF made
  <2>15. CASE made.error = "split"
    <3>1. made = [error |-> "split"]
      BY <2>11, <2>15 DEF LinesFound
    <3>2. \/ \E k \in DOMAIN positions : Named(text, positions[k]) = {}
          \/ \E j, k \in DOMAIN positions : Misread(text, positions[j], positions[k])
      BY <2>11, <2>15 DEF HasResolved
    <3> QED BY <3>1, <3>2 DEF made
  <2>16. made.error \in {"none", "character", "split"}
    BY <2>11 DEF LinesFound
  <2> QED BY <2>13, <2>14, <2>15, <2>16
<1> QED BY <1>7, <1>8

-----------------------------------------------------------------------------
(***************************************************************************)
(* What edits are spliced to.                                              *)
(***************************************************************************)

\* What steps taken one after the other come to.
LEMMA TraceExists ==
    ASSUME NEW V, NEW N \in Nat, NEW b \in V, NEW g \in [1..N -> [V -> V]]
    PROVE  \E h : IsTrace(h, N, b, g, V)
<1>1. PICK it \in [SUBSET (1..N) -> V] : TakesIn(it, N, b, g)
  BY FoldExists
<1>2. Follows(it, N, b, g, V)
  BY <1>1 DEF TakesIn, Follows
<1> DEFINE h == [n \in 0..N |-> it[1..n]]
<1>3. IsTrace(h, N, b, g, V)
  BY <1>2, FoldTrace
<1> HIDE DEF h
<1> QED BY <1>3

\* The first sequences of a list, one behind the other.
Joined(f, n) == FlattenSeq([k \in 1..n |-> f[k]])

\* What a list is joined to, element by element.
JoinsUp(h, f, N) ==
    /\ h[0] = <<>>
    /\ \A n \in 1..N : h[n] = h[n - 1] \o f[n]

LEMMA JoinedIsTrace ==
    ASSUME NEW T, NEW N \in Nat, NEW f \in [1..N -> Seq(T)], NEW h \in [0..N -> Seq(T)],
           JoinsUp(h, f, N), NEW n \in 0..N
    PROVE  Joined(f, n) = h[n]
<1> DEFINE s == [k \in 1..n |-> f[k]]
           Is(fl) == fl = [i \in 1..Len(s) |-> IF i = 1 THEN s[i] ELSE fl[i - 1] \o s[i]]
           fl == CHOOSE x : Is(x)
<1>1. n \in Nat /\ Len(s) = n /\ s \in Seq(Seq(T)) /\ \A k \in 1..n : s[k] = f[k] /\ k \in 1..N
  OBVIOUS
<1>2. CASE n = 0
  <2>1. s = <<>>
    BY <1>1, <1>2
  <2>2. Joined(f, n) = s
    BY <1>1, <1>2 DEF Joined, FlattenSeq
  <2> QED BY <1>2, <2>1, <2>2 DEF JoinsUp
<1>3. CASE n > 0
  <2>1. Joined(f, n) = fl[n]
    BY <1>1, <1>3 DEF Joined, FlattenSeq
  <2>2. \A i \in 1..n : h[i] = h[i - 1] \o s[i] /\ h[i - 1] \in Seq(T) /\ h[i] \in Seq(T) /\ s[i] \in Seq(T)
    <3> TAKE i \in 1..n
    <3>1. i \in 1..N /\ i - 1 \in 0..N /\ i \in 0..N
      BY <1>1
    <3>2. h[i] = h[i - 1] \o f[i]
      BY <3>1 DEF JoinsUp
    <3> HIDE DEF s
    <3>3. s[i] = f[i]
      BY <1>1
    <3> QED BY <3>1, <3>2, <3>3
  <2>3. h[1] = s[1]
    <3>1. 1 \in 1..n /\ h[0] = <<>>
      BY <1>1, <1>3 DEF JoinsUp
    <3>2. 1 - 1 = 0
      OBVIOUS
    <3> HIDE DEF s
    <3>3. h[1] = <<>> \o s[1] /\ s[1] \in Seq(T)
      BY <2>2, <3>1, <3>2
    <3> QED BY <3>3
  <2> HIDE DEF s
  <2>4. \E x : Is(x)
    <3> DEFINE x == [i \in 1..n |-> h[i]]
    <3>1. \A i \in 1..n : x[i] = IF i = 1 THEN s[i] ELSE x[i - 1] \o s[i]
      <4> TAKE i \in 1..n
      <4>1. CASE i = 1
        BY <2>3, <4>1
      <4>2. CASE i # 1
        <5>1. i - 1 \in 1..n
          BY <1>1, <4>2
        <5>2. x[i] = h[i] /\ x[i - 1] = h[i - 1]
          BY <5>1
        <5> HIDE DEF x
        <5> QED BY <2>2, <4>2, <5>2
      <4> QED BY <4>1, <4>2
    <3>2. Is(x)
      BY <1>1, <3>1
    <3> HIDE DEF x
    <3> QED BY <3>2
  <2>5. Is(fl)
    <3> HIDE DEF Is
    <3> QED BY <2>4
  <2> HIDE DEF fl
  <2>6. \A i \in 1..n : fl[i] = IF i = 1 THEN s[i] ELSE fl[i - 1] \o s[i]
    BY <1>1, <2>5
  <2> DEFINE P == {i \in Nat : i \in 1..n => fl[i] = h[i]}
  <2> HIDE DEF Is
  <2>7. \A i \in Nat : i \in P => i + 1 \in P
    <3> SUFFICES ASSUME NEW i \in Nat, i \in P, i + 1 \in 1..n PROVE fl[i + 1] = h[i + 1]
      OBVIOUS
    <3>1. CASE i = 0
      BY <2>3, <2>6, <3>1
    <3>2. CASE i # 0
      <4>1. i \in 1..n /\ fl[i] = h[i]
        BY <1>1, <3>2
      <4>2. i + 1 # 1 /\ (i + 1) - 1 = i
        BY <3>2
      <4> HIDE DEF P
      <4>3. fl[i + 1] = fl[i] \o s[i + 1]
        BY <2>6, <4>2
      <4>4. h[i + 1] = h[i] \o s[i + 1]
        BY <2>2, <4>2
      <4> QED BY <4>1, <4>3, <4>4
    <3> QED BY <3>1, <3>2
  <2>8. 0 \in P
    OBVIOUS
  <2>9. n \in P
    <3> HIDE DEF P
    <3> QED BY <1>1, <2>7, <2>8, NumberInduction
  <2>10. n \in 1..n
    BY <1>1, <1>3
  <2> QED BY <2>1, <2>9, <2>10
<1> QED BY <1>1, <1>2, <1>3

\* One more sequence is put behind them.
LEMMA JoinedGrows ==
    ASSUME NEW T, NEW N \in Nat, NEW f \in [1..N -> Seq(T)]
    PROVE  /\ Joined(f, 0) = <<>>
           /\ \A n \in 0..N : Joined(f, n) \in Seq(T)
           /\ \A n \in 1..N : Joined(f, n) = Joined(f, n - 1) \o f[n]
           /\ FlattenSeq(f) = Joined(f, N)
<1> DEFINE V == Seq(T)
           b == <<>>
           g == [k \in 1..N |-> [v \in V |-> v \o f[k]]]
<1>1. g \in [1..N -> [V -> V]] /\ b \in V
  OBVIOUS
<1>2. \E h : IsTrace(h, N, b, g, V)
  <2> HIDE DEF V, b, g
  <2> QED BY <1>1, TraceExists
<1>3. PICK h : IsTrace(h, N, b, g, V)
  BY <1>2
<1>4. JoinsUp(h, f, N) /\ h \in [0..N -> Seq(T)]
  <2>1. h[0] = <<>>
    BY <1>3 DEF IsTrace
  <2>2. ASSUME NEW n \in 1..N PROVE h[n] = h[n - 1] \o f[n]
    <3>1. n - 1 \in 0..N
      OBVIOUS
    <3>2. h[n] = g[n][h[n - 1]] /\ h[n - 1] \in V
      BY <1>3, <3>1 DEF IsTrace
    <3> QED BY <3>2
  <2> QED BY <1>3, <2>1, <2>2 DEF IsTrace, JoinsUp
<1>5. \A n \in 0..N : Joined(f, n) = h[n]
  BY <1>4, JoinedIsTrace
<1>6. 0 \in 0..N /\ N \in 0..N
  OBVIOUS
<1>7. h[0] = <<>> /\ \A n \in 1..N : h[n] = h[n - 1] \o f[n]
  BY <1>4 DEF JoinsUp
<1>8. \A n \in 0..N : h[n] \in Seq(T)
  BY <1>4
<1>9. f = [k \in 1..N |-> f[k]]
  OBVIOUS
<1>10. FlattenSeq(f) = Joined(f, N)
  BY <1>9 DEF Joined
<1>11. \A n \in 1..N : n - 1 \in 0..N /\ n \in 0..N
  OBVIOUS
<1> HIDE DEF V, b, g
<1> QED BY <1>5, <1>6, <1>7, <1>8, <1>10, <1>11

\* Nothing is put behind them where all of them are empty.
LEMMA JoinedStays ==
    ASSUME NEW T, NEW N \in Nat, NEW f \in [1..N -> Seq(T)], NEW i \in 0..N, NEW r \in 0..N, i <= r,
           \A k \in (i + 1)..r : f[k] = <<>>
    PROVE  Joined(f, r) = Joined(f, i)
<1>5. \A n \in 1..N : Joined(f, n) = Joined(f, n - 1) \o f[n]
  BY JoinedGrows
<1>6. \A n \in 0..N : Joined(f, n) \in Seq(T)
  BY JoinedGrows
<1> DEFINE P == {d \in Nat : i + d <= r => Joined(f, i + d) = Joined(f, i)}
<1>1. 0 \in P
  OBVIOUS
<1>2. \A d \in Nat : d \in P => d + 1 \in P
  <2> SUFFICES ASSUME NEW d \in Nat, d \in P, i + (d + 1) <= r
               PROVE  Joined(f, i + (d + 1)) = Joined(f, i)
    OBVIOUS
  <2> DEFINE n == i + (d + 1)
  <2>1. n \in 1..N /\ n \in (i + 1)..r /\ n - 1 = i + d /\ n - 1 \in 0..N /\ i + d <= r
    OBVIOUS
  <2>2. Joined(f, i + d) = Joined(f, i)
    BY <2>1
  <2> HIDE DEF n, P
  <2>3. Joined(f, n) = Joined(f, n - 1) \o f[n] /\ Joined(f, n - 1) \in Seq(T)
    BY <1>5, <1>6, <2>1
  <2>4. f[n] = <<>>
    BY <2>1
  <2>5. Joined(f, n) = Joined(f, n - 1)
    BY <2>3, <2>4
  <2> QED BY <2>1, <2>2, <2>5 DEF n
<1>3. r - i \in P
  <2> HIDE DEF P
  <2>1. r - i \in Nat
    OBVIOUS
  <2> QED BY <1>1, <1>2, <2>1, NumberInduction
<1>4. i + (r - i) = r
  OBVIOUS
<1> QED BY <1>3, <1>4

-----------------------------------------------------------------------------
\* What an edited text may have.
Letters == STRING \cup Scalars

\* Whether an edit takes the scalar at a place.
Covered(from, to, o) == \E i \in DOMAIN from : from[i] < o /\ o <= to[i]

\* The scalar at a place, where no edit takes it.
Own(text, from, to, o) == IF o = 0 \/ Covered(from, to, o) THEN <<>> ELSE <<text[o]>>

\* The texts of the edits that start at a place.
TextsAt(edits, from, o) == [i \in DOMAIN edits |-> IF from[i] = o THEN edits[i].text ELSE <<>>]

\* What is expected of each place: its scalar and then the texts.
Pieces(text, edits, from, to) ==
    [k \in 1..(Len(text) + 1) |-> Own(text, from, to, k - 1) \o FlattenSeq(TextsAt(edits, from, k - 1))]

\* What is expected up to a place and, of the texts there, up to an edit.
Part(text, edits, from, to, o, i) ==
    Joined(Pieces(text, edits, from, to), o) \o Own(text, from, to, o) \o Joined(TextsAt(edits, from, o), i)

\* Where the edits of a list are.
Spans(text, edits) == [DOMAIN edits -> 0..Len(text)]

LEMMA JoinIsAssociative ==
    ASSUME NEW s \in Seq(Letters), NEW t \in Seq(Letters), NEW u \in Seq(Letters)
    PROVE  (s \o t) \o u = s \o (t \o u)
OBVIOUS

LEMMA EditHasText ==
    ASSUME NEW edits \in Seq(TextEdit), NEW i \in 1..Len(edits)
    PROVE  edits[i] \in TextEdit /\ edits[i].text \in Seq(Letters)
<1>1. edits[i] \in TextEdit
  OBVIOUS
<1>2. edits[i].text \in Seq(STRING)
  BY <1>1 DEF TextEdit
<1>3. edits[i].text \in Seq(Letters)
  BY <1>2 DEF Letters
<1> QED BY <1>1, <1>3

LEMMA TextsAtAre ==
    ASSUME NEW edits \in Seq(TextEdit), NEW from, NEW o
    PROVE  /\ TextsAt(edits, from, o) \in [1..Len(edits) -> Seq(Letters)]
           /\ \A i \in 1..Len(edits) :
                 TextsAt(edits, from, o)[i] = IF from[i] = o THEN edits[i].text ELSE <<>>
<1>1. DOMAIN edits = 1..Len(edits) /\ \A i \in 1..Len(edits) : edits[i].text \in Seq(Letters)
  BY EditHasText
<1>2. <<>> \in Seq(Letters)
  OBVIOUS
<1> QED BY <1>1, <1>2 DEF TextsAt

LEMMA OwnIs ==
    ASSUME NEW text \in Seq(Scalars), NEW from, NEW to, NEW o \in 0..Len(text)
    PROVE  Own(text, from, to, o) \in Seq(Letters)
<1>1. CASE o = 0 \/ Covered(from, to, o)
  <2>1. Own(text, from, to, o) = <<>>
    BY <1>1 DEF Own
  <2>2. <<>> \in Seq(Letters)
    OBVIOUS
  <2> QED BY <2>1, <2>2
<1>2. CASE ~(o = 0 \/ Covered(from, to, o))
  <2>1. o \in 1..Len(text)
    BY <1>2
  <2>2. text[o] \in Scalars
    BY <2>1
  <2>3. text[o] \in Letters
    BY <2>2 DEF Letters
  <2>4. Own(text, from, to, o) = <<text[o]>>
    BY <1>2 DEF Own
  <2> QED BY <2>3, <2>4
<1> QED BY <1>1, <1>2

LEMMA PiecesAre ==
    ASSUME NEW text \in Seq(Scalars), NEW edits \in Seq(TextEdit), NEW from, NEW to
    PROVE  /\ Pieces(text, edits, from, to) \in [1..(Len(text) + 1) -> Seq(Letters)]
           /\ \A o \in 0..Len(text) : \A N \in Nat : N = Len(edits) =>
                 Pieces(text, edits, from, to)[o + 1] =
                    Own(text, from, to, o) \o Joined(TextsAt(edits, from, o), N)
<1>1. ASSUME NEW o \in 0..Len(text)
      PROVE  /\ FlattenSeq(TextsAt(edits, from, o)) = Joined(TextsAt(edits, from, o), Len(edits))
             /\ FlattenSeq(TextsAt(edits, from, o)) \in Seq(Letters)
             /\ Own(text, from, to, o) \in Seq(Letters)
  <2>1. TextsAt(edits, from, o) \in [1..Len(edits) -> Seq(Letters)] /\ Len(edits) \in Nat
    BY TextsAtAre
  <2>2. /\ FlattenSeq(TextsAt(edits, from, o)) = Joined(TextsAt(edits, from, o), Len(edits))
        /\ \A n \in 0..Len(edits) : Joined(TextsAt(edits, from, o), n) \in Seq(Letters)
    BY <2>1, JoinedGrows
  <2>3. Len(edits) \in 0..Len(edits)
    BY <2>1
  <2>4. Own(text, from, to, o) \in Seq(Letters)
    BY OwnIs
  <2> QED BY <2>2, <2>3, <2>4
<1>2. Len(text) \in Nat
  OBVIOUS
<1>3. ASSUME NEW k \in 1..(Len(text) + 1)
      PROVE  Own(text, from, to, k - 1) \o FlattenSeq(TextsAt(edits, from, k - 1)) \in Seq(Letters)
  <2>1. k - 1 \in 0..Len(text)
    BY <1>2
  <2> QED BY <1>1, <2>1
<1>4. Pieces(text, edits, from, to) \in [1..(Len(text) + 1) -> Seq(Letters)]
  BY <1>3 DEF Pieces
<1>5. ASSUME NEW o \in 0..Len(text)
      PROVE  Pieces(text, edits, from, to)[o + 1] =
                 Own(text, from, to, o) \o Joined(TextsAt(edits, from, o), Len(edits))
  <2>1. o + 1 \in 1..(Len(text) + 1) /\ (o + 1) - 1 = o
    BY <1>2
  <2>2. Pieces(text, edits, from, to)[o + 1] = Own(text, from, to, o) \o FlattenSeq(TextsAt(edits, from, o))
    BY <2>1 DEF Pieces
  <2> QED BY <1>1, <2>2
<1> QED BY <1>4, <1>5

\* What is expected, place by place and text by text.
LEMMA PartsGrow ==
    ASSUME NEW text \in Seq(Scalars), NEW edits \in Seq(TextEdit),
           NEW from \in Spans(text, edits), NEW to \in Spans(text, edits), NEW o \in 0..Len(text)
    PROVE  /\ \A i \in 0..Len(edits) : Part(text, edits, from, to, o, i) \in Seq(Letters)
           /\ \A i \in 1..Len(edits) : from[i] = o =>
                 Part(text, edits, from, to, o, i) = Part(text, edits, from, to, o, i - 1) \o edits[i].text
           /\ \A i, r \in 0..Len(edits) : i <= r /\ (\A k \in (i + 1)..r : from[k] # o) =>
                 Part(text, edits, from, to, o, r) = Part(text, edits, from, to, o, i)
           /\ Part(text, edits, from, to, o, 0) =
                 Joined(Pieces(text, edits, from, to), o) \o Own(text, from, to, o)
           /\ Joined(Pieces(text, edits, from, to), o + 1) = Part(text, edits, from, to, o, Len(edits))
           /\ Joined(Pieces(text, edits, from, to), o) \in Seq(Letters)
<1> DEFINE m == Len(edits)
           n == Len(text)
           here == TextsAt(edits, from, o)
           all == Pieces(text, edits, from, to)
           own == Own(text, from, to, o)
           before == Joined(all, o)
<1>1. m \in Nat /\ n \in Nat
  OBVIOUS
<1>2. /\ here \in [1..m -> Seq(Letters)]
      /\ \A i \in 1..m : here[i] = IF from[i] = o THEN edits[i].text ELSE <<>>
  BY TextsAtAre
<1>3. all \in [1..(n + 1) -> Seq(Letters)] /\ all[o + 1] = own \o Joined(here, m)
  BY <1>1, PiecesAre
<1>4. own \in Seq(Letters)
  BY OwnIs
<1>5. \A i \in 1..m : edits[i].text \in Seq(Letters)
  BY EditHasText
<1>6. \A i : Part(text, edits, from, to, o, i) = before \o own \o Joined(here, i)
  BY DEF Part
<1> HIDE DEF m, n, here, all, own, before
<1>7. /\ Joined(here, 0) = <<>>
      /\ \A i \in 0..m : Joined(here, i) \in Seq(Letters)
      /\ \A i \in 1..m : Joined(here, i) = Joined(here, i - 1) \o here[i]
  BY <1>1, <1>2, JoinedGrows
<1>8. /\ \A k \in 0..(n + 1) : Joined(all, k) \in Seq(Letters)
      /\ \A k \in 1..(n + 1) : Joined(all, k) = Joined(all, k - 1) \o all[k]
  <2>1. n + 1 \in Nat
    BY <1>1
  <2> QED BY <1>3, <2>1, JoinedGrows
<1>9. o \in 0..(n + 1) /\ o + 1 \in 1..(n + 1) /\ (o + 1) - 1 = o
  BY <1>1 DEF n
<1>10. before \in Seq(Letters)
  BY <1>8, <1>9 DEF before
<1>11. \A i \in 0..m : before \o own \o Joined(here, i) \in Seq(Letters)
  BY <1>4, <1>7, <1>10
<1>12. ASSUME NEW i \in 1..m, from[i] = o
       PROVE  Part(text, edits, from, to, o, i) = Part(text, edits, from, to, o, i - 1) \o edits[i].text
  <2>1. i - 1 \in 0..m
    BY <1>1
  <2>2. here[i] = edits[i].text /\ edits[i].text \in Seq(Letters)
    BY <1>2, <1>5, <1>12
  <2>3. Joined(here, i) = Joined(here, i - 1) \o edits[i].text /\ Joined(here, i - 1) \in Seq(Letters)
    BY <1>7, <2>1, <2>2
  <2> DEFINE front == before \o own
  <2>4. front \in Seq(Letters)
    BY <1>4, <1>10
  <2>5. /\ Part(text, edits, from, to, o, i) = front \o Joined(here, i)
        /\ Part(text, edits, from, to, o, i - 1) = front \o Joined(here, i - 1)
    BY <1>6
  <2> HIDE DEF front
  <2>6. (front \o Joined(here, i - 1)) \o edits[i].text = front \o (Joined(here, i - 1) \o edits[i].text)
    BY <2>2, <2>3, <2>4, JoinIsAssociative
  <2> QED BY <2>3, <2>5, <2>6
<1>13. ASSUME NEW i \in 0..m, NEW r \in 0..m, i <= r, \A k \in (i + 1)..r : from[k] # o
       PROVE  Part(text, edits, from, to, o, r) = Part(text, edits, from, to, o, i)
  <2>1. \A k \in (i + 1)..r : k \in 1..m
    BY <1>1
  <2>2. \A k \in (i + 1)..r : here[k] = <<>>
    BY <1>2, <1>13, <2>1
  <2>3. Joined(here, r) = Joined(here, i)
    BY <1>1, <1>2, <1>13, <2>2, JoinedStays
  <2> QED BY <1>6, <2>3
<1>14. Part(text, edits, from, to, o, 0) = before \o own
  <2> DEFINE front == before \o own
  <2>1. front \in Seq(Letters)
    BY <1>4, <1>10
  <2>2. Part(text, edits, from, to, o, 0) = front \o <<>>
    BY <1>6, <1>7
  <2> HIDE DEF front
  <2>3. front \o <<>> = front
    BY <2>1
  <2> QED BY <2>2, <2>3 DEF front
<1>15. Joined(all, o + 1) = Part(text, edits, from, to, o, m)
  <2>1. Joined(all, o + 1) = before \o all[o + 1]
    BY <1>8, <1>9 DEF before
  <2>2. m \in 0..m
    BY <1>1
  <2>3. Joined(here, m) \in Seq(Letters)
    BY <1>7, <2>2
  <2>4. before \o (own \o Joined(here, m)) = (before \o own) \o Joined(here, m)
    BY <1>4, <1>10, <2>3, JoinIsAssociative
  <2> QED BY <1>3, <1>6, <2>1, <2>4
<1> QED BY <1>6, <1>10, <1>11, <1>12, <1>13, <1>14, <1>15 DEF m, n, all, own, before
\* An edit comes no later than the i-th that starts at a place.
ByThen(from, e, o, i) == from[e] < o \/ (from[e] = o /\ e <= i)

\* The text from an offset to a place.
Copied(text, c, o) == SubSeq(text, c + 1, o)

\* What a copy from an offset to a place comes to, with one scalar more.
LEMMA CopyGrows ==
    ASSUME NEW text \in Seq(Scalars), NEW c \in Nat, NEW o \in 1..Len(text)
    PROVE  /\ SubSeq(text, c + 1, o) \in Seq(Letters)
           /\ SubSeq(text, c + 1, o - 1) \in Seq(Letters)
           /\ SubSeq(text, c + 1, o) =
                  SubSeq(text, c + 1, o - 1) \o (IF o <= c THEN <<>> ELSE <<text[o]>>)
           /\ o - 1 <= c => SubSeq(text, c + 1, o - 1) = <<>>
<1>1. text \in Seq(Letters) /\ Len(text) \in Nat
  BY DEF Letters
<1>2. SubSeq(text, c + 1, o) \in Seq(Letters) /\ SubSeq(text, c + 1, o - 1) \in Seq(Letters)
  BY <1>1
<1>3. CASE o <= c
  <2>1. SubSeq(text, c + 1, o) = <<>> /\ SubSeq(text, c + 1, o - 1) = <<>>
    BY <1>3
  <2>2. <<>> \o <<>> = <<>>
    OBVIOUS
  <2> QED BY <1>2, <1>3, <2>1, <2>2
<1>4. CASE o > c
  <2>1. SubSeq(text, c + 1, o) = SubSeq(text, c + 1, o - 1) \o <<text[o]>>
    BY <1>1, <1>4
  <2>2. o - 1 <= c => SubSeq(text, c + 1, o - 1) = <<>>
    BY <1>4
  <2> QED BY <1>2, <1>4, <2>1, <2>2
<1> QED BY <1>3, <1>4

\* The edits up to the i-th at f are those up to the r-th at q, and the last of them
\* ends at c, if there is one.
Adjoin(text, edits, from, to, f, i, c, q, r) ==
    /\ f \in 0..Len(text) /\ c \in 0..Len(text) /\ q \in 0..Len(text)
    /\ i \in 0..Len(edits) /\ r \in 0..Len(edits)
    /\ f <= c /\ c <= q /\ (f < q \/ i <= r)
    /\ \A e \in 1..Len(edits) : ByThen(from, e, f, i) => to[e] <= c
    /\ \A e \in 1..Len(edits) : ByThen(from, e, q, r) <=> ByThen(from, e, f, i)
    /\ c = f \/ \E e \in 1..Len(edits) : from[e] = f /\ to[e] = c

\* Between one edit and the next the text is copied from where the one ends.
LEMMA NextPart ==
    ASSUME NEW text \in Seq(Scalars), NEW edits \in Seq(TextEdit),
           NEW from \in Spans(text, edits), NEW to \in Spans(text, edits),
           NEW f \in Nat, NEW i \in Nat, NEW c \in Nat, NEW q \in Nat, NEW r \in Nat,
           Adjoin(text, edits, from, to, f, i, c, q, r)
    PROVE  Part(text, edits, from, to, q, r) =
               Part(text, edits, from, to, f, i) \o Copied(text, c, q)
<1> DEFINE m == Len(edits)
           n == Len(text)
           part(o, k) == Part(text, edits, from, to, o, k)
           upto(o) == Joined(Pieces(text, edits, from, to), o)
           own(o) == Own(text, from, to, o)
           t == part(f, i)
           copy(o) == SubSeq(text, c + 1, o)
<1>13. /\ f \in 0..n /\ c \in 0..n /\ q \in 0..n
       /\ i \in 0..m /\ r \in 0..m
  BY DEF Adjoin
<1>12. /\ f <= c /\ c <= q /\ (f < q \/ i <= r)
       /\ \A e \in 1..m : ByThen(from, e, f, i) => to[e] <= c
       /\ \A e \in 1..m : ByThen(from, e, q, r) <=> ByThen(from, e, f, i)
       /\ c = f \/ \E e \in 1..m : from[e] = f /\ to[e] = c
  BY DEF Adjoin
<1>1. m \in Nat /\ n \in Nat /\ f \in Nat /\ c \in Nat /\ q \in Nat /\ i \in Nat /\ r \in Nat
  OBVIOUS
<1>2. \A e \in 1..m : e \in Nat /\ from[e] \in Nat /\ to[e] \in Nat
  BY DEF Spans
<1>3. \A e \in 1..m : ByThen(from, e, f, i) <=> from[e] < f \/ (from[e] = f /\ e <= i)
  BY DEF ByThen
<1>4. \A e \in 1..m : ByThen(from, e, q, r) <=> from[e] < q \/ (from[e] = q /\ e <= r)
  BY DEF ByThen
<1>5. DOMAIN from = 1..m
  BY DEF Spans
<1>10. ASSUME NEW o \in 0..n
       PROVE  /\ \A k \in 0..m : part(o, k) \in Seq(Letters)
              /\ \A k, l \in 0..m : k <= l /\ (\A j \in (k + 1)..l : from[j] # o) => part(o, l) = part(o, k)
              /\ part(o, 0) = upto(o) \o own(o)
              /\ upto(o + 1) = part(o, m)
  BY PartsGrow
<1>11. /\ f \in 0..n /\ q \in 0..n /\ i \in 0..m /\ r \in 0..m /\ m \in 0..m /\ 0 \in 0..m
       /\ i <= m /\ 0 <= r /\ 0 <= m /\ 0 + 1 = 1
  BY <1>1, <1>13
<1> HIDE DEF m, n, part
<1>6. t \in Seq(Letters)
  BY <1>10, <1>11
<1>7. CASE f = q
  <2>1. c = f
    BY <1>1, <1>12, <1>13, <1>7
  <2>2. \A k \in (i + 1)..r : from[k] # q
    <3> SUFFICES ASSUME NEW k \in (i + 1)..r, from[k] = q PROVE FALSE
      OBVIOUS
    <3>1. k \in 1..m /\ k <= r /\ ~(k <= i)
      BY <1>1, <1>12, <1>13 DEF m
    <3> QED BY <1>1, <1>12, <1>13, <1>2, <1>3, <1>4, <1>7, <3>1 DEF m
  <2>3. part(q, r) = t
    <3>1. i <= r
      BY <1>1, <1>12, <1>13, <1>7
    <3> QED BY <1>7, <1>10, <1>11, <2>2, <3>1
  <2>4. copy(q) = <<>>
    BY <1>1, <1>12, <1>13, <1>7, <2>1
  <2> HIDE DEF t
  <2>5. t \o <<>> = t
    BY <1>6
  <2> QED BY <2>3, <2>4, <2>5 DEF t, part, Copied
<1>8. CASE f < q
  <2>1. ASSUME NEW o \in (f + 1)..q
        PROVE  own(o) = IF o <= c THEN <<>> ELSE <<text[o]>>
    <3>0. o \in Nat /\ o # 0
      BY <1>1, <1>12, <1>13
    <3>1. Covered(from, to, o) => o <= c
      <4> SUFFICES ASSUME NEW e \in 1..m, from[e] < o, o <= to[e] PROVE o <= c
        BY <1>5, <1>12 DEF Covered
      <4>1. from[e] < q
        BY <1>1, <1>12, <1>13, <1>2, <3>0
      <4>2. to[e] <= c
        BY <1>4, <1>12, <4>1 DEF m
      <4> QED BY <1>1, <1>12, <1>13, <1>2, <3>0, <4>2
    <3>2. o <= c => Covered(from, to, o)
      <4> SUFFICES ASSUME o <= c PROVE \E e \in 1..m : from[e] < o /\ o <= to[e]
        BY <1>5, <1>12 DEF Covered
      <4>1. c # f /\ f < o
        BY <1>1, <1>12, <1>13, <3>0
      <4> QED BY <1>12, <4>1 DEF m
    <3> QED BY <3>0, <3>1, <3>2 DEF Own
  <2>2. ASSUME NEW o \in (f + 1)..q, NEW k \in 1..m, from[k] = o, o < q \/ k <= r
        PROVE  FALSE
    <3>1. ByThen(from, k, q, r)
      BY <1>1, <1>12, <1>13, <1>4, <2>2
    <3>2. from[k] <= f
      BY <1>1, <1>12, <1>13, <1>2, <1>3, <3>1 DEF m
    <3> QED BY <1>1, <1>12, <1>13, <2>2, <3>2
  <2> DEFINE Is(d) == f + d + 1 <= q => upto(f + d + 1) = t \o copy(f + d)
             P == {d \in Nat : Is(d)}
  <2>3. 0 \in P
    <3>1. \A k \in (i + 1)..m : from[k] # f
      <4> SUFFICES ASSUME NEW k \in (i + 1)..m, from[k] = f PROVE FALSE
        OBVIOUS
      <4>1. k \in 1..m /\ ~(k <= i)
        BY <1>1, <1>12, <1>13
      <4> QED BY <1>1, <1>12, <1>13, <1>2, <1>3, <1>4, <1>8, <4>1 DEF m
    <3>3. part(f, m) = t
      BY <1>10, <1>11, <3>1
    <3>4. upto(f + 1) = part(f, m)
      BY <1>10, <1>11
    <3>5. copy(f) = <<>>
      BY <1>1, <1>12, <1>13
    <3> HIDE DEF t
    <3>6. t \o <<>> = t
      BY <1>6
    <3>7. f + 0 = f /\ f + 0 + 1 = f + 1
      BY <1>1, <1>12, <1>13
    <3> HIDE DEF upto, copy
    <3> QED BY <3>3, <3>4, <3>5, <3>6, <3>7
  <2>4. ASSUME NEW o \in (f + 1)..q, upto(o) = t \o copy(o - 1)
        PROVE  part(o, 0) = t \o copy(o)
    <3>1. o \in 1..n /\ o \in 0..Len(text)
      BY <1>1, <1>12, <1>13 DEF n
    <3>2. part(o, 0) = upto(o) \o own(o)
      BY <1>10, <3>1 DEF n
    <3>3. /\ copy(o) = copy(o - 1) \o (IF o <= c THEN <<>> ELSE <<text[o]>>)
          /\ copy(o) \in Seq(Letters) /\ copy(o - 1) \in Seq(Letters)
      BY <1>1, <1>12, <1>13, <3>1, CopyGrows DEF n
    <3>4. own(o) \in Seq(Letters)
      BY <3>1, OwnIs
    <3>5. own(o) = IF o <= c THEN <<>> ELSE <<text[o]>>
      BY <2>1
    <3> HIDE DEF t, part, Copied, upto, own, copy
    <3>6. (t \o copy(o - 1)) \o own(o) = t \o (copy(o - 1) \o own(o))
      BY <1>6, <3>3, <3>4, JoinIsAssociative
    <3> QED BY <2>4, <3>2, <3>3, <3>5, <3>6
  <2>5. \A d \in Nat : d \in P => d + 1 \in P
    <3> SUFFICES ASSUME NEW d \in Nat, Is(d) PROVE Is(d + 1)
      <4> HIDE DEF Is
      <4> QED OBVIOUS
    <3> SUFFICES ASSUME f + (d + 1) + 1 <= q
                 PROVE  upto(f + (d + 1) + 1) = t \o copy(f + (d + 1))
      OBVIOUS
    <3> DEFINE o == f + (d + 1)
    <3>1. o \in (f + 1)..q /\ o < q /\ o = f + d + 1 /\ o - 1 = f + d /\ f + d + 1 <= q
      BY <1>1, <1>12, <1>13
    <3>2. upto(o) = t \o copy(o - 1)
      BY <3>1
    <3> HIDE DEF o, P, Is, upto, t, copy, part
    <3>3. part(o, 0) = t \o copy(o)
      BY <2>4, <3>1, <3>2
    <3>4. \A k \in 1..m : from[k] # o
      BY <2>2, <3>1
    <3>5. o \in 0..n
      BY <1>1, <1>12, <1>13, <3>1 DEF n
    <3>6. part(o, m) = part(o, 0)
      <4>1. \A k \in (0 + 1)..m : from[k] # o
        BY <1>11, <3>4
      <4> QED BY <1>10, <1>11, <3>5, <4>1
    <3>7. upto(o + 1) = part(o, m)
      BY <1>10, <3>5 DEF upto
    <3> QED BY <3>3, <3>6, <3>7 DEF o
  <2>6. upto(q) = t \o copy(q - 1)
    <3> DEFINE d == q - f - 1
    <3>1. d \in Nat /\ f + d + 1 = q /\ f + d = q - 1
      BY <1>1, <1>12, <1>13, <1>8
    <3> HIDE DEF d
    <3>2. d \in P
      <4> HIDE DEF P
      <4> QED BY <2>3, <2>5, <3>1, NumberInduction
    <3>3. q <= q
      BY <1>1, <1>12, <1>13
    <3> HIDE DEF upto, copy, t
    <3> QED BY <3>1, <3>2, <3>3
  <2>7. q \in (f + 1)..q
    BY <1>1, <1>12, <1>13, <1>8
  <2>8. part(q, 0) = t \o copy(q)
    <3> HIDE DEF part, t, copy, upto
    <3> QED BY <2>4, <2>6, <2>7
  <2>9. \A k \in 1..r : from[k] # q
    <3> SUFFICES ASSUME NEW k \in 1..r, from[k] = q PROVE FALSE
      OBVIOUS
    <3>1. k \in 1..m /\ k <= r
      BY <1>1, <1>12, <1>13 DEF m
    <3> QED BY <2>2, <2>7, <3>1
  <2>11. part(q, r) = part(q, 0)
    BY <1>10, <1>11, <2>9
  <2> HIDE DEF t
  <2> QED BY <2>8, <2>11 DEF t, part, Copied
<1>9. f = q \/ f < q
  BY <1>1, <1>12, <1>13
<1> QED BY <1>7, <1>8, <1>9
-----------------------------------------------------------------------------
\* The edits of a list by where they start and then by place in the list.
IsOrder(ord, from, m) ==
    /\ ord \in [1..m -> 1..m]
    /\ \A e \in 1..m : \E a \in 1..m : ord[a] = e
    /\ \A a, b \in 1..m :
          a < b <=> \/ from[ord[a]] < from[ord[b]]
                    \/ from[ord[a]] = from[ord[b]] /\ ord[a] < ord[b]

LEMMA InOrderIs ==
    ASSUME NEW edits \in Seq(TextEdit), NEW from \in [DOMAIN edits -> Nat]
    PROVE  IsOrder(InOrder(edits, from), from, Len(edits)) /\ InOrder(edits, from) \in Seq(1..Len(edits))
<1> DEFINE m == Len(edits)
           S == DOMAIN edits
           before == {p \in S \X S : from[p[1]] < from[p[2]] \/ (from[p[1]] = from[p[2]] /\ p[1] < p[2])}
           ord == Sort(S, before)
<1>1. S = 1..m /\ m \in Nat /\ \A e \in S : e \in Nat /\ from[e] \in Nat
  OBVIOUS
<1>2. IsFiniteSet(S) /\ Cardinality(S) = m
  <2>1. IsFiniteSet(1..m) /\ Cardinality(1..m) = m
    <3>1. 1 \in Int /\ m \in Int
      BY <1>1
    <3>2. m - 1 + 1 = m /\ (1 > m => m = 0)
      BY <1>1
    <3> HIDE DEF m
    <3> QED BY <1>1, <3>1, <3>2, FS_Interval
  <2> QED BY <1>1, <2>1
<1>3. \A d, e \in S : <<d, e>> \in before <=> from[d] < from[e] \/ (from[d] = from[e] /\ d < e)
  OBVIOUS
<1>4. Orders(before, S)
  <2> HIDE DEF S, before, m, ord
  <2>1. \A x \in S : <<x, x>> \notin before
    BY <1>1, <1>3
  <2>2. \A x, y \in S : x # y => <<x, y>> \in before \/ <<y, x>> \in before
    BY <1>1, <1>3
  <2>3. ASSUME NEW x \in S, NEW y \in S, NEW z \in S, <<x, y>> \in before, <<y, z>> \in before
        PROVE  <<x, z>> \in before
    <3>1. from[x] < from[y] \/ (from[x] = from[y] /\ x < y)
      BY <1>3, <2>3
    <3>2. from[y] < from[z] \/ (from[y] = from[z] /\ y < z)
      BY <1>3, <2>3
    <3>3. /\ x \in Nat /\ y \in Nat /\ z \in Nat
          /\ from[x] \in Nat /\ from[y] \in Nat /\ from[z] \in Nat
      BY <1>1
    <3>4. from[x] < from[z] \/ (from[x] = from[z] /\ x < z)
      BY <3>1, <3>2, <3>3
    <3> QED BY <1>3, <3>4
  <2> QED BY <2>1, <2>2, <2>3 DEF Orders
<1>5. IsInOrder(ord, S, before)
  <2> HIDE DEF S, before
  <2> QED BY <1>2, <1>4, SortIsInOrder
<1> HIDE DEF ord, S, before, m
<1>6. /\ ord \in [1..m -> 1..m]
      /\ \A e \in 1..m : \E a \in 1..m : ord[a] = e
      /\ \A a, b \in 1..m : a < b <=> <<ord[a], ord[b]>> \in before
  BY <1>1, <1>2, <1>5 DEF IsInOrder
<1>7. IsOrder(ord, from, m)
  <2>1. \A a \in 1..m : ord[a] \in S
    BY <1>1, <1>6
  <2>2. \A a, b \in 1..m :
            a < b <=> \/ from[ord[a]] < from[ord[b]]
                      \/ from[ord[a]] = from[ord[b]] /\ ord[a] < ord[b]
    BY <1>3, <1>6, <2>1
  <2> QED BY <1>6, <2>2 DEF IsOrder
<1>8. ord \in Seq(1..m)
  BY <1>1, <1>6
<1>9. InOrder(edits, from) = ord
  BY DEF InOrder, ord, S, before
<1> QED BY <1>7, <1>8, <1>9 DEF m

\* Where the j-th edit in order starts and ends, and its place in the list; nowhere
\* before the first.
StartAt(ord, from, j) == IF j = 0 THEN 0 ELSE from[ord[j]]

EndAt(ord, to, j) == IF j = 0 THEN 0 ELSE to[ord[j]]

EditAt(ord, j) == IF j = 0 THEN 0 ELSE ord[j]

\* Of the first j edits in order, each starts where or after those before it end.
Apart(ord, from, to, j) == \A a, b \in 1..j : a < b => to[ord[a]] <= from[ord[b]]

\* No edit ends before it starts.
Forward(from, to, m) == \A e \in 1..m : from[e] <= to[e]

LEMMA BehindAre ==
    ASSUME NEW text \in Seq(Scalars), NEW edits \in Seq(TextEdit),
           NEW from \in Spans(text, edits), NEW to \in Spans(text, edits),
           Forward(from, to, Len(edits)), NEW ord, IsOrder(ord, from, Len(edits)),
           NEW j \in 0..Len(edits), Apart(ord, from, to, j)
    PROVE  /\ StartAt(ord, from, j) \in 0..Len(text)
           /\ EndAt(ord, to, j) \in 0..Len(text)
           /\ EditAt(ord, j) \in 0..Len(edits)
           /\ StartAt(ord, from, j) <= EndAt(ord, to, j)
           /\ \A e \in 1..Len(edits) :
                 ByThen(from, e, StartAt(ord, from, j), EditAt(ord, j)) <=> \E a \in 1..j : ord[a] = e
           /\ \A a \in 1..j : to[ord[a]] <= EndAt(ord, to, j)
           /\ \/ EndAt(ord, to, j) = StartAt(ord, from, j)
              \/ \E e \in 1..Len(edits) : from[e] = StartAt(ord, from, j) /\ to[e] = EndAt(ord, to, j)
<1> DEFINE m == Len(edits)
           n == Len(text)
<1>1. m \in Nat /\ n \in Nat /\ j \in Nat
  OBVIOUS
<1>2. \A e \in 1..m : e \in Nat /\ from[e] \in 0..n /\ to[e] \in 0..n /\ from[e] \in Nat /\ to[e] \in Nat
  <2>1. \A e \in 1..m : from[e] \in 0..n /\ to[e] \in 0..n
    BY DEF Spans
  <2> QED BY <1>1, <2>1
<1>3. \A e \in 1..m : from[e] <= to[e]
  BY DEF Forward
<1>4. /\ \A a \in 1..m : ord[a] \in 1..m
      /\ \A e \in 1..m : \E a \in 1..m : ord[a] = e
      /\ \A a, b \in 1..m :
            a < b <=> \/ from[ord[a]] < from[ord[b]]
                      \/ from[ord[a]] = from[ord[b]] /\ ord[a] < ord[b]
  BY DEF IsOrder
<1>5. \A a, b \in 1..j : a < b => to[ord[a]] <= from[ord[b]]
  BY DEF Apart
<1>6. j <= m
  OBVIOUS
<1> HIDE DEF m, n
<1>7. CASE j = 0
  <2>1. StartAt(ord, from, j) = 0 /\ EndAt(ord, to, j) = 0 /\ EditAt(ord, j) = 0
    BY <1>7 DEF StartAt, EndAt, EditAt
  <2>2. \A e \in 1..m : ~ByThen(from, e, 0, 0)
    BY <1>1, <1>2 DEF ByThen
  <2>3. \A a : a \notin 1..j
    BY <1>7
  <2>4. 0 \in 0..m /\ 0 \in 0..n /\ 0 <= 0
    BY <1>1
  <2> QED BY <2>1, <2>2, <2>3, <2>4 DEF m, n
<1>8. CASE j > 0
  <2>1. StartAt(ord, from, j) = from[ord[j]] /\ EndAt(ord, to, j) = to[ord[j]] /\ EditAt(ord, j) = ord[j]
    BY <1>1, <1>8 DEF StartAt, EndAt, EditAt
  <2>2. j \in 1..m /\ \A a \in 1..j : a \in 1..m /\ a <= j
    BY <1>1, <1>6, <1>8
  <2>3. ord[j] \in 1..m /\ ord[j] \in 0..m /\ ord[j] \in Nat
    BY <1>1, <1>4, <2>2
  <2>4. from[ord[j]] \in 0..n /\ to[ord[j]] \in 0..n /\ from[ord[j]] <= to[ord[j]]
    BY <1>2, <1>3, <2>3
  <2>5. ASSUME NEW e \in 1..m
        PROVE  ByThen(from, e, from[ord[j]], ord[j]) <=> \E a \in 1..j : ord[a] = e
    <3>1. PICK a \in 1..m : ord[a] = e
      BY <1>4
    <3>2. CASE a < j
      <4>0. from[e] < from[ord[j]] \/ (from[e] = from[ord[j]] /\ e < ord[j])
        BY <1>4, <2>2, <3>1, <3>2
      <4>1. ByThen(from, e, from[ord[j]], ord[j])
        BY <1>2, <2>3, <4>0 DEF ByThen
      <4>2. a \in 1..j
        BY <1>1, <3>2
      <4> QED BY <3>1, <4>1, <4>2
    <3>3. CASE a = j
      <4>1. ByThen(from, e, from[ord[j]], ord[j])
        BY <1>2, <2>3, <3>1, <3>3 DEF ByThen
      <4>2. a \in 1..j
        BY <1>1, <1>8, <3>3
      <4> QED BY <3>1, <4>1, <4>2
    <3>4. CASE j < a
      <4>1. from[ord[j]] < from[e] \/ (from[ord[j]] = from[e] /\ ord[j] < e)
        BY <1>4, <2>2, <3>1, <3>4
      <4>2. ~ByThen(from, e, from[ord[j]], ord[j])
        BY <1>2, <2>3, <4>1 DEF ByThen
      <4>3. ASSUME NEW b \in 1..j, ord[b] = e PROVE FALSE
        <5>1. b < a /\ b \in 1..m
          BY <1>1, <1>6, <3>4
        <5>2. from[e] < from[e] \/ e < e
          BY <1>4, <3>1, <4>3, <5>1
        <5> QED BY <1>2, <5>2
      <4> QED BY <4>2, <4>3
    <3> QED BY <1>1, <3>2, <3>3, <3>4
  <2>6. ASSUME NEW a \in 1..j PROVE to[ord[a]] <= to[ord[j]]
    <3>1. CASE a < j
      <4>1. to[ord[a]] <= from[ord[j]]
        BY <1>1, <1>5, <1>8, <3>1
      <4>2. to[ord[a]] \in Nat /\ from[ord[j]] \in Nat /\ to[ord[j]] \in Nat
        BY <1>2, <1>4, <2>2
      <4> QED BY <2>4, <4>1, <4>2
    <3>2. CASE a = j
      BY <1>2, <2>3, <3>2
    <3> QED BY <1>1, <3>1, <3>2
  <2> QED BY <2>1, <2>3, <2>4, <2>5, <2>6 DEF m, n
<1> QED BY <1>1, <1>7, <1>8

\* Those before the j-th in order.
LEMMA BeforeNext ==
    ASSUME NEW text \in Seq(Scalars), NEW edits \in Seq(TextEdit), NEW from \in Spans(text, edits),
           NEW ord, IsOrder(ord, from, Len(edits)), NEW j \in 1..Len(edits), NEW e \in 1..Len(edits)
    PROVE  ByThen(from, e, from[ord[j]], ord[j] - 1) <=> \E a \in 1..(j - 1) : ord[a] = e
<1> DEFINE m == Len(edits)
<1>1. m \in Nat /\ j \in Nat /\ j \in 1..m
  OBVIOUS
<1>2. \A d \in 1..m : d \in Nat /\ from[d] \in Nat
  <2>1. \A d \in 1..m : from[d] \in 0..Len(text)
    BY DEF Spans
  <2> QED BY <1>1, <2>1
<1>3. /\ \A a \in 1..m : ord[a] \in 1..m
      /\ \A d \in 1..m : \E a \in 1..m : ord[a] = d
      /\ \A a, b \in 1..m :
            a < b <=> \/ from[ord[a]] < from[ord[b]]
                      \/ from[ord[a]] = from[ord[b]] /\ ord[a] < ord[b]
  BY DEF IsOrder
<1>4. e \in 1..m
  OBVIOUS
<1> HIDE DEF m
<1>5. PICK b \in 1..m : ord[b] = e
  BY <1>3, <1>4
<1>6. ord[j] \in 1..m /\ ord[j] \in Nat /\ e \in Nat /\ from[e] \in Nat /\ from[ord[j]] \in Nat
  BY <1>1, <1>2, <1>3, <1>4
<1>7. ByThen(from, e, from[ord[j]], ord[j] - 1) <=> (from[e] < from[ord[j]] \/ (from[e] = from[ord[j]] /\ e < ord[j]))
  BY <1>6 DEF ByThen
<1>8. ByThen(from, e, from[ord[j]], ord[j] - 1) <=> b < j
  BY <1>1, <1>3, <1>5, <1>7
<1>9. ASSUME NEW a \in 1..(j - 1), ord[a] = e PROVE b < j
  <2>1. a \in 1..m /\ a < j
    BY <1>1
  <2>2. from[e] < from[ord[j]] \/ (from[e] = from[ord[j]] /\ e < ord[j])
    BY <1>1, <1>3, <1>9, <2>1
  <2> QED BY <1>7, <1>8, <2>2
<1>10. b < j => b \in 1..(j - 1)
  BY <1>1
<1> QED BY <1>5, <1>8, <1>9, <1>10
-----------------------------------------------------------------------------

\* What a pass over edits knows.
Splicing(text) == [error: {"none", "overlap"}, cursor: 0..Len(text), text: Seq(Letters)]

\* What is made of the first j edits in order.
Spliced(text, edits, from, to, ord, made, j) ==
    /\ made.error = "none" =>
          /\ Apart(ord, from, to, j)
          /\ made.cursor = EndAt(ord, to, j)
          /\ made.text = Part(text, edits, from, to, StartAt(ord, from, j), EditAt(ord, j))
    /\ made.error = "overlap" =>
          \E a, b \in 1..Len(edits) : a < b /\ from[ord[b]] < to[ord[a]]

LEMMA SpliceEditType ==
    ASSUME NEW text \in Seq(Scalars), NEW edits \in Seq(TextEdit),
           NEW from \in Spans(text, edits), NEW to \in Spans(text, edits),
           NEW made \in Splicing(text), NEW i \in 1..Len(edits)
    PROVE  SpliceEdit(text, edits, from, to, made, i) \in Splicing(text)
<1> DEFINE new == SpliceEdit(text, edits, from, to, made, i)
<1>1. made = [error |-> made.error, cursor |-> made.cursor, text |-> made.text]
  BY DEF Splicing
<1>2. made.error \in {"none", "overlap"} /\ made.cursor \in 0..Len(text) /\ made.text \in Seq(Letters)
  BY DEF Splicing
<1>3. from[i] \in 0..Len(text) /\ to[i] \in 0..Len(text)
  BY DEF Spans
<1>4. CASE made.error # "none"
  BY <1>4 DEF SpliceEdit
<1>5. CASE made.error = "none" /\ from[i] < made.cursor
  <2>1. new = [made EXCEPT !.error = "overlap"]
    BY <1>5 DEF SpliceEdit
  <2> HIDE DEF new
  <2>2. new = [error |-> "overlap", cursor |-> made.cursor, text |-> made.text]
    BY <1>1, <2>1
  <2> QED BY <1>2, <2>2 DEF Splicing, new
<1>6. CASE made.error = "none" /\ ~(from[i] < made.cursor)
  <2>1. new = [made EXCEPT !.cursor = to[i],
                           !.text = @ \o SubSeq(text, made.cursor + 1, from[i]) \o edits[i].text]
    BY <1>6 DEF SpliceEdit
  <2> DEFINE more == made.text \o SubSeq(text, made.cursor + 1, from[i]) \o edits[i].text
  <2> HIDE DEF new
  <2>2. new = [error |-> made.error, cursor |-> to[i], text |-> more]
    BY <1>1, <2>1
  <2>3. SubSeq(text, made.cursor + 1, from[i]) \in Seq(Letters)
    <3>1. text \in Seq(Letters)
      BY DEF Letters
    <3> QED BY <1>2, <1>3, <3>1
  <2>4. edits[i].text \in Seq(Letters)
    BY EditHasText
  <2>5. more \in Seq(Letters)
    BY <1>2, <2>3, <2>4
  <2> HIDE DEF more
  <2> QED BY <1>2, <1>3, <2>2, <2>5 DEF Splicing, new
<1> QED BY <1>4, <1>5, <1>6

\* The pass over edits is made of steps.
LEMMA EditsFold ==
    ASSUME NEW text \in Seq(Scalars), NEW edits \in Seq(TextEdit),
           NEW from \in Spans(text, edits), NEW to \in Spans(text, edits),
           NEW list \in Seq(1..Len(edits)), NEW b \in Splicing(text)
    PROVE  LET V == Splicing(text)
               step(v, d) == SpliceEdit(text, edits, from, to, v, d)
               g == [k \in 1..Len(list) |-> [v \in V |-> step(v, list[k])]]
           IN  \E h : /\ IsTrace(h, Len(list), b, g, V)
                      /\ FoldLeft(step, b, list) = h[Len(list)]
<1> DEFINE V == Splicing(text)
           N == Len(list)
           step(v, d) == SpliceEdit(text, edits, from, to, v, d)
           g == [k \in 1..N |-> [v \in V |-> step(v, list[k])]]
           Is(it) == it = [d \in SUBSET DOMAIN list |->
                              IF d = {} THEN b ELSE step(it[d \ {Max(d)}], list[Max(d)])]
           it == CHOOSE f : Is(f)
           h == [n \in 0..N |-> it[1..n]]
<1>1. FoldLeft(step, b, list) = it[DOMAIN list]
  BY DEF FoldLeft, MapThenFoldSet
<1>2. /\ N \in Nat /\ DOMAIN list = 1..N /\ g \in [1..N -> [V -> V]]
      /\ \A k \in 1..N : list[k] \in 1..Len(edits) /\ \A v \in V : g[k][v] = step(v, list[k])
  <2>1. \A v \in V : \A d \in 1..Len(edits) : step(v, d) \in V
    BY SpliceEditType
  <2> HIDE DEF V, step
  <2> QED BY <2>1
<1>9. b \in V
  OBVIOUS
<1> HIDE DEF N, g, step, V
<1>3. \A d \in SUBSET (1..N) : d # {} => Max(d) \in 1..N
  BY <1>2, GreatestIsIn
<1>4. \E f : Is(f)
  <2>1. PICK f \in [SUBSET (1..N) -> V] : TakesIn(f, N, b, g)
    BY <1>2, <1>9, FoldExists
  <2>2. \A d \in SUBSET (1..N) : d # {} => f[d] = step(f[d \ {Max(d)}], list[Max(d)])
    BY <1>2, <1>3, <2>1 DEF TakesIn
  <2>3. f[{}] = b
    BY <2>1 DEF TakesIn
  <2>4. Is(f)
    BY <1>2, <2>2, <2>3
  <2> QED BY <2>4
<1>5. Is(it)
  <2> HIDE DEF Is
  <2> QED BY <1>4
<1> HIDE DEF it
<1>6. Follows(it, N, b, g, V)
  <2>1. it[{}] = b /\ \A d \in SUBSET (1..N) : d # {} => it[d] = step(it[d \ {Max(d)}], list[Max(d)])
    BY <1>2, <1>5
  <2> HIDE DEF Is, h
  <2>2. ASSUME NEW d \in SUBSET (1..N), d # {}, it[d \ {Max(d)}] \in V
        PROVE  it[d] = g[Max(d)][it[d \ {Max(d)}]]
    <3>1. Max(d) \in 1..N
      BY <1>3, <2>2
    <3>2. it[d] = step(it[d \ {Max(d)}], list[Max(d)])
      BY <2>1, <2>2
    <3>3. g[Max(d)][it[d \ {Max(d)}]] = step(it[d \ {Max(d)}], list[Max(d)])
      BY <1>2, <2>2, <3>1
    <3> QED BY <3>2, <3>3
  <2> QED BY <2>1, <2>2 DEF Follows
<1>7. IsTrace(h, N, b, g, V)
  BY <1>2, <1>6, <1>9, FoldTrace
<1>8. h[N] = it[DOMAIN list]
  BY <1>2
<1> HIDE DEF h
<1> QED BY <1>1, <1>7, <1>8 DEF N, step, g, V

\* One more edit in order.
LEMMA SpliceKeeps ==
    ASSUME NEW text \in Seq(Scalars), NEW edits \in Seq(TextEdit),
           NEW from \in Spans(text, edits), NEW to \in Spans(text, edits),
           Forward(from, to, Len(edits)), NEW ord, IsOrder(ord, from, Len(edits)),
           NEW made \in Splicing(text), NEW j \in 1..Len(edits),
           Spliced(text, edits, from, to, ord, made, j - 1)
    PROVE  Spliced(text, edits, from, to, ord, SpliceEdit(text, edits, from, to, made, ord[j]), j)
<1> DEFINE m == Len(edits)
           n == Len(text)
           i == ord[j]
           new == SpliceEdit(text, edits, from, to, made, i)
           f == StartAt(ord, from, j - 1)
           c == EndAt(ord, to, j - 1)
           k == EditAt(ord, j - 1)
           q == from[i]
<1>1. made = [error |-> made.error, cursor |-> made.cursor, text |-> made.text]
  BY DEF Splicing
<1>2. made.error \in {"none", "overlap"} /\ made.cursor \in 0..n /\ made.text \in Seq(Letters)
  BY DEF Splicing
<1>3. m \in Nat /\ n \in Nat /\ j \in Nat /\ j \in 1..m /\ j - 1 \in 0..m
  OBVIOUS
<1>4. /\ \A a \in 1..m : ord[a] \in 1..m
      /\ \A a, b \in 1..m :
            a < b <=> \/ from[ord[a]] < from[ord[b]]
                      \/ from[ord[a]] = from[ord[b]] /\ ord[a] < ord[b]
  BY DEF IsOrder
<1>5. i \in 1..m
  BY <1>3, <1>4
<1>6. q \in 0..n /\ to[i] \in 0..n
  BY <1>5 DEF Spans
<1>7. CASE made.error # "none"
  <2>1. new = made /\ made.error = "overlap"
    BY <1>2, <1>7 DEF SpliceEdit
  <2> HIDE DEF new
  <2>2. \E a, b \in 1..Len(edits) : a < b /\ from[ord[b]] < to[ord[a]]
    BY <2>1 DEF Spliced
  <2>3. Spliced(text, edits, from, to, ord, new, j)
    BY <2>1, <2>2 DEF Spliced
  <2> QED BY <2>3 DEF new
<1>8. CASE made.error = "none"
  <2>1. Apart(ord, from, to, j - 1) /\ made.cursor = c /\ made.text = Part(text, edits, from, to, f, k)
    BY <1>8 DEF Spliced
  <2>2. /\ f \in 0..n /\ c \in 0..n /\ k \in 0..m /\ f <= c
        /\ \A e \in 1..m : ByThen(from, e, f, k) <=> \E a \in 1..(j - 1) : ord[a] = e
        /\ \A a \in 1..(j - 1) : to[ord[a]] <= c
        /\ c = f \/ \E e \in 1..m : from[e] = f /\ to[e] = c
    BY <1>3, <2>1, BehindAre
  <2>3. CASE q < c
    <3>1. new = [made EXCEPT !.error = "overlap"]
      BY <1>8, <2>1, <2>3 DEF SpliceEdit
    <3> HIDE DEF new
    <3>2. new.error = "overlap"
      BY <1>1, <3>1
    <3>3. j - 1 # 0
      <4> SUFFICES ASSUME j - 1 = 0 PROVE FALSE
        OBVIOUS
      <4>1. c = 0
        BY DEF EndAt
      <4> QED BY <1>6, <2>3, <4>1
    <3>4. c = to[ord[j - 1]] /\ j - 1 \in 1..m /\ j - 1 < j
      BY <1>3, <3>3 DEF EndAt
    <3>5. \E a, b \in 1..m : a < b /\ from[ord[b]] < to[ord[a]]
      BY <1>3, <2>3, <3>4
    <3>6. Spliced(text, edits, from, to, ord, new, j)
      BY <3>2, <3>5 DEF Spliced
    <3> QED BY <3>6 DEF new
  <2>4. CASE ~(q < c)
    <3> DEFINE copy == SubSeq(text, c + 1, q)
               own == edits[i].text
               t == Part(text, edits, from, to, f, k)
    <3>1. new = [made EXCEPT !.cursor = to[i], !.text = @ \o copy \o own]
      BY <1>8, <2>1, <2>4 DEF SpliceEdit
    <3> HIDE DEF new, copy, own
    <3>2. new = [error |-> "none", cursor |-> to[i], text |-> made.text \o copy \o own]
      BY <1>1, <1>8, <3>1
    <3>3. i - 1 \in 0..m /\ i \in 0..m /\ c <= q
      BY <1>3, <1>5, <1>6, <2>2, <2>4
    <3>4. f < q \/ k <= i - 1
      <4>1. f \in Nat /\ q \in Nat /\ c \in Nat /\ f <= q
        BY <1>3, <1>6, <2>2, <3>3
      <4>2. CASE j - 1 = 0
        <5>1. k = 0
          BY <4>2 DEF EditAt
        <5> QED BY <3>3, <5>1
      <4>3. CASE j - 1 # 0
        <5>1. f = from[ord[j - 1]] /\ k = ord[j - 1] /\ j - 1 \in 1..m /\ j - 1 < j
          BY <1>3, <4>3 DEF StartAt, EditAt
        <5>2. f < q \/ (f = q /\ k < i)
          BY <1>3, <1>4, <5>1
        <5>3. k \in Nat /\ i \in Nat
          BY <1>3, <1>5, <2>2
        <5> QED BY <5>2, <5>3
      <4> QED BY <4>2, <4>3
    <3>5. \A e \in 1..m : ByThen(from, e, f, k) => to[e] <= c
      BY <2>2
    <3>6. \A e \in 1..m : ByThen(from, e, q, i - 1) <=> ByThen(from, e, f, k)
      <4>1. \A e \in 1..m : ByThen(from, e, q, i - 1) <=> \E a \in 1..(j - 1) : ord[a] = e
        BY BeforeNext
      <4> QED BY <2>2, <4>1
    <3>7. Part(text, edits, from, to, q, i - 1) = t \o copy
      <4> DEFINE r == i - 1
      <4>1. /\ f \in 0..Len(text) /\ c \in 0..Len(text) /\ q \in 0..Len(text)
            /\ k \in 0..Len(edits) /\ r \in 0..Len(edits)
        BY <1>6, <2>2, <3>3
      <4>2. f <= c /\ c <= q /\ (f < q \/ k <= r)
        BY <2>2, <3>3, <3>4
      <4>3. \A e \in 1..Len(edits) : ByThen(from, e, f, k) => to[e] <= c
        BY <3>5
      <4>4. \A e \in 1..Len(edits) : ByThen(from, e, q, r) <=> ByThen(from, e, f, k)
        BY <3>6
      <4>5. c = f \/ \E e \in 1..Len(edits) : from[e] = f /\ to[e] = c
        BY <2>2
      <4> HIDE DEF f, c, k, q, r, i
      <4>6. Part(text, edits, from, to, q, r) =
                Part(text, edits, from, to, f, k) \o Copied(text, c, q)
        <5>1. Adjoin(text, edits, from, to, f, k, c, q, r)
          BY <4>1, <4>2, <4>3, <4>4, <4>5 DEF Adjoin
        <5>2. f \in Nat /\ c \in Nat /\ q \in Nat /\ k \in Nat /\ r \in Nat
          BY <4>1
        <5> QED BY <5>1, <5>2, NextPart
      <4> QED BY <4>6 DEF copy, r, Copied
    <3>8. Part(text, edits, from, to, q, i) = Part(text, edits, from, to, q, i - 1) \o own
      <4> HIDE DEF i
      <4> QED BY <1>5, <1>6, PartsGrow DEF q, own
    <3>9. Apart(ord, from, to, j)
      <4>1. \A a, b \in 1..(j - 1) : a < b => to[ord[a]] <= from[ord[b]]
        BY <2>1 DEF Apart
      <4> SUFFICES ASSUME NEW a \in 1..j, NEW b \in 1..j, a < b PROVE to[ord[a]] <= from[ord[b]]
        BY DEF Apart
      <4>2. a \in 1..(j - 1)
        BY <1>3
      <4>3. CASE b = j
        <5>1. to[ord[a]] <= c
          BY <2>2, <4>2
        <5>2. to[ord[a]] \in Nat /\ c \in Nat /\ q \in Nat
          <6>1. a \in 1..m
            BY <1>3
          <6>2. to[ord[a]] \in 0..n
            BY <1>4, <6>1 DEF Spans
          <6> QED BY <1>3, <1>6, <2>2, <6>2
        <5> QED BY <3>3, <4>3, <5>1, <5>2
      <4>4. CASE b # j
        <5>1. b \in 1..(j - 1)
          BY <1>3, <4>4
        <5> QED BY <4>1, <4>2, <5>1
      <4> QED BY <4>3, <4>4
    <3>10. StartAt(ord, from, j) = q /\ EndAt(ord, to, j) = to[i] /\ EditAt(ord, j) = i
      BY <1>3 DEF StartAt, EndAt, EditAt
    <3>11. made.text \o copy \o own = Part(text, edits, from, to, q, i)
      BY <2>1, <3>7, <3>8
    <3>12. Spliced(text, edits, from, to, ord, new, j)
      <4> HIDE DEF q, i, t
      <4> QED BY <3>2, <3>9, <3>10, <3>11 DEF Spliced
    <3> QED BY <3>12 DEF new
  <2> QED BY <2>3, <2>4
<1> QED BY <1>7, <1>8

\* Two edits of a list have no place in common, or the one stands before the other.
Disjoint(from, to, m) ==
    \A i, j \in 1..m : i < j => to[i] <= from[j] \/ (to[j] <= from[i] /\ from[j] # from[i])

LEMMA ApartIsDisjoint ==
    ASSUME NEW text \in Seq(Scalars), NEW edits \in Seq(TextEdit),
           NEW from \in Spans(text, edits), NEW to \in Spans(text, edits),
           Forward(from, to, Len(edits)), NEW ord, IsOrder(ord, from, Len(edits))
    PROVE  /\ Apart(ord, from, to, Len(edits)) => Disjoint(from, to, Len(edits))
           /\ (\E a, b \in 1..Len(edits) : a < b /\ from[ord[b]] < to[ord[a]]) => ~Disjoint(from, to, Len(edits))
<1> DEFINE m == Len(edits)
<1>1. m \in Nat
  OBVIOUS
<1>2. \A e \in 1..m : e \in Nat /\ from[e] \in Nat /\ to[e] \in Nat /\ from[e] <= to[e]
  <2>1. \A e \in 1..m : from[e] \in 0..Len(text) /\ to[e] \in 0..Len(text)
    BY DEF Spans
  <2>2. \A e \in 1..m : from[e] \in Nat /\ to[e] \in Nat
    BY <2>1
  <2>3. \A e \in 1..m : from[e] <= to[e]
    BY DEF Forward
  <2> QED BY <1>1, <2>2, <2>3
<1>3. /\ \A a \in 1..m : ord[a] \in 1..m
      /\ \A e \in 1..m : \E a \in 1..m : ord[a] = e
      /\ \A a, b \in 1..m :
            a < b <=> \/ from[ord[a]] < from[ord[b]]
                      \/ from[ord[a]] = from[ord[b]] /\ ord[a] < ord[b]
  BY DEF IsOrder
<1> HIDE DEF m
<1>4. ASSUME Apart(ord, from, to, m), NEW i \in 1..m, NEW j \in 1..m, i < j
      PROVE  to[i] <= from[j] \/ (to[j] <= from[i] /\ from[j] # from[i])
  <2>1. PICK a \in 1..m : ord[a] = i
    BY <1>3
  <2>2. PICK b \in 1..m : ord[b] = j
    BY <1>3
  <2>3. \A x, y \in 1..m : x < y => to[ord[x]] <= from[ord[y]]
    BY <1>4 DEF Apart
  <2>4. a # b /\ a \in Nat /\ b \in Nat
    BY <1>1, <1>2, <1>4, <2>1, <2>2
  <2>5. CASE a < b
    BY <2>1, <2>2, <2>3, <2>5
  <2>6. CASE b < a
    <3>1. from[j] < from[i] \/ (from[j] = from[i] /\ j < i)
      BY <1>3, <2>1, <2>2, <2>6
    <3>2. to[j] <= from[i]
      BY <2>1, <2>2, <2>3, <2>6
    <3> QED BY <1>2, <1>4, <3>1, <3>2
  <2> QED BY <2>4, <2>5, <2>6
<1>5. ASSUME NEW a \in 1..m, NEW b \in 1..m, a < b, from[ord[b]] < to[ord[a]], Disjoint(from, to, m)
      PROVE  FALSE
  <2> DEFINE i == ord[a]
             j == ord[b]
  <2>1. i \in 1..m /\ j \in 1..m
    BY <1>3
  <2>2. from[i] < from[j] \/ (from[i] = from[j] /\ i < j)
    BY <1>3, <1>5
  <2>3. from[j] < to[i]
    BY <1>5
  <2> HIDE DEF i, j
  <2>4. CASE i < j
    <3>1. to[i] <= from[j] \/ (to[j] <= from[i] /\ from[j] # from[i])
      BY <1>5, <2>1, <2>4 DEF Disjoint
    <3> QED BY <1>2, <2>1, <2>2, <2>3, <3>1
  <2>5. CASE j < i
    <3>1. to[j] <= from[i] \/ (to[i] <= from[j] /\ from[i] # from[j])
      BY <1>5, <2>1, <2>5 DEF Disjoint
    <3> QED BY <1>2, <2>1, <2>2, <2>3, <2>5, <3>1
  <2>6. CASE i = j
    BY <1>2, <2>1, <2>2, <2>6
  <2> QED BY <1>2, <2>1, <2>4, <2>5, <2>6
<1>6. Apart(ord, from, to, m) => Disjoint(from, to, m)
  BY <1>4 DEF Disjoint
<1>7. (\E a, b \in 1..m : a < b /\ from[ord[b]] < to[ord[a]]) => ~Disjoint(from, to, m)
  BY <1>5
<1> QED BY <1>6, <1>7 DEF m

\* The pass over the edits in order ends.
LEMMA AllAreSpliced ==
    ASSUME NEW text \in Seq(Scalars), NEW edits \in Seq(TextEdit),
           NEW from \in Spans(text, edits), NEW to \in Spans(text, edits),
           Forward(from, to, Len(edits)), NEW ord \in Seq(1..Len(edits)), IsOrder(ord, from, Len(edits))
    PROVE  LET step(made, i) == SpliceEdit(text, edits, from, to, made, i)
               made == FoldLeft(step, [error |-> "none", cursor |-> 0, text |-> <<>>], ord)
           IN  made \in Splicing(text) /\ Spliced(text, edits, from, to, ord, made, Len(edits))
<1> DEFINE m == Len(edits)
           N == Len(ord)
           V == Splicing(text)
           b == [error |-> "none", cursor |-> 0, text |-> <<>>]
           step(v, d) == SpliceEdit(text, edits, from, to, v, d)
           g == [k \in 1..N |-> [v \in V |-> step(v, ord[k])]]
           inv == [n \in 0..N |-> {v \in V : Spliced(text, edits, from, to, ord, v, n)}]
<1>1. N = m /\ m \in Nat /\ \A k \in 1..m : ord[k] \in 1..m
  <2>1. ord \in [1..m -> 1..m] /\ m \in Nat
    BY DEF IsOrder
  <2>2. \A k \in 1..m : ord[k] \in 1..m
    BY <2>1
  <2>3. DOMAIN ord = 1..m /\ DOMAIN ord = 1..N /\ N \in Nat
    BY <2>1
  <2> HIDE DEF m, N
  <2>4. N = m
    BY <2>1, <2>3
  <2> QED BY <2>1, <2>2, <2>4
<1>2. b \in V
  <2>1. 0 \in 0..Len(text) /\ <<>> \in Seq(Letters)
    OBVIOUS
  <2> QED BY <2>1 DEF Splicing
<1>3. Spliced(text, edits, from, to, ord, b, 0)
  <2>1. StartAt(ord, from, 0) = 0 /\ EndAt(ord, to, 0) = 0 /\ EditAt(ord, 0) = 0
    BY DEF StartAt, EndAt, EditAt
  <2>2. Apart(ord, from, to, 0)
    <3>1. \A a : a \notin 1..0
      OBVIOUS
    <3> QED BY <3>1 DEF Apart
  <2>3. Part(text, edits, from, to, 0, 0) = <<>>
    <3>1. 0 \in 0..Len(text)
      OBVIOUS
    <3>2. Part(text, edits, from, to, 0, 0) =
              Joined(Pieces(text, edits, from, to), 0) \o Own(text, from, to, 0)
      BY <3>1, PartsGrow
    <3>3. Joined(Pieces(text, edits, from, to), 0) = <<>>
      <4>1. Pieces(text, edits, from, to) \in [1..(Len(text) + 1) -> Seq(Letters)] /\ Len(text) + 1 \in Nat
        BY PiecesAre
      <4> QED BY <4>1, JoinedGrows
    <3>4. Own(text, from, to, 0) = <<>>
      BY DEF Own
    <3>5. <<>> \o <<>> = <<>>
      OBVIOUS
    <3> QED BY <3>2, <3>3, <3>4, <3>5
  <2>4. b.error = "none" /\ b.cursor = 0 /\ b.text = <<>>
    OBVIOUS
  <2> HIDE DEF b
  <2> QED BY <2>1, <2>2, <2>3, <2>4 DEF Spliced
<1>4. \A v \in V : \A d \in 1..m : step(v, d) \in V
  BY SpliceEditType
<1> HIDE DEF V, b, m
<1>5. PICK h : IsTrace(h, N, b, g, V) /\ FoldLeft(step, b, ord) = h[N]
  <2> DEFINE gLen == [k \in 1..Len(ord) |-> [v \in V |-> SpliceEdit(text, edits, from, to, v, ord[k])]]
  <2>4. \E h : /\ IsTrace(h, Len(ord), b, gLen, V)
               /\ FoldLeft(LAMBDA v, d : SpliceEdit(text, edits, from, to, v, d), b, ord) = h[Len(ord)]
    BY <1>2, EditsFold DEF V
  <2> QED BY <2>4
<1>6. b \in inv[0]
  BY <1>1, <1>2, <1>3
<1>7. Preserves(inv, N, g, V)
  <2> SUFFICES ASSUME NEW n \in 1..N, NEW v \in V, v \in inv[n - 1] PROVE g[n][v] \in inv[n]
    BY DEF Preserves
  <2>1. n - 1 \in 0..N /\ n \in 0..N /\ n \in 1..m
    BY <1>1
  <2>2. Spliced(text, edits, from, to, ord, v, n - 1)
    BY <2>1
  <2>3. v \in Splicing(text) /\ n \in 1..Len(edits)
    BY <2>1 DEF V, m
  <2>4. Spliced(text, edits, from, to, ord, step(v, ord[n]), n)
    BY <2>2, <2>3, SpliceKeeps
  <2>5. step(v, ord[n]) \in V
    BY <1>1, <1>4, <2>1
  <2> HIDE DEF step
  <2> QED BY <2>1, <2>4, <2>5
<1>8. N \in Nat /\ N \in 0..N
  BY <1>1
<1>9. h[N] \in V /\ h[N] \in inv[N]
  <2> HIDE DEF inv, g, N
  <2> QED BY <1>2, <1>5, <1>6, <1>7, <1>8, TraceInduction
<1>10. Spliced(text, edits, from, to, ord, h[N], N)
  BY <1>8, <1>9
<1> HIDE DEF inv, g
<1>11. FoldLeft(step, b, ord) \in V /\ Spliced(text, edits, from, to, ord, FoldLeft(step, b, ord), m)
  BY <1>1, <1>5, <1>9, <1>10
<1> QED BY <1>11 DEF V, m, b

\* What edits are spliced to is what is expected of every place, unless two of them
\* are not disjoint (the forward pass of apply_text_edits).
THEOREM SpliceIs ==
    ASSUME NEW text \in Seq(Scalars), NEW edits \in Seq(TextEdit),
           NEW from \in Spans(text, edits), NEW to \in Spans(text, edits), Forward(from, to, Len(edits))
    PROVE  LET made == Splice(text, edits, from, to)
           IN  \/ /\ made = [error |-> "none", text |-> FlattenSeq(Pieces(text, edits, from, to))]
                  /\ Disjoint(from, to, Len(edits))
               \/ made = [error |-> "overlap"] /\ ~Disjoint(from, to, Len(edits))
<1> DEFINE m == Len(edits)
           n == Len(text)
           ord == InOrder(edits, from)
           step(v, i) == SpliceEdit(text, edits, from, to, v, i)
           made == FoldLeft(step, [error |-> "none", cursor |-> 0, text |-> <<>>], ord)
           f == StartAt(ord, from, m)
           c == EndAt(ord, to, m)
           k == EditAt(ord, m)
<1>1. Splice(text, edits, from, to) =
          IF made.error # "none" THEN [error |-> made.error]
          ELSE [error |-> "none", text |-> made.text \o SubSeq(text, made.cursor + 1, Len(text))]
  BY DEF Splice, Failed
<1>2. IsOrder(ord, from, m) /\ ord \in Seq(1..m)
  <2>1. from \in [DOMAIN edits -> Nat]
    BY DEF Spans
  <2> QED BY <2>1, InOrderIs
<1> HIDE DEF ord
<1>3. made \in Splicing(text) /\ Spliced(text, edits, from, to, ord, made, m)
  BY <1>2, AllAreSpliced
<1> HIDE DEF made
<1>4. made.error \in {"none", "overlap"}
  BY <1>3 DEF Splicing
<1>5. CASE made.error = "overlap"
  <2>1. \E a, b \in 1..m : a < b /\ from[ord[b]] < to[ord[a]]
    BY <1>3, <1>5 DEF Spliced
  <2>2. ~Disjoint(from, to, m)
    BY <1>2, <2>1, ApartIsDisjoint
  <2>3. Splice(text, edits, from, to) = [error |-> "overlap"]
    BY <1>1, <1>5
  <2> QED BY <2>2, <2>3
<1>6. CASE made.error = "none"
  <2>1. Apart(ord, from, to, m) /\ made.cursor = c /\ made.text = Part(text, edits, from, to, f, k)
    BY <1>3, <1>6 DEF Spliced
  <2>2. Disjoint(from, to, m)
    BY <1>2, <2>1, ApartIsDisjoint
  <2>3. m \in Nat /\ n \in Nat /\ m \in 0..m /\ n \in 0..n
    OBVIOUS
  <2>4. /\ f \in 0..n /\ c \in 0..n /\ k \in 0..m /\ f <= c
        /\ \A e \in 1..m : ByThen(from, e, f, k) <=> \E a \in 1..m : ord[a] = e
        /\ \A a \in 1..m : to[ord[a]] <= c
        /\ c = f \/ \E e \in 1..m : from[e] = f /\ to[e] = c
    BY <1>2, <2>1, <2>3, BehindAre
  <2>5. \A e \in 1..m : \E a \in 1..m : ord[a] = e
    BY <1>2 DEF IsOrder
  <2>6. \A e \in 1..m : ByThen(from, e, n, m)
    <3>1. \A e \in 1..m : from[e] \in 0..n
      BY DEF Spans
    <3>2. \A e \in 1..m : from[e] < n \/ (from[e] = n /\ e <= m)
      BY <2>3, <3>1
    <3> QED BY <3>2 DEF ByThen
  <2>7. Adjoin(text, edits, from, to, f, k, c, n, m)
    <3>1. f <= c /\ c <= n /\ (f < n \/ k <= m)
      BY <2>3, <2>4
    <3>2. \A e \in 1..m : ByThen(from, e, f, k) => to[e] <= c
      BY <2>4
    <3>3. \A e \in 1..m : ByThen(from, e, n, m) <=> ByThen(from, e, f, k)
      BY <2>4, <2>5, <2>6
    <3>4. c = f \/ \E e \in 1..m : from[e] = f /\ to[e] = c
      BY <2>4
    <3> HIDE DEF f, c, k
    <3> QED BY <2>3, <2>4, <3>1, <3>2, <3>3, <3>4 DEF Adjoin
  <2>8. Part(text, edits, from, to, n, m) = Part(text, edits, from, to, f, k) \o Copied(text, c, n)
    <3>1. f \in Nat /\ c \in Nat /\ k \in Nat
      BY <2>3, <2>4
    <3> HIDE DEF f, c, k, n, m
    <3> QED BY <2>3, <2>7, <3>1, NextPart
  <2>9. Joined(Pieces(text, edits, from, to), n + 1) = Part(text, edits, from, to, n, m)
    BY <2>3, PartsGrow
  <2>10. FlattenSeq(Pieces(text, edits, from, to)) = Joined(Pieces(text, edits, from, to), n + 1)
    <3>1. Pieces(text, edits, from, to) \in [1..(Len(text) + 1) -> Seq(Letters)] /\ Len(text) + 1 \in Nat
      BY PiecesAre
    <3> QED BY <3>1, JoinedGrows
  <2> DEFINE all == FlattenSeq(Pieces(text, edits, from, to))
             whole == made.text \o SubSeq(text, made.cursor + 1, Len(text))
  <2>11. whole = all
    <3>1. Copied(text, c, n) = SubSeq(text, made.cursor + 1, Len(text))
      BY <2>1 DEF Copied
    <3> HIDE DEF f, c, k
    <3> QED BY <2>1, <2>8, <2>9, <2>10, <3>1
  <2>12. Splice(text, edits, from, to) = [error |-> "none", text |-> whole]
    BY <1>1, <1>6
  <2> HIDE DEF whole, all
  <2>13. Splice(text, edits, from, to) = [error |-> "none", text |-> all]
    BY <2>11, <2>12
  <2> QED BY <2>2, <2>13 DEF all
<1> QED BY <1>4, <1>5, <1>6

-----------------------------------------------------------------------------
(***************************************************************************)
(* Where a text ends.                                                      *)
(***************************************************************************)

\* One more line starts before a number than before the start that precedes it.
LEMMA RankAfter ==
    ASSUME NEW S, IsFiniteSet(S), S \subseteq Nat, NEW a \in S, NEW b \in Nat, a < b,
           \A t \in S : t < b => t <= a
    PROVE  Rank(S, b) = Rank(S, a) + 1 /\ Rank(S, a) \in Nat
<1> DEFINE before == {t \in S : t < a}
<1>1. {t \in S : t < b} = before \cup {a} /\ a \notin before
  <2>1. \A t \in S : t < b <=> t < a \/ t = a
    <3> TAKE t \in S
    <3>1. t \in Nat /\ a \in Nat
      OBVIOUS
    <3> QED BY <3>1
  <2>2. ~(a < a)
    OBVIOUS
  <2> QED BY <2>1, <2>2
<1>2. IsFiniteSet(before) /\ Cardinality(before) \in Nat
  <2>1. before \subseteq S
    OBVIOUS
  <2> HIDE DEF before
  <2> QED BY <2>1, FS_Subset, FS_CardinalityType
<1>3. Cardinality(before \cup {a}) = Cardinality(before) + 1
  <2> HIDE DEF before
  <2> QED BY <1>1, <1>2, FS_AddElement
<1> QED BY <1>1, <1>2, <1>3 DEF Rank

LEMMA EndAfterType ==
    ASSUME NEW text \in Seq(Scalars), NEW end \in Position, NEW o \in 1..Len(text)
    PROVE  EndAfter(text, end, o) \in Position
<1>1. end = <<end[1], end[2]>> /\ end[1] \in Nat /\ end[2] \in Nat
  BY DEF Position
<1>2. Units(text[o]) \in Nat
  BY DEF Units
<1>3. \A l, u \in Nat : <<l, u>> \in Position
  BY DEF Position
<1>4. end[1] + 1 \in Nat /\ end[2] + Units(text[o]) \in Nat /\ 0 \in Nat
  BY <1>1, <1>2
<1> QED BY <1>1, <1>3, <1>4 DEF EndAfter

\* The pass over a document's scalars is made of steps.
LEMMA EndFold ==
    ASSUME NEW text \in Seq(Scalars), NEW b \in Position
    PROVE  LET step(v, o) == EndAfter(text, v, o)
               g == [o \in 1..Len(text) |-> [v \in Position |-> step(v, o)]]
           IN  \E h : /\ IsTrace(h, Len(text), b, g, Position)
                      /\ FoldLeft(step, b, [o \in DOMAIN text |-> o]) = h[Len(text)]
<1> DEFINE N == Len(text)
           V == Position
           step(v, o) == EndAfter(text, v, o)
           g == [o \in 1..N |-> [v \in V |-> step(v, o)]]
           seq == [o \in DOMAIN text |-> o]
           Is(it) == it = [d \in SUBSET DOMAIN seq |->
                              IF d = {} THEN b ELSE step(it[d \ {Max(d)}], seq[Max(d)])]
           it == CHOOSE f : Is(f)
           h == [n \in 0..N |-> it[1..n]]
<1>1. FoldLeft(step, b, seq) = it[DOMAIN seq]
  BY DEF FoldLeft, MapThenFoldSet
<1>2. /\ N \in Nat /\ DOMAIN seq = 1..N /\ g \in [1..N -> [V -> V]]
      /\ \A k \in 1..N : seq[k] = k /\ \A v \in V : g[k][v] = step(v, seq[k])
  <2>1. \A v \in V : \A o \in 1..N : step(v, o) \in V
    BY EndAfterType
  <2> HIDE DEF V, step
  <2> QED BY <2>1
<1>9. b \in V
  OBVIOUS
<1> HIDE DEF N, g, seq, step, V
<1>3. \A d \in SUBSET (1..N) : d # {} => Max(d) \in 1..N
  BY <1>2, GreatestIsIn
<1>4. \E f : Is(f)
  <2>1. PICK f \in [SUBSET (1..N) -> V] : TakesIn(f, N, b, g)
    BY <1>2, <1>9, FoldExists
  <2>2. \A d \in SUBSET (1..N) : d # {} => f[d] = step(f[d \ {Max(d)}], seq[Max(d)])
    BY <1>2, <1>3, <2>1 DEF TakesIn
  <2>3. f[{}] = b
    BY <2>1 DEF TakesIn
  <2>4. Is(f)
    BY <1>2, <2>2, <2>3
  <2> QED BY <2>4
<1>5. Is(it)
  <2> HIDE DEF Is
  <2> QED BY <1>4
<1> HIDE DEF it
<1>6. Follows(it, N, b, g, V)
  <2>1. it[{}] = b /\ \A d \in SUBSET (1..N) : d # {} => it[d] = step(it[d \ {Max(d)}], seq[Max(d)])
    BY <1>2, <1>5
  <2> HIDE DEF Is, h
  <2>2. ASSUME NEW d \in SUBSET (1..N), d # {}, it[d \ {Max(d)}] \in V
        PROVE  it[d] = g[Max(d)][it[d \ {Max(d)}]]
    <3>1. Max(d) \in 1..N
      BY <1>3, <2>2
    <3>2. it[d] = step(it[d \ {Max(d)}], seq[Max(d)])
      BY <2>1, <2>2
    <3>3. g[Max(d)][it[d \ {Max(d)}]] = step(it[d \ {Max(d)}], seq[Max(d)])
      BY <1>2, <2>2, <3>1
    <3> QED BY <3>2, <3>3
  <2> QED BY <2>1, <2>2 DEF Follows
<1>7. IsTrace(h, N, b, g, V)
  BY <1>2, <1>6, <1>9, FoldTrace
<1>8. h[N] = it[DOMAIN seq]
  BY <1>2
<1> HIDE DEF h
<1> QED BY <1>1, <1>7, <1>8 DEF N, step, g, seq, V

\* Whether an offset is within a break of two scalars.
Within(text, o) == 0 < o /\ o < Len(text) /\ text[o] = "r" /\ text[o + 1] = "n"

\* Where the document is taken to end after the first o scalars: a break counts as whole.
Ending(text, o) == IF Within(text, o) THEN PositionOf(text, o + 1) ELSE PositionOf(text, o)

\* One scalar further.
LEMMA EndKeeps ==
    ASSUME NEW text \in Seq(Scalars), NEW o \in 1..Len(text)
    PROVE  EndAfter(text, Ending(text, o - 1), o) = Ending(text, o)
<1> DEFINE n == Len(text)
           S == LineStarts(text)
           end == Ending(text, o - 1)
<1>1. n \in Nat /\ o \in Nat /\ o <= n /\ o - 1 \in 0..n /\ o \in 0..n /\ o - 1 \in Nat /\ (o - 1) + 1 = o
  OBVIOUS
<1>2. S \subseteq 0..n /\ S \subseteq Nat /\ IsFiniteSet(S)
  BY StartsAreFinite
<1>3. \A t \in 1..n : t \in S <=> \/ text[t] = "n"
                                  \/ text[t] = "r" /\ (t = n \/ text[t + 1] # "n")
  BY DEF LineStarts
<1>4. PICK a : IsStartOf(text, a, o - 1)
  BY <1>1, StartExists
<1>5. a \in S /\ a \in Nat /\ a <= o - 1 /\ \A t \in S : t <= o - 1 => t <= a
  BY <1>2, <1>4 DEF IsStartOf
<1> DEFINE line == Rank(S, a)
           units == Between(text, a, o - 1)
<1>6. PositionOf(text, o - 1) = <<line, units>>
  BY <1>1, <1>4, PositionIs
\* A break that begins a line at p, after the line at a.
<1>7. ASSUME NEW p \in 1..n, p \in S, \A t \in S : t < p => t <= a, a < p
      PROVE  PositionOf(text, p) = <<line + 1, 0>>
  <2>1. IsStartOf(text, p, p)
    <3>1. \A t \in S : t <= p => t <= p
      OBVIOUS
    <3>2. p <= p
      OBVIOUS
    <3> QED BY <1>7, <3>1, <3>2 DEF IsStartOf
  <2>2. p \in 0..n /\ p \in Nat
    BY <1>1
  <2>3. PositionOf(text, p) = <<Rank(S, p), Between(text, p, p)>>
    BY <2>1, <2>2, PositionIs
  <2>4. Rank(S, p) = line + 1
    <3> HIDE DEF S
    <3> QED BY <1>2, <1>5, <1>7, <2>2, RankAfter DEF S
  <2>5. Between(text, p, p) = 0
    BY <2>2, NothingBetween
  <2> QED BY <2>3, <2>4, <2>5
<1>8. CASE text[o] = "n" /\ o > 1 /\ text[o - 1] = "r"
  <2>1. Within(text, o - 1)
    BY <1>1, <1>8 DEF Within
  <2>2. end = PositionOf(text, o)
    BY <1>1, <2>1 DEF Ending
  <2>3. EndAfter(text, end, o) = end
    BY <1>8 DEF EndAfter
  <2>4. ~Within(text, o)
    BY <1>8 DEF Within
  <2> QED BY <2>2, <2>3, <2>4 DEF Ending
<1>9. CASE ~(text[o] = "n" /\ o > 1 /\ text[o - 1] = "r")
  <2>1. ~Within(text, o - 1)
    BY <1>1, <1>9 DEF Within
  <2>2. end = <<line, units>>
    BY <1>6, <2>1 DEF Ending
  <2>3. CASE text[o] \in Breaks
    <3>1. EndAfter(text, end, o) = <<line + 1, 0>>
      <4> HIDE DEF end
      <4> QED BY <1>9, <2>2, <2>3 DEF EndAfter
    <3>2. \A t \in S : t < o => t <= a
      <4> TAKE t \in S
      <4>1. t \in Nat
        BY <1>2
      <4>2. t < o => t <= o - 1
        BY <1>1, <4>1
      <4> QED BY <1>5, <4>2
    <3>3. CASE Within(text, o)
      <4>1. o < n /\ text[o] = "r" /\ text[o + 1] = "n" /\ o + 1 \in 1..n
        BY <1>1, <3>3 DEF Within
      <4>2. o \notin S /\ o + 1 \in S
        BY <1>1, <1>3, <4>1
      <4>3. \A t \in S : t < o + 1 => t <= a
        <5> TAKE t \in S
        <5>1. t \in Nat /\ t # o
          BY <1>2, <4>2
        <5>2. t < o + 1 => t < o
          BY <1>1, <5>1
        <5> QED BY <3>2, <5>2
      <4>4. a < o + 1
        BY <1>1, <1>5
      <4>5. PositionOf(text, o + 1) = <<line + 1, 0>>
        BY <1>7, <4>1, <4>2, <4>3, <4>4
      <4> QED BY <3>1, <3>3, <4>5 DEF Ending
    <3>4. CASE ~Within(text, o)
      <4>1. o \in S
        BY <1>1, <1>3, <2>3, <3>4 DEF Within, Breaks
      <4>2. a < o
        BY <1>1, <1>5
      <4>3. PositionOf(text, o) = <<line + 1, 0>>
        BY <1>7, <3>2, <4>1, <4>2
      <4> QED BY <3>1, <3>4, <4>3 DEF Ending
    <3> QED BY <3>3, <3>4
  <2>4. CASE text[o] \notin Breaks
    <3>1. EndAfter(text, end, o) = <<line, units + Units(text[o])>>
      <4>1. text[o] # "n"
        BY <2>4 DEF Breaks
      <4> HIDE DEF end
      <4> QED BY <2>2, <2>4, <4>1 DEF EndAfter
    <3>2. ~Within(text, o) /\ o \notin S
      BY <1>3, <2>4 DEF Within, Breaks
    <3>3. IsStartOf(text, a, o)
      <4>1. \A t \in S : t <= o => t <= a
        <5> TAKE t \in S
        <5>1. t \in Nat /\ t # o
          BY <1>2, <3>2
        <5>2. t <= o => t <= o - 1
          BY <1>1, <5>1
        <5> QED BY <1>5, <5>2
      <4>2. a <= o
        BY <1>1, <1>5
      <4> QED BY <1>5, <4>1, <4>2 DEF IsStartOf
    <3>4. PositionOf(text, o) = <<line, Between(text, a, o)>>
      BY <1>1, <3>3, PositionIs
    <3>5. Between(text, a, o) = units + Units(text[o])
      <4> DEFINE p == o - 1
      <4>1. p \in Nat /\ a <= p /\ p < Len(text) /\ p + 1 = o
        BY <1>1, <1>5
      <4> HIDE DEF p
      <4>2. Between(text, a, p + 1) = Between(text, a, p) + Units(text[p + 1])
        BY <1>5, <4>1, BetweenGrows
      <4> QED BY <4>1, <4>2 DEF p
    <3> QED BY <3>1, <3>2, <3>4, <3>5 DEF Ending
  <2> QED BY <2>3, <2>4
<1> QED BY <1>8, <1>9

LEMMA PositionType ==
    ASSUME NEW text \in Seq(Scalars), NEW o \in 0..Len(text)
    PROVE  PositionOf(text, o) \in Position
<1>1. PICK a : IsStartOf(text, a, o)
  BY StartExists
<1>2. PositionOf(text, o) = <<Rank(LineStarts(text), a), Between(text, a, o)>>
  BY <1>1, PositionIs
<1>3. a \in LineStarts(text) /\ a \in Nat /\ o \in Nat /\ a <= o
  BY <1>1, StartsAreFinite DEF IsStartOf
<1>4. Rank(LineStarts(text), a) \in Nat
  BY <1>3, StartsAreFinite, RanksAreOneToOne
<1>5. Between(text, a, o) \in Nat
  BY <1>3, BetweenIsOneToOne
<1> QED BY <1>2, <1>4, <1>5 DEF Position

\* A document ends at the position of its last offset.
LEMMA EndIs ==
    ASSUME NEW text \in Seq(Scalars)
    PROVE  DocumentEnd(text) = PositionOf(text, Len(text)) /\ DocumentEnd(text) \in Position
<1> DEFINE N == Len(text)
           V == Position
           b == <<0, 0>>
           step(v, o) == EndAfter(text, v, o)
           g == [o \in 1..N |-> [v \in V |-> step(v, o)]]
           inv == [o \in 0..N |-> {v \in V : v = Ending(text, o)}]
<1>1. N \in Nat /\ N \in 0..N /\ 0 \in 0..N
  OBVIOUS
<1>2. b \in V
  BY DEF Position
<1>3. PICK h : IsTrace(h, N, b, g, V) /\ FoldLeft(step, b, [o \in DOMAIN text |-> o]) = h[N]
  BY <1>2, EndFold
<1>4. b = Ending(text, 0)
  <2>1. ~Within(text, 0)
    BY DEF Within
  <2>2. IsStartOf(text, 0, 0)
    <3>1. \A t \in LineStarts(text) : t <= 0 => t <= 0
      OBVIOUS
    <3>2. 0 \in LineStarts(text) /\ 0 <= 0
      BY StartsAreFinite
    <3> QED BY <3>1, <3>2 DEF IsStartOf
  <2>3. PositionOf(text, 0) = <<Rank(LineStarts(text), 0), Between(text, 0, 0)>>
    BY <1>1, <2>2, PositionIs
  <2>4. Rank(LineStarts(text), 0) = 0
    <3>1. {t \in LineStarts(text) : t < 0} = {}
      BY StartsAreFinite
    <3> QED BY <3>1, FS_EmptySet DEF Rank
  <2>5. Between(text, 0, 0) = 0
    BY NothingBetween
  <2> QED BY <2>1, <2>3, <2>4, <2>5 DEF Ending
<1>5. \A v \in V : \A o \in 1..N : step(v, o) \in V
  BY EndAfterType
<1> HIDE DEF V, b
<1>6. b \in inv[0]
  BY <1>1, <1>2, <1>4
<1>7. Preserves(inv, N, g, V)
  <2> SUFFICES ASSUME NEW n \in 1..N, NEW v \in V, v \in inv[n - 1] PROVE g[n][v] \in inv[n]
    BY DEF Preserves
  <2>1. n - 1 \in 0..N /\ n \in 0..N /\ n \in 1..Len(text)
    BY <1>1
  <2>2. v = Ending(text, n - 1)
    BY <2>1
  <2>3. EndAfter(text, v, n) = Ending(text, n)
    BY <2>1, <2>2, EndKeeps
  <2>4. step(v, n) \in V
    BY <1>5
  <2> QED BY <2>1, <2>3, <2>4
<1>8. h[N] \in V /\ h[N] \in inv[N]
  <2> HIDE DEF inv, g, N
  <2> QED BY <1>1, <1>2, <1>3, <1>6, <1>7, TraceInduction
<1>9. h[N] = Ending(text, N)
  BY <1>1, <1>8
<1>10. Ending(text, N) = PositionOf(text, N)
  BY <1>1 DEF Ending, Within
<1>11. DocumentEnd(text) = h[N]
  BY <1>3 DEF DocumentEnd, b
<1> QED BY <1>8, <1>9, <1>10, <1>11 DEF V

\* A position names one offset at most.
LEMMA NamedIsOne ==
    ASSUME NEW text \in Seq(Scalars), NEW p \in Position, NEW o \in Named(text, p), NEW q \in Named(text, p)
    PROVE  o = q
<1>1. o \in 0..Len(text) /\ q \in 0..Len(text) /\ PositionOf(text, o) = p /\ PositionOf(text, q) = p
  BY DEF Named, Boundaries
<1>2. \A r \in Position : r = p => (p = r <=> o = q)
  BY NamedAreInOrder
<1> QED BY <1>2

\* The end of a document resolves to its last offset, for every text.
LEMMA EndsAreSound ==
    ASSUME NEW text \in Seq(Scalars)
    PROVE  EndIsSound(text)
<1> DEFINE end == DocumentEnd(text)
           n == Len(text)
           positions == <<end>>
           made == Resolve(text, positions)
           offsets == made.offsets
<1>1. end \in Position /\ end = PositionOf(text, n) /\ n \in Nat
  BY EndIs
<1>2. n \in Named(text, end)
  <2>1. n \in Boundaries(text)
    BY <1>1 DEF Boundaries
  <2> QED BY <1>1, <2>1 DEF Named
<1> HIDE DEF end, n
<1>3. AreSorted(positions) /\ DOMAIN positions = {1} /\ positions[1] = end
  <2>1. positions \in Seq(Position) /\ DOMAIN positions = {1} /\ positions[1] = end
    BY <1>1
  <2>2. \A j, k \in DOMAIN positions : ~(j < k)
    BY <2>1
  <2> QED BY <2>1, <2>2 DEF AreSorted
<1> HIDE DEF positions
<1>4. \/ /\ made = [error |-> "none", offsets |-> offsets]
         /\ offsets = [p \in DOMAIN offsets |-> offsets[p]]
         /\ \A p : p \in DOMAIN offsets <=> \E k \in DOMAIN positions : p = positions[k]
         /\ \A k \in DOMAIN positions : offsets[positions[k]] \in Named(text, positions[k])
         /\ ~ \E j, k \in DOMAIN positions : Misread(text, positions[j], positions[k])
      \/ /\ made = [error |-> "line"] \/ made = [error |-> "character"]
         /\ \E k \in DOMAIN positions : Named(text, positions[k]) = {}
      \/ /\ made = [error |-> "split"]
         /\ \/ \E k \in DOMAIN positions : Named(text, positions[k]) = {}
            \/ \E j, k \in DOMAIN positions : Misread(text, positions[j], positions[k])
  BY <1>3, AllAreResolved
<1>5. \A k \in DOMAIN positions : Named(text, positions[k]) # {}
  BY <1>2, <1>3
<1>6. \A j, k \in DOMAIN positions : ~Misread(text, positions[j], positions[k])
  <2>1. ~(end[1] < end[1])
    BY <1>1 DEF Position
  <2> QED BY <1>3, <2>1 DEF Misread
<1> HIDE DEF made
<1>7. /\ made = [error |-> "none", offsets |-> offsets]
      /\ offsets = [p \in DOMAIN offsets |-> offsets[p]]
      /\ \A p : p \in DOMAIN offsets <=> \E k \in DOMAIN positions : p = positions[k]
      /\ \A k \in DOMAIN positions : offsets[positions[k]] \in Named(text, positions[k])
  BY <1>4, <1>5, <1>6
<1> HIDE DEF offsets
<1>8. DOMAIN offsets = {end}
  BY <1>3, <1>7
<1>9. offsets[end] = n
  <2>1. offsets[end] \in Named(text, end)
    BY <1>3, <1>7
  <2> QED BY <1>1, <1>2, <2>1, NamedIsOne
<1>10. offsets = [p \in {end} |-> n]
  BY <1>7, <1>8, <1>9
<1> QED BY <1>7, <1>10 DEF EndIsSound, made, positions, end, n

-----------------------------------------------------------------------------
(***************************************************************************)
(* What a list of edits makes of a text.                                   *)
(***************************************************************************)

LEMMA EditsHaveEnds ==
    ASSUME NEW edits \in Seq(TextEdit)
    PROVE  /\ \A i \in DOMAIN edits : edits[i].start \in Position /\ edits[i].end \in Position
           /\ Ends(edits) \subseteq Position
           /\ \A p : p \in Ends(edits) <=> \E i \in DOMAIN edits : p = edits[i].start \/ p = edits[i].end
<1>1. \A i \in DOMAIN edits : edits[i] \in TextEdit
  OBVIOUS
<1>2. \A i \in DOMAIN edits : edits[i].start \in Position /\ edits[i].end \in Position
  BY <1>1 DEF TextEdit
<1>3. \A p : p \in Ends(edits) <=> \E i \in DOMAIN edits : p = edits[i].start \/ p = edits[i].end
  BY DEF Ends
<1>4. Ends(edits) \subseteq Position
  BY <1>2, <1>3
<1> QED BY <1>2, <1>3, <1>4

\* The order of positions is total.
LEMMA BeforeIsTotal ==
    ASSUME NEW p \in Position, NEW q \in Position, NEW r \in Position
    PROVE  /\ ~Before(p, p)
           /\ p # q => Before(p, q) \/ Before(q, p)
           /\ Before(p, q) /\ Before(q, r) => Before(p, r)
<1>1. /\ p = <<p[1], p[2]>> /\ q = <<q[1], q[2]>> /\ r = <<r[1], r[2]>>
      /\ p[1] \in Nat /\ p[2] \in Nat /\ q[1] \in Nat /\ q[2] \in Nat /\ r[1] \in Nat /\ r[2] \in Nat
  BY DEF Position
<1> QED BY <1>1 DEF Before

LEMMA EndsAreSorted ==
    ASSUME NEW edits \in Seq(TextEdit)
    PROVE  LET named == Ends(edits)
               positions == Sort(named, {p \in named \X named : Before(p[1], p[2])})
           IN  /\ AreSorted(positions)
               /\ \A p : p \in named <=> \E k \in DOMAIN positions : p = positions[k]
<1> DEFINE named == Ends(edits)
           before == {p \in named \X named : Before(p[1], p[2])}
           positions == Sort(named, before)
           n == Cardinality(named)
<1>1. named \subseteq Position
  BY EditsHaveEnds
<1>2. IsFiniteSet(named)
  <2> DEFINE S == DOMAIN edits
             starts == [i \in S |-> edits[i].start]
             ends == [i \in S |-> edits[i].end]
  <2>1. IsFiniteSet(S)
    <3>1. S \subseteq 1..Len(edits) /\ Len(edits) \in Nat
      OBVIOUS
    <3> QED BY <3>1, PlacesAreFinite
  <2>2. named = {starts[i] : i \in S} \cup {ends[i] : i \in S}
    BY EditsHaveEnds
  <2> HIDE DEF S, starts, ends, named
  <2>3. IsFiniteSet({starts[i] : i \in S}) /\ IsFiniteSet({ends[i] : i \in S})
    BY <2>1, ImageIsFinite
  <2> QED BY <2>2, <2>3, FS_Union
<1> HIDE DEF named
<1>3. \A p, q \in named : <<p, q>> \in before <=> Before(p, q)
  OBVIOUS
<1> HIDE DEF before
<1>4. Orders(before, named)
  <2>1. \A p \in named : <<p, p>> \notin before
    BY <1>1, <1>3, BeforeIsTotal
  <2>2. \A p, q \in named : p # q => <<p, q>> \in before \/ <<q, p>> \in before
    BY <1>1, <1>3, BeforeIsTotal
  <2>3. \A p, q, r \in named : <<p, q>> \in before /\ <<q, r>> \in before => <<p, r>> \in before
    BY <1>1, <1>3, BeforeIsTotal
  <2> QED BY <2>1, <2>2, <2>3 DEF Orders
<1>5. n \in Nat /\ IsInOrder(positions, named, before)
  BY <1>2, <1>4, SortIsInOrder
<1> HIDE DEF n, positions
<1>6. /\ positions \in [1..n -> named]
      /\ \A p \in named : \E k \in 1..n : positions[k] = p
      /\ \A j, k \in 1..n : j < k => <<positions[j], positions[k]>> \in before
  BY <1>5 DEF IsInOrder, n
<1>7. DOMAIN positions = 1..n /\ \A k \in 1..n : positions[k] \in named
  BY <1>6
<1>8. AreSorted(positions)
  <2>1. positions \in Seq(Position)
    <3>1. positions \in [1..n -> Position]
      BY <1>1, <1>6
    <3> QED BY <1>5, <3>1
  <2>2. \A j, k \in 1..n : j < k => Before(positions[j], positions[k])
    BY <1>3, <1>6, <1>7
  <2> QED BY <1>7, <2>1, <2>2 DEF AreSorted
<1>9. \A p : p \in named <=> \E k \in DOMAIN positions : p = positions[k]
  BY <1>6, <1>7
<1> QED BY <1>8, <1>9 DEF positions, before, named

\* The edits of a list are from and to the offsets that their positions name.
Places(text, edits, from, to) ==
    \A i \in DOMAIN edits :
        from[i] \in Named(text, edits[i].start) /\ to[i] \in Named(text, edits[i].end)

LEMMA PlacesAreSpans ==
    ASSUME NEW text \in Seq(Scalars), NEW edits \in Seq(TextEdit),
           NEW from \in Spans(text, edits), NEW to \in Spans(text, edits), Places(text, edits, from, to)
    PROVE  /\ \A i \in DOMAIN edits :
                 /\ from[i] \in Nat /\ to[i] \in Nat
                 /\ \A o \in Named(text, edits[i].start) : o = from[i]
                 /\ \A o \in Named(text, edits[i].end) : o = to[i]
           /\ InText(text, edits) <=> Forward(from, to, Len(edits))
<1>1. ASSUME NEW i \in DOMAIN edits
      PROVE  /\ from[i] \in Nat /\ to[i] \in Nat
             /\ \A o \in Named(text, edits[i].start) : o = from[i]
             /\ \A o \in Named(text, edits[i].end) : o = to[i]
  <2>1. from[i] \in 0..Len(text) /\ to[i] \in 0..Len(text)
    BY DEF Spans
  <2>2. edits[i].start \in Position /\ edits[i].end \in Position
    BY EditsHaveEnds
  <2>3. from[i] \in Named(text, edits[i].start) /\ to[i] \in Named(text, edits[i].end)
    BY DEF Places
  <2>4. ASSUME NEW o \in Named(text, edits[i].start) PROVE o = from[i]
    BY <2>2, <2>3, NamedIsOne
  <2>5. ASSUME NEW o \in Named(text, edits[i].end) PROVE o = to[i]
    BY <2>2, <2>3, NamedIsOne
  <2> QED BY <2>1, <2>4, <2>5
<1>2. ASSUME InText(text, edits) PROVE Forward(from, to, Len(edits))
  <2> SUFFICES ASSUME NEW i \in DOMAIN edits PROVE from[i] <= to[i]
    BY DEF Forward
  <2>1. PICK o \in Named(text, edits[i].start), e \in Named(text, edits[i].end) : o <= e
    BY <1>2 DEF InText
  <2> QED BY <1>1, <2>1
<1>3. ASSUME Forward(from, to, Len(edits)) PROVE InText(text, edits)
  <2> SUFFICES ASSUME NEW i \in DOMAIN edits
               PROVE  \E o \in Named(text, edits[i].start), e \in Named(text, edits[i].end) : o <= e
    BY DEF InText
  <2>1. from[i] <= to[i]
    BY <1>3 DEF Forward
  <2>2. from[i] \in Named(text, edits[i].start) /\ to[i] \in Named(text, edits[i].end)
    BY DEF Places
  <2> QED BY <2>1, <2>2
<1> QED BY <1>1, <1>2, <1>3

\* Edits may stand in one list exactly if the ranges they name are disjoint.
LEMMA CompatibleIsDisjoint ==
    ASSUME NEW text \in Seq(Scalars), NEW edits \in Seq(TextEdit),
           NEW from \in Spans(text, edits), NEW to \in Spans(text, edits),
           Places(text, edits, from, to), Forward(from, to, Len(edits))
    PROVE  Compatible(edits) <=> Disjoint(from, to, Len(edits))
<1> DEFINE S == DOMAIN edits
           may(i, j) == \/ edits[i].end = edits[j].start
                        \/ Before(edits[i].end, edits[j].start)
                        \/ edits[j].end = edits[i].start /\ edits[j].start # edits[i].start
                        \/ Before(edits[j].end, edits[i].start)
           do(i, j) == to[i] <= from[j] \/ (to[j] <= from[i] /\ from[j] # from[i])
<1>1. ASSUME NEW i \in S, NEW j \in S
      PROVE  /\ (edits[i].end = edits[j].start) <=> (to[i] = from[j])
             /\ Before(edits[i].end, edits[j].start) <=> (to[i] < from[j])
             /\ (edits[i].start = edits[j].start) <=> (from[i] = from[j])
  <2>1. /\ edits[i].start \in Position /\ edits[i].end \in Position
        /\ edits[j].start \in Position
    BY EditsHaveEnds
  <2>2. /\ from[i] \in Named(text, edits[i].start) /\ to[i] \in Named(text, edits[i].end)
        /\ from[j] \in Named(text, edits[j].start)
    BY DEF Places
  <2>3. /\ Before(edits[i].end, edits[j].start) <=> (to[i] < from[j])
        /\ (edits[i].end = edits[j].start) <=> (to[i] = from[j])
    BY <2>1, <2>2, NamedAreInOrder
  <2>4. (edits[i].start = edits[j].start) <=> (from[i] = from[j])
    BY <2>1, <2>2, NamedAreInOrder
  <2> QED BY <2>3, <2>4
<1>2. \A i \in S : from[i] \in Nat /\ to[i] \in Nat
  BY PlacesAreSpans
<1>3. \A i \in S : from[i] <= to[i]
  BY DEF Forward
<1>4. ASSUME NEW i \in S, NEW j \in S PROVE may(i, j) <=> do(i, j)
  <2>1. may(i, j) <=> (\/ to[i] = from[j]
                       \/ to[i] < from[j]
                       \/ to[j] = from[i] /\ from[j] # from[i]
                       \/ to[j] < from[i])
    <3>1. (edits[i].end = edits[j].start) <=> (to[i] = from[j])
      BY <1>1
    <3>2. Before(edits[i].end, edits[j].start) <=> (to[i] < from[j])
      BY <1>1
    <3>3. (edits[j].end = edits[i].start) <=> (to[j] = from[i])
      BY <1>1
    <3>4. Before(edits[j].end, edits[i].start) <=> (to[j] < from[i])
      BY <1>1
    <3>5. (edits[j].start = edits[i].start) <=> (from[j] = from[i])
      BY <1>1
    <3> HIDE DEF S
    <3> QED BY <3>1, <3>2, <3>3, <3>4, <3>5
  <2> HIDE DEF may, S
  <2> QED BY <1>2, <1>3, <2>1
<1>5. Compatible(edits) <=> \A i, j \in S : i < j => may(i, j)
  BY DEF Compatible
<1>6. Disjoint(from, to, Len(edits)) <=> \A i, j \in S : i < j => do(i, j)
  <2>1. S = 1..Len(edits)
    OBVIOUS
  <2> HIDE DEF S
  <2> QED BY <2>1 DEF Disjoint
<1> HIDE DEF may, do, S
<1> QED BY <1>4, <1>5, <1>6

\* What is expected of edits is expected of the offsets they name.
LEMMA ExpectedIs ==
    ASSUME NEW text \in Seq(Scalars), NEW edits \in Seq(TextEdit),
           NEW from \in Spans(text, edits), NEW to \in Spans(text, edits), Places(text, edits, from, to)
    PROVE  Expected(text, edits) = FlattenSeq(Pieces(text, edits, from, to))
<1> DEFINE S == DOMAIN edits
           n == Len(text)
           offset(p) == CHOOSE o \in 0..n : o \in Named(text, p)
           covered(o) == \E i \in S : offset(edits[i].start) < o /\ o <= offset(edits[i].end)
           at(o) == FlattenSeq([i \in S |->
                                   IF offset(edits[i].start) = o THEN edits[i].text ELSE <<>>])
           place(k) == (IF k = 1 \/ covered(k - 1) THEN <<>> ELSE <<text[k - 1]>>) \o at(k - 1)
<1>1. Expected(text, edits) = FlattenSeq([k \in 1..(n + 1) |-> place(k)])
  BY DEF Expected
<1>2. DOMAIN from = S /\ DOMAIN to = S /\ n \in Nat
  BY DEF Spans
<1>3. ASSUME NEW i \in S PROVE offset(edits[i].start) = from[i] /\ offset(edits[i].end) = to[i]
  <2>1. from[i] \in 0..n /\ to[i] \in 0..n
    BY DEF Spans
  <2>2. from[i] \in Named(text, edits[i].start) /\ to[i] \in Named(text, edits[i].end)
    BY DEF Places
  <2>3. offset(edits[i].start) \in Named(text, edits[i].start)
    BY <2>1, <2>2
  <2>4. offset(edits[i].end) \in Named(text, edits[i].end)
    BY <2>1, <2>2
  <2> HIDE DEF offset
  <2> QED BY <2>3, <2>4, PlacesAreSpans
<1> HIDE DEF offset
<1>4. ASSUME NEW o \in Nat
      PROVE  (covered(o) <=> Covered(from, to, o)) /\ at(o) = FlattenSeq(TextsAt(edits, from, o))
  <2>1. covered(o) <=> Covered(from, to, o)
    BY <1>2, <1>3 DEF Covered
  <2>2. [i \in S |-> IF offset(edits[i].start) = o THEN edits[i].text ELSE <<>>] = TextsAt(edits, from, o)
    BY <1>3 DEF TextsAt
  <2> QED BY <2>1, <2>2
<1> HIDE DEF covered, at
<1>5. ASSUME NEW k \in 1..(n + 1) PROVE place(k) = Pieces(text, edits, from, to)[k]
  <2>1. k - 1 \in Nat /\ (k = 1 <=> k - 1 = 0)
    BY <1>2
  <2>2. Pieces(text, edits, from, to)[k] = Own(text, from, to, k - 1) \o FlattenSeq(TextsAt(edits, from, k - 1))
    BY DEF Pieces
  <2>3. (IF k = 1 \/ covered(k - 1) THEN <<>> ELSE <<text[k - 1]>>) = Own(text, from, to, k - 1)
    BY <1>4, <2>1 DEF Own
  <2>4. at(k - 1) = FlattenSeq(TextsAt(edits, from, k - 1))
    BY <1>4, <2>1
  <2> QED BY <2>2, <2>3, <2>4
<1> HIDE DEF place
<1>6. Pieces(text, edits, from, to) = [k \in 1..(n + 1) |-> Pieces(text, edits, from, to)[k]]
  BY DEF Pieces
<1>7. [k \in 1..(n + 1) |-> place(k)] = Pieces(text, edits, from, to)
  BY <1>5, <1>6
<1> QED BY <1>1, <1>7

\* Positions are resolved to the offsets they name, or there is one that names none, or
\* one is misread for another.
LEMMA EditsAreResolved ==
    ASSUME NEW text \in Seq(Scalars), NEW edits \in Seq(TextEdit)
    PROVE  LET named == Ends(edits)
               found == Resolve(text, Sort(named, {p \in named \X named : Before(p[1], p[2])}))
               from == [i \in DOMAIN edits |-> found.offsets[edits[i].start]]
               to == [i \in DOMAIN edits |-> found.offsets[edits[i].end]]
           IN  \/ /\ found.error = "none"
                  /\ from \in Spans(text, edits) /\ to \in Spans(text, edits)
                  /\ Places(text, edits, from, to)
                  /\ ~HasMisread(text, edits)
               \/ /\ found = [error |-> "line"] \/ found = [error |-> "character"]
                  /\ ~InText(text, edits)
               \/ /\ found = [error |-> "split"]
                  /\ ~InText(text, edits) \/ HasMisread(text, edits)
<1> DEFINE named == Ends(edits)
           positions == Sort(named, {p \in named \X named : Before(p[1], p[2])})
           found == Resolve(text, positions)
           offsets == found.offsets
           from == [i \in DOMAIN edits |-> offsets[edits[i].start]]
           to == [i \in DOMAIN edits |-> offsets[edits[i].end]]
<1>1. AreSorted(positions) /\ \A p : p \in named <=> \E k \in DOMAIN positions : p = positions[k]
  BY EndsAreSorted
<1>2. \A p : p \in named <=> \E i \in DOMAIN edits : p = edits[i].start \/ p = edits[i].end
  BY EditsHaveEnds
<1> HIDE DEF positions, named
<1>3. \/ /\ found = [error |-> "none", offsets |-> offsets]
         /\ offsets = [p \in DOMAIN offsets |-> offsets[p]]
         /\ \A p : p \in DOMAIN offsets <=> \E k \in DOMAIN positions : p = positions[k]
         /\ \A k \in DOMAIN positions : offsets[positions[k]] \in Named(text, positions[k])
         /\ ~ \E j, k \in DOMAIN positions : Misread(text, positions[j], positions[k])
      \/ /\ found = [error |-> "line"] \/ found = [error |-> "character"]
         /\ \E k \in DOMAIN positions : Named(text, positions[k]) = {}
      \/ /\ found = [error |-> "split"]
         /\ \/ \E k \in DOMAIN positions : Named(text, positions[k]) = {}
            \/ \E j, k \in DOMAIN positions : Misread(text, positions[j], positions[k])
  BY <1>1, AllAreResolved
<1> HIDE DEF found
<1>4. ASSUME NEW k \in DOMAIN positions, Named(text, positions[k]) = {}
      PROVE  ~InText(text, edits)
  <2>1. positions[k] \in named
    BY <1>1
  <2>2. PICK i \in DOMAIN edits : positions[k] = edits[i].start \/ positions[k] = edits[i].end
    BY <1>2, <2>1
  <2> QED BY <1>4, <2>2 DEF InText
<1>5. HasMisread(text, edits) <=> \E j, k \in DOMAIN positions : Misread(text, positions[j], positions[k])
  <2>1. HasMisread(text, edits) <=> \E p, q \in named : Misread(text, p, q)
    BY DEF HasMisread, named
  <2>2. \A p \in named : \E k \in DOMAIN positions : p = positions[k]
    BY <1>1
  <2>3. \A k \in DOMAIN positions : positions[k] \in named
    BY <1>1
  <2> QED BY <2>1, <2>2, <2>3
<1>6. CASE found = [error |-> "line"] \/ found = [error |-> "character"] \/ found = [error |-> "split"]
  <2>1. found # [error |-> "none", offsets |-> offsets]
    <3>1. found.error # "none"
      BY <1>6
    <3> HIDE DEF offsets
    <3> QED BY <3>1
  <2> HIDE DEF offsets, from, to
  <2>2. CASE found = [error |-> "split"]
    <3>1. found # [error |-> "line"] /\ found # [error |-> "character"]
      BY <2>2
    <3>2. \/ \E k \in DOMAIN positions : Named(text, positions[k]) = {}
          \/ \E j, k \in DOMAIN positions : Misread(text, positions[j], positions[k])
      BY <1>3, <2>1, <3>1
    <3>3. ~InText(text, edits) \/ HasMisread(text, edits)
      BY <1>4, <1>5, <3>2
    <3> QED BY <2>2, <3>3 DEF found, positions, named
  <2>3. CASE found = [error |-> "line"] \/ found = [error |-> "character"]
    <3>1. found # [error |-> "split"]
      BY <2>3
    <3>2. \E k \in DOMAIN positions : Named(text, positions[k]) = {}
      BY <1>3, <2>1, <3>1
    <3>3. ~InText(text, edits)
      BY <1>4, <3>2
    <3> QED BY <2>3, <3>3 DEF found, positions, named
  <2> QED BY <1>6, <2>2, <2>3
<1>7. CASE ~(found = [error |-> "line"] \/ found = [error |-> "character"] \/ found = [error |-> "split"])
  <2>1. found = [error |-> "none", offsets |-> offsets]
    <3> HIDE DEF offsets
    <3> QED BY <1>3, <1>7
  <2>2. \A k \in DOMAIN positions : offsets[positions[k]] \in Named(text, positions[k])
    <3> HIDE DEF offsets
    <3> QED BY <1>3, <1>7
  <2>3. found.error = "none"
    <3> HIDE DEF offsets
    <3> QED BY <2>1
  <2>4. ASSUME NEW i \in DOMAIN edits
        PROVE  /\ offsets[edits[i].start] \in Named(text, edits[i].start)
               /\ offsets[edits[i].end] \in Named(text, edits[i].end)
    <3>1. edits[i].start \in named /\ edits[i].end \in named
      BY <1>2
    <3>2. PICK j \in DOMAIN positions : edits[i].start = positions[j]
      BY <1>1, <3>1
    <3>3. PICK k \in DOMAIN positions : edits[i].end = positions[k]
      BY <1>1, <3>1
    <3> QED BY <2>2, <3>2, <3>3
  <2>5. \A p : Named(text, p) \subseteq 0..Len(text)
    BY DEF Named, Boundaries
  <2> HIDE DEF offsets
  <2>6. from \in Spans(text, edits) /\ to \in Spans(text, edits)
    BY <2>4, <2>5 DEF Spans
  <2>7. Places(text, edits, from, to)
    BY <2>4 DEF Places
  <2>8. ~HasMisread(text, edits)
    BY <1>3, <1>5, <1>7
  <2> QED BY <2>3, <2>6, <2>7, <2>8 DEF found, positions, named, offsets
<1> QED BY <1>6, <1>7

\* Whatever the edits of a text are, what is made of it is what they mean, and a refusal
\* says what is wrong with them, but for positions that are misread: those alone are
\* always refused.
LEMMA EditsAreAlwaysSound ==
    ASSUME NEW text \in Seq(Scalars), NEW edits \in Seq(TextEdit)
    PROVE  EditsAreSound(text, edits)
<1> DEFINE named == Ends(edits)
           found == Resolve(text, Sort(named, {p \in named \X named : Before(p[1], p[2])}))
           from == [i \in DOMAIN edits |-> found.offsets[edits[i].start]]
           to == [i \in DOMAIN edits |-> found.offsets[edits[i].end]]
           made == ApplyTextEdits(text, edits)
           misread == HasMisread(text, edits)
<1>1. made = IF found.error # "none" THEN found
             ELSE IF \E i \in DOMAIN edits : from[i] > to[i] THEN [error |-> "inverted"]
             ELSE Splice(text, edits, from, to)
  BY DEF ApplyTextEdits, Ends, Failed
<1>2. \/ /\ found.error = "none"
         /\ from \in Spans(text, edits) /\ to \in Spans(text, edits)
         /\ Places(text, edits, from, to)
         /\ ~misread
      \/ /\ found = [error |-> "line"] \/ found = [error |-> "character"]
         /\ ~InText(text, edits)
      \/ /\ found = [error |-> "split"]
         /\ ~InText(text, edits) \/ misread
  BY EditsAreResolved
<1>3. EditsAreSound(text, edits) <=>
          CASE made.error = "none" -> /\ InText(text, edits)
                                      /\ Compatible(edits)
                                      /\ ~misread
                                      /\ made.text = Expected(text, edits)
            [] made.error = "overlap" -> ~Compatible(edits)
            [] made.error = "split" -> ~InText(text, edits) \/ misread
            [] OTHER -> ~InText(text, edits)
  BY DEF EditsAreSound
<1> HIDE DEF found, from, to, made, misread
<1>4. CASE found.error # "none"
  <2>1. made = found
    BY <1>1, <1>4
  <2>2. CASE found = [error |-> "split"]
    <3>1. found.error = "split"
      BY <2>2
    <3>2. ~InText(text, edits) \/ misread
      <4>1. found # [error |-> "line"] /\ found # [error |-> "character"]
        BY <3>1
      <4> QED BY <1>2, <1>4
    <3> QED BY <1>3, <2>1, <3>1, <3>2
  <2>3. CASE found = [error |-> "line"] \/ found = [error |-> "character"]
    <3>1. found.error \notin {"none", "overlap", "split"}
      BY <2>3
    <3>2. ~InText(text, edits)
      <4>1. found # [error |-> "split"]
        BY <3>1
      <4> QED BY <1>2, <1>4, <4>1
    <3> QED BY <1>3, <2>1, <3>1, <3>2
  <2> QED BY <1>2, <1>4, <2>2, <2>3
<1>5. CASE found.error = "none"
  <2>1. /\ from \in Spans(text, edits) /\ to \in Spans(text, edits)
        /\ Places(text, edits, from, to)
        /\ ~misread
    <3>1. found # [error |-> "line"] /\ found # [error |-> "character"] /\ found # [error |-> "split"]
      BY <1>5
    <3> QED BY <1>2, <3>1
  <2>2. \A i \in DOMAIN edits : from[i] \in Nat /\ to[i] \in Nat
    BY <2>1, PlacesAreSpans
  <2>3. InText(text, edits) <=> Forward(from, to, Len(edits))
    BY <2>1, PlacesAreSpans
  <2>4. Forward(from, to, Len(edits)) <=> ~ \E i \in DOMAIN edits : from[i] > to[i]
    <3>1. DOMAIN edits = 1..Len(edits)
      OBVIOUS
    <3>2. \A i \in DOMAIN edits : from[i] <= to[i] <=> ~(from[i] > to[i])
      BY <2>2
    <3> QED BY <3>1, <3>2 DEF Forward
  <2>5. CASE \E i \in DOMAIN edits : from[i] > to[i]
    <3>1. made = [error |-> "inverted"]
      BY <1>1, <1>5, <2>5
    <3>2. made.error = "inverted"
      BY <3>1
    <3> QED BY <1>3, <2>3, <2>4, <2>5, <3>2
  <2>6. CASE ~ \E i \in DOMAIN edits : from[i] > to[i]
    <3>1. made = Splice(text, edits, from, to)
      BY <1>1, <1>5, <2>6
    <3>2. InText(text, edits) /\ Forward(from, to, Len(edits))
      BY <2>3, <2>4, <2>6
    <3>3. \/ /\ made = [error |-> "none", text |-> FlattenSeq(Pieces(text, edits, from, to))]
             /\ Disjoint(from, to, Len(edits))
          \/ made = [error |-> "overlap"] /\ ~Disjoint(from, to, Len(edits))
      BY <2>1, <3>1, <3>2, SpliceIs
    <3>4. Compatible(edits) <=> Disjoint(from, to, Len(edits))
      BY <2>1, <3>2, CompatibleIsDisjoint
    <3>5. Expected(text, edits) = FlattenSeq(Pieces(text, edits, from, to))
      BY <2>1, ExpectedIs
    <3>6. CASE made = [error |-> "overlap"] /\ ~Disjoint(from, to, Len(edits))
      <4>1. made.error = "overlap"
        BY <3>6
      <4> QED BY <1>3, <3>4, <3>6, <4>1
    <3>7. CASE /\ made = [error |-> "none", text |-> FlattenSeq(Pieces(text, edits, from, to))]
               /\ Disjoint(from, to, Len(edits))
      <4> DEFINE all == FlattenSeq(Pieces(text, edits, from, to))
      <4>0. made = [error |-> "none", text |-> all] /\ Disjoint(from, to, Len(edits))
        BY <3>7
      <4>1. Expected(text, edits) = all
        BY <3>5
      <4> HIDE DEF all
      <4>2. made.error = "none" /\ made.text = all
        BY <4>0
      <4> QED BY <1>3, <2>1, <3>2, <3>4, <4>0, <4>1, <4>2
    <3> QED BY <3>3, <3>6, <3>7
  <2> QED BY <2>5, <2>6
<1> QED BY <1>4, <1>5

-----------------------------------------------------------------------------
(***************************************************************************)
(* What holds of every call.                                               *)
(***************************************************************************)

\* An action is applied unseen exactly if the server's last word on it is harmless and
\* is still what was offered, and the choice among several is clear and does not depend
\* on their order (code_actions, workspace_edit_applicable, next_safe_action).
THEOREM ActionsTheorem == Spec => []OnlySafeActions
<1>1. Init => OnlySafeActions
  BY DEF Init, OnlySafeActions
<1>2. ASSUME OnlySafeActions, [Next]_call
      PROVE  OnlySafeActions'
  <2>1. CASE ScreenAction
    <3>1. PICK input \in OfferInputs :
             call' = [kind |-> "action", offered |-> input.offered, answer |-> input.answer,
                      resolves |-> input.resolves]
      BY <2>1 DEF ScreenAction
    <3>2. VerdictIsSafe(input.offered, input.answer, input.resolves)
      <4>1. input.offered \in Action /\ input.answer \in Action /\ input.resolves \in BOOLEAN
        BY ActionAssumption DEF OfferInput
      <4> QED BY <4>1, VerdictsAreSafe
    <3> QED BY <3>1, <3>2 DEF OnlySafeActions
  <2>2. CASE ChooseAction
    <3>1. PICK input \in ChoiceInputs :
             call' = [kind |-> "choice", actions |-> input.actions, applied |-> input.applied]
      BY <2>2 DEF ChooseAction
    <3>2. ChoiceIsClear(input.actions, input.applied)
      <4>1. input.actions \in ActionList
        BY ActionAssumption DEF ChoiceInput
      <4> QED BY <4>1, ChoicesAreClear
    <3> QED BY <3>1, <3>2 DEF OnlySafeActions
  <2>3. CASE EditText \/ ReadOutput \/ ReadRange \/ FindLayers \/ ResolveProfile \/ Digest
    <3>1. call'.kind \notin {"action", "choice"}
      BY <2>3 DEF EditText, ReadOutput, ReadRange, FindLayers, ResolveProfile, Digest
    <3> QED BY <3>1 DEF OnlySafeActions
  <2>4. CASE UNCHANGED call
    BY <1>2, <2>4 DEF OnlySafeActions
  <2> QED BY <1>2, <2>1, <2>2, <2>3, <2>4 DEF Next
<1> QED BY <1>1, <1>2, PTL DEF Spec

\* Every setting is the project's where it gives one and the user's otherwise, unusable
\* files are reported, and a profile runs code actions exactly when it is listed as able
\* to and its settings are complete, whatever the files and the environment say
\* (config.rs, resolve_code_action_config).
THEOREM SettingsTheorem == Spec => []ProjectSettingsWin
<1>1. Init => ProjectSettingsWin
  BY DEF Init, ProjectSettingsWin
<1>2. ASSUME ProjectSettingsWin, [Next]_call
      PROVE  ProjectSettingsWin'
  <2>1. CASE FindLayers
    <3>1. PICK input \in LayerInputs :
             call' = [kind |-> "config", env |-> input.env, user |-> input.user,
                      candidates |-> input.candidates, layers |-> input.layers]
      BY <2>1 DEF FindLayers
    <3>2. ProjectOverUser(input.env, input.user, input.candidates, input.layers, Nothing, Paths)
      <4>1. /\ IsLayer(input.layers.user) /\ IsLayer(input.layers.project)
            /\ input.candidates \in Seq(STRING)
        BY SettingAssumption
      <4> QED BY <4>1, ProjectAlwaysWins
    <3> QED BY <3>1, <3>2 DEF ProjectSettingsWin
  <2>2. CASE ResolveProfile
    <3>1. PICK input \in ProfileInputs :
             call' = [kind |-> "profile", rust |-> input.rust, actions |-> input.actions]
      BY <2>2 DEF ResolveProfile
    <3>2. ActionsAreConsistent(input.rust, input.actions)
      <4>1. input.rust \in BOOLEAN /\ input.actions \in ActionSettings
        BY SettingAssumption DEF ProfileInput
      <4> QED BY <4>1, ActionsAreAlwaysConsistent
    <3> QED BY <3>1, <3>2 DEF ProjectSettingsWin
  <2>3. CASE EditText \/ ScreenAction \/ ChooseAction \/ ReadOutput \/ ReadRange \/ Digest
    <3>1. call'.kind \notin {"config", "profile"}
      BY <2>3 DEF EditText, ScreenAction, ChooseAction, ReadOutput, ReadRange, Digest
    <3> QED BY <3>1 DEF ProjectSettingsWin
  <2>4. CASE UNCHANGED call
    BY <1>2, <2>4 DEF ProjectSettingsWin
  <2> QED BY <1>2, <2>1, <2>2, <2>3, <2>4 DEF Next
<1> QED BY <1>1, <1>2, PTL DEF Spec

\* Output captured by a batch run is read as the same text in one string would be, and
\* what it says is reported once, in order and in a digest that counts all of it, whatever
\* the output.  It is read as clean if it says that all is well, or if it is cargo records
\* beside which the record of a failed build or other text is overlooked
\* (parse_captured_output, the adapters, lsp_span, build_digest).
THEOREM OutputTheorem == Spec => []OutputIsReported
<1>1. Init => OutputIsReported
  BY DEF Init, OutputIsReported
<1>2. ASSUME OutputIsReported, [Next]_call
      PROVE  OutputIsReported'
  <2>1. CASE ReadOutput
    <3>1. PICK input \in OutputInputs :
             call' = [kind |-> "output", text |-> input.text, protocol |-> input.protocol]
      BY <2>1 DEF ReadOutput
    <3>2. ReportIsComplete(input.protocol, input.text)
      <4>1. input.text \in Seq(LineKinds) /\ input.protocol \in Protocols
        BY OutputAssumption DEF OutputInput
      <4> QED BY <4>1, ReportsAreWhole
    <3> QED BY <3>1, <3>2 DEF OutputIsReported
  <2>2. CASE ReadRange
    <3>1. PICK range \in RangeInputs : call' = [kind |-> "range", range |-> range]
      BY <2>2 DEF ReadRange
    <3>2. SpansFit(range)
      <4>1. range \in [start: Nat \X Nat, end: Nat \X Nat]
        BY OutputAssumption DEF RangeInput, Position
      <4> QED BY <4>1, OutputAssumption, SpansAlwaysFit
    <3> QED BY <3>1, <3>2 DEF OutputIsReported
  <2>3. CASE Digest
    <3>1. PICK input \in DigestInputs :
             call' = [kind |-> "digest", diagnostics |-> input.diagnostics, limit |-> input.limit]
      BY <2>3 DEF Digest
    <3>2. DigestIsFair(input.diagnostics, input.limit)
      <4>1. input.diagnostics \in Seq(Diagnostic) /\ input.limit \in Nat
        BY OutputAssumption DEF DigestInput
      <4> QED BY <4>1, DigestsAreFair
    <3> QED BY <3>1, <3>2 DEF OutputIsReported
  <2>4. CASE EditText \/ ScreenAction \/ ChooseAction \/ FindLayers \/ ResolveProfile
    <3>1. call'.kind \notin {"output", "range", "digest"}
      BY <2>4 DEF EditText, ScreenAction, ChooseAction, FindLayers, ResolveProfile
    <3> QED BY <3>1 DEF OutputIsReported
  <2>5. CASE UNCHANGED call
    BY <1>2, <2>5 DEF OutputIsReported
  <2> QED BY <1>2, <2>1, <2>2, <2>3, <2>4, <2>5 DEF Next
<1> QED BY <1>1, <1>2, PTL DEF Spec

\* Applied edits make of a text exactly what they mean.  A refusal says what is wrong with
\* them, or one of their positions is misread for another of an earlier line: sound edits
\* are refused for that exactly, and for nothing else.  A document's end is where its text
\* ends.  All this whatever the texts and the edits (apply_text_edits,
\* resolve_position_offsets, document_end_position).
THEOREM EditsTheorem == Spec => []EditsMakeTheirText
<1>1. Init => EditsMakeTheirText
  BY DEF Init, EditsMakeTheirText
<1>2. ASSUME EditsMakeTheirText, [Next]_call
      PROVE  EditsMakeTheirText'
  <2>1. CASE EditText
    <3>1. PICK input \in TextInputs :
             call' = [kind |-> "edits", text |-> input.text, edits |-> input.edits]
      BY <2>1 DEF EditText
    <3>2. input.text \in Seq(Scalars) /\ input.edits \in Seq(TextEdit)
      BY TextAssumption DEF TextInput
    <3>3. EditsAreSound(input.text, input.edits) /\ EndIsSound(input.text)
      BY <3>2, EditsAreAlwaysSound, EndsAreSound
    <3>4. call'.text = input.text /\ call'.edits = input.edits
      BY <3>1
    <3> QED BY <3>3, <3>4 DEF EditsMakeTheirText
  <2>2. CASE ScreenAction \/ ChooseAction \/ ReadOutput \/ ReadRange \/ FindLayers \/ ResolveProfile \/ Digest
    <3>1. call'.kind # "edits"
      BY <2>2 DEF ScreenAction, ChooseAction, ReadOutput, ReadRange, FindLayers, ResolveProfile, Digest
    <3> QED BY <3>1 DEF EditsMakeTheirText
  <2>3. CASE UNCHANGED call
    BY <1>2, <2>3 DEF EditsMakeTheirText
  <2> QED BY <1>2, <2>1, <2>2, <2>3 DEF Next
<1> QED BY <1>1, <1>2, PTL DEF Spec
=============================================================================
