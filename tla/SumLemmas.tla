------------------------------ MODULE SumLemmas -----------------------------
(***************************************************************************)
(* Facts about sums of functions over finite sets and of sequences, on which*)
(* the counts of bytes, documents and runs rest.                           *)
(***************************************************************************)
EXTENDS Integers, Sequences, FiniteSets, Functions, FiniteSetTheorems, WellFoundedInduction, TLAPS

-----------------------------------------------------------------------------
(* Sums over finite sets                                                   *)

\* every nonempty set of finite subsets has a minimal one
LEMMA MinimalSubset ==
  ASSUME NEW S, IsFiniteSet(S), NEW T, T \subseteq SUBSET S, T # {}
  PROVE  \E x \in T : \A y \in T : ~(y \subseteq x /\ y # x)
<1> DEFINE R == StrictSubsetOrdering(S)
<1>1. IsWellFoundedOn(R, FiniteSubsetsOf(S))
  BY FS_StrictSubsetOrderingWellFounded, Zenon
<1>2. T \subseteq FiniteSubsetsOf(S)
  BY FS_Subset, Zenon DEF FiniteSubsetsOf
<1> HIDE DEF R
<1>3. \E x \in T : \A y \in T : ~ (<<y, x>> \in R)
  BY <1>1, <1>2, WFMin, Zenon
<1>4. \A x, y \in SUBSET S : y \subseteq x /\ y # x => <<y, x>> \in R
  BY Zenon DEF R, StrictSubsetOrdering
<1> QED BY <1>3, <1>4, Zenon

\* What a fold takes next, and the function that it computes on the subsets of a set
First(s) == CHOOSE x \in s : TRUE
Sums(g, f, D) == g = [s \in D |-> IF s = {} THEN 0 ELSE f[First(s)] + g[s \ {First(s)}]]

\* The fold behind a sum is the value of a function on the subsets of the set.
LEMMA SumIs == \A f, S : SumFunctionOnSet(f, S) = (CHOOSE g : Sums(g, f, SUBSET S))[S]
BY Zenon DEF SumFunctionOnSet, FoldFunctionOnSet, MapThenFoldSet, Sums, First

\* The subsets of S that are no larger than T
UpTo(T, S) == {s \in SUBSET S : Cardinality(s) <= Cardinality(T)}

\* The element that a fold takes next is one of those left.
LEMMA FirstIn == \A s : s # {} => First(s) \in s
BY Zenon DEF First

\* That function exists: it is extended from smaller sets to larger ones.
LEMMA SumsExist ==
  ASSUME NEW S, IsFiniteSet(S), NEW f
  PROVE  \E g : Sums(g, f, SUBSET S)
<1> DEFINE Bad == {T \in SUBSET S : ~ \E g : Sums(g, f, UpTo(T, S))}
<1>0. \A s \in SUBSET S : IsFiniteSet(s) /\ Cardinality(s) \in Nat /\ Cardinality(s) <= Cardinality(S)
  BY FS_Subset, FS_CardinalityType, Zenon
<1>1. SUFFICES ASSUME Bad # {} PROVE FALSE
  <2>1. \E g : Sums(g, f, UpTo(S, S))
    BY <1>1, Zenon
  <2>2. UpTo(S, S) = SUBSET S
    BY <1>0, Zenon DEF UpTo
  <2> QED BY <2>1, <2>2, Zenon
<1>2. PICK T \in Bad : \A y \in Bad : ~(y \subseteq T /\ y # T)
  <2>1. Bad \subseteq SUBSET S
    BY Zenon
  <2> HIDE DEF Bad
  <2> QED BY <1>1, <2>1, MinimalSubset
<1>3. CASE T = {}
  <2>1. UpTo({}, S) = {{}}
    BY <1>0, FS_EmptySet DEF UpTo
  <2> DEFINE g == [s \in {{}} |-> 0]
  <2>2. Sums(g, f, {{}})
    BY Zenon DEF Sums
  <2> QED BY <1>3, <2>1, <2>2, Zenon
<1>4. CASE T # {}
  <2>1. PICK x \in T : TRUE
    BY <1>4, Zenon
  <2>2. T \ {x} \in SUBSET S /\ T \ {x} \notin Bad
    BY <1>2, <2>1, Zenon
  <2>3. PICK g : Sums(g, f, UpTo(T \ {x}, S))
    BY <2>2, Zenon
  <2>4. Cardinality(T \ {x}) = Cardinality(T) - 1
    BY <1>0, <2>1, FS_RemoveElement, Zenon
  <2> DEFINE h == [s \in UpTo(T, S) |-> IF s = {} THEN 0 ELSE f[First(s)] + g[s \ {First(s)}]]
  <2>5. ASSUME NEW s \in UpTo(T, S), s # {} 
        PROVE  s \ {First(s)} \in UpTo(T \ {x}, S) /\ s \ {First(s)} \in UpTo(T, S)
    <3>1. Cardinality(s \ {First(s)}) = Cardinality(s) - 1
      BY <1>0, <2>5, FS_RemoveElement, FirstIn, Zenon DEF UpTo
    <3>2. Cardinality(s) \in Nat /\ Cardinality(T) \in Nat /\ Cardinality(s) <= Cardinality(T)
      BY <1>0, Zenon DEF UpTo
    <3> QED BY <3>1, <3>2, <2>4 DEF UpTo
  <2>6. \A u \in UpTo(T \ {x}, S) : u \in UpTo(T, S) => h[u] = g[u]
    BY <2>3, Zenon DEF Sums
  <2>7. \A s \in UpTo(T, S) : s # {} => h[s \ {First(s)}] = g[s \ {First(s)}]
    BY <2>5, <2>6, Zenon
  <2>8. Sums(h, f, UpTo(T, S))
    BY <2>7, Zenon DEF Sums
  <2> HIDE DEF h
  <2> QED BY <2>8, Zenon
<1> QED BY <1>3, <1>4, Zenon

\* A sum is the value of such a function.
LEMMA SumsOf ==
  ASSUME NEW S, IsFiniteSet(S), NEW f
  PROVE  \E g : Sums(g, f, SUBSET S) /\ SumFunctionOnSet(f, S) = g[S]
BY SumsExist, SumIs, Zenon

\* U is a part of S and R on which f and h agree; g gives the sums that any other function
\* gives where what they add agrees
Alike(U, S, f, R, h) == U \subseteq S /\ U \subseteq R /\ \A x \in U : f[x] = h[x]
SumsAlike(S, f, g) ==
  \A R, h, k : Sums(k, h, SUBSET R) => \A U : Alike(U, S, f, R, h) => g[U] = k[U]

\* Two such functions agree on a set on which what they add agrees.
LEMMA SumsSame == \A S, f, g : IsFiniteSet(S) /\ Sums(g, f, SUBSET S) => SumsAlike(S, f, g)
<1> TAKE S, f, g
<1> HAVE IsFiniteSet(S) /\ Sums(g, f, SUBSET S)
<1> SUFFICES ASSUME NEW R, NEW h, NEW k, Sums(k, h, SUBSET R), NEW U, Alike(U, S, f, R, h)
             PROVE  g[U] = k[U]
  BY Zenon DEF SumsAlike
<1>0. U \subseteq S /\ U \subseteq R /\ \A x \in U : f[x] = h[x]
  BY Zenon DEF Alike
<1> DEFINE Bad == {T \in SUBSET U : g[T] # k[T]}
<1>1. SUFFICES ASSUME Bad # {} PROVE FALSE
  BY <1>1, Zenon
<1>2. PICK T \in Bad : \A y \in Bad : ~(y \subseteq T /\ y # T)
  <2>1. Bad \subseteq SUBSET S
    BY <1>0, Zenon
  <2> HIDE DEF Bad
  <2> QED BY <1>1, <2>1, MinimalSubset
<1>3. T # {}
  BY <1>0, <1>2, Zenon DEF Sums
<1>4. First(T) \in T
  BY <1>3, FirstIn, Zenon
<1>5. g[T \ {First(T)}] = k[T \ {First(T)}]
  <2>1. T \ {First(T)} \in SUBSET U /\ T \ {First(T)} \notin Bad
    BY <1>2, <1>4, Zenon
  <2> QED BY <2>1, Zenon
<1>6. g[T] = f[First(T)] + g[T \ {First(T)}] /\ k[T] = h[First(T)] + k[T \ {First(T)}]
  BY <1>0, <1>2, <1>3, Zenon DEF Sums
<1>7. g[T] = k[T]
  BY <1>0, <1>2, <1>4, <1>5, <1>6, Zenon
<1> QED BY <1>2, <1>7, Zenon

\* A sum of integers is an integer, on every subset.
LEMMA SumsInt ==
  ASSUME NEW S, IsFiniteSet(S), NEW f, \A x \in S : f[x] \in Int, NEW g, Sums(g, f, SUBSET S)
  PROVE  \A U \in SUBSET S : g[U] \in Int
<1> DEFINE Bad == {T \in SUBSET S : g[T] \notin Int}
<1>1. SUFFICES ASSUME Bad # {} PROVE FALSE
  BY <1>1, Zenon
<1>2. PICK T \in Bad : \A y \in Bad : ~(y \subseteq T /\ y # T)
  <2>1. Bad \subseteq SUBSET S
    BY Zenon
  <2> HIDE DEF Bad
  <2> QED BY <1>1, <2>1, MinimalSubset
<1>3. T # {}
  BY <1>2 DEF Sums
<1>4. First(T) \in T
  BY <1>3, FirstIn, Zenon
<1>5. g[T \ {First(T)}] \in Int
  <2>1. T \ {First(T)} \in SUBSET S /\ T \ {First(T)} \notin Bad
    BY <1>2, <1>4, Zenon
  <2> QED BY <2>1, Zenon
<1>6. g[T] = f[First(T)] + g[T \ {First(T)}]
  BY <1>2, <1>3, Zenon DEF Sums
<1> QED BY <1>2, <1>4, <1>5, <1>6

\* The order does not matter: any element may be added last.
LEMMA SumsAny ==
  ASSUME NEW S, IsFiniteSet(S), NEW f, \A y \in S : f[y] \in Int, NEW g, Sums(g, f, SUBSET S), NEW U \in SUBSET S, NEW z \in U
  PROVE  g[U] = f[z] + g[U \ {z}]
<1> DEFINE Bad == {T \in SUBSET S : \E x \in T : g[T] # f[x] + g[T \ {x}]}
<1>0. \A V \in SUBSET S : g[V] \in Int
  BY SumsInt, Zenon
<1>1. SUFFICES ASSUME Bad # {} PROVE FALSE
  BY <1>1, Zenon
<1>2. PICK T \in Bad : \A y \in Bad : ~(y \subseteq T /\ y # T)
  <2>1. Bad \subseteq SUBSET S
    BY Zenon
  <2> HIDE DEF Bad
  <2> QED BY <1>1, <2>1, MinimalSubset
<1>3. PICK x \in T : g[T] # f[x] + g[T \ {x}]
  BY <1>2, Zenon
<1> DEFINE p == First(T)
<1>4. p \in T
  BY <1>3, FirstIn, Zenon
<1>5. g[T] = f[p] + g[T \ {p}]
  BY <1>2, <1>4, Zenon DEF Sums
<1>6. x # p
  BY <1>3, <1>5, Zenon
<1> HIDE DEF p
<1>7. \A y \in SUBSET S : y \subseteq T /\ y # T => \A w \in y : g[y] = f[w] + g[y \ {w}]
  BY <1>2, Zenon
<1>8. g[T \ {p}] = f[x] + g[(T \ {p}) \ {x}]
  BY <1>2, <1>3, <1>4, <1>6, <1>7, Zenon
<1>9. g[T \ {x}] = f[p] + g[(T \ {x}) \ {p}]
  BY <1>2, <1>3, <1>4, <1>6, <1>7, Zenon
<1>10. (T \ {x}) \ {p} = (T \ {p}) \ {x}
  BY Zenon
<1>11. f[x] \in Int /\ f[p] \in Int /\ g[(T \ {p}) \ {x}] \in Int
  BY <1>0, <1>2, <1>3, <1>4, Zenon
<1>12. \A a, b, c \in Int : a + (b + c) = b + (a + c)
  OBVIOUS
<1>13. g[T] = f[p] + (f[x] + g[(T \ {p}) \ {x}])
  BY <1>5, <1>8, Zenon
<1>14. f[x] + g[T \ {x}] = f[x] + (f[p] + g[(T \ {p}) \ {x}])
  BY <1>9, <1>10, Zenon
<1> QED BY <1>3, <1>11, <1>12, <1>13, <1>14, ZenonT(30)

\* The sum of nothing.
LEMMA SumEmpty == \A f : SumFunctionOnSet(f, {}) = 0
<1> TAKE f
<1>1. PICK g : Sums(g, f, SUBSET {}) /\ SumFunctionOnSet(f, {}) = g[{}]
  BY SumsOf, FS_EmptySet, Zenon
<1> QED BY <1>1, Zenon DEF Sums

\* A sum of integers is an integer.
LEMMA SumInt ==
  ASSUME NEW S, IsFiniteSet(S), NEW f, \A x \in S : f[x] \in Int
  PROVE  SumFunctionOnSet(f, S) \in Int
<1>1. PICK g : Sums(g, f, SUBSET S) /\ SumFunctionOnSet(f, S) = g[S]
  BY SumsOf, Zenon
<1>2. \A U \in SUBSET S : g[U] \in Int
  BY <1>1, SumsInt, Zenon
<1> QED BY <1>1, <1>2, Zenon

\* A sum depends on the values over its set alone.
LEMMA SumSame ==
  ASSUME NEW S, IsFiniteSet(S), NEW f, NEW h
  PROVE  (\A x \in S : f[x] = h[x]) => SumFunctionOnSet(f, S) = SumFunctionOnSet(h, S)
<1>1. PICK g : Sums(g, f, SUBSET S) /\ SumFunctionOnSet(f, S) = g[S]
  BY SumsOf, Zenon
<1>2. PICK k : Sums(k, h, SUBSET S) /\ SumFunctionOnSet(h, S) = k[S]
  BY SumsOf, Zenon
<1>3. (\A x \in S : f[x] = h[x]) => Alike(S, S, f, S, h)
  BY Zenon DEF Alike
<1>4. SumsAlike(S, f, g)
  BY <1>1, SumsSame, Zenon
<1>5. Alike(S, S, f, S, h) => g[S] = k[S]
  BY <1>2, <1>4, ZenonT(40) DEF SumsAlike
<1> QED BY <1>1, <1>2, <1>3, <1>5, Zenon

\* Any element may be taken out of a sum.
LEMMA SumTakesOut ==
  ASSUME NEW S, IsFiniteSet(S), NEW f, \A x \in S : f[x] \in Int, NEW x \in S
  PROVE  SumFunctionOnSet(f, S) = f[x] + SumFunctionOnSet(f, S \ {x})
<1>1. PICK g : Sums(g, f, SUBSET S) /\ SumFunctionOnSet(f, S) = g[S]
  BY SumsOf, Zenon
<1>2. IsFiniteSet(S \ {x})
  BY FS_Subset, Zenon
<1>3. PICK k : Sums(k, f, SUBSET (S \ {x})) /\ SumFunctionOnSet(f, S \ {x}) = k[S \ {x}]
  BY <1>2, SumsOf, Zenon
<1>4. g[S \ {x}] = k[S \ {x}]
  <2> DEFINE R == S \ {x}
  <2>2. Sums(g, f, SUBSET S) /\ Sums(k, f, SUBSET R)
    BY <1>1, <1>3, Zenon
  <2>3. Alike(R, S, f, R, f)
    BY Zenon DEF Alike
  <2> HIDE DEF R
  <2>4. g[R] = k[R]
    <3>1. SumsAlike(S, f, g)
      BY <2>2, SumsSame, Zenon
    <3> QED BY <2>2, <2>3, <3>1, ZenonT(40) DEF SumsAlike
  <2> QED BY <2>4, Zenon DEF R
<1>5. g[S] = f[x] + g[S \ {x}]
  <2>1. Sums(g, f, SUBSET S) /\ S \in SUBSET S
    BY <1>1, Zenon
  <2> QED BY <2>1, SumsAny
<1> QED BY <1>1, <1>3, <1>4, <1>5, Zenon

\* A change of one value changes the sum as much.
LEMMA SumChange ==
  ASSUME NEW S, IsFiniteSet(S), NEW f \in [S -> Int], NEW x \in S, NEW d \in Int
  PROVE  SumFunctionOnSet([f EXCEPT ![x] = @ + d], S) = SumFunctionOnSet(f, S) + d
<1> DEFINE h == [f EXCEPT ![x] = @ + d]
<1>1. h \in [S -> Int] /\ h[x] = f[x] + d /\ \A y \in S \ {x} : h[y] = f[y]
  OBVIOUS
<1> HIDE DEF h
<1>2. IsFiniteSet(S \ {x})
  BY FS_Subset, Zenon
<1>3. SumFunctionOnSet(h, S \ {x}) = SumFunctionOnSet(f, S \ {x})
  BY <1>1, <1>2, SumSame, Zenon
<1>4. SumFunctionOnSet(f, S \ {x}) \in Int
  <2>1. \A y \in S \ {x} : f[y] \in Int
    BY Zenon
  <2> QED BY <1>2, <2>1, SumInt, Zenon
<1>5. SumFunctionOnSet(f, S) = f[x] + SumFunctionOnSet(f, S \ {x})
  <2>1. \A y \in S : f[y] \in Int
    BY Zenon
  <2> QED BY <2>1, SumTakesOut, Zenon
<1>6. SumFunctionOnSet(h, S) = h[x] + SumFunctionOnSet(h, S \ {x})
  <2>1. \A y \in S : h[y] \in Int
    BY <1>1, Zenon
  <2> QED BY <2>1, SumTakesOut, Zenon
<1>7. f[x] \in Int
  BY Zenon
<1>8. SumFunctionOnSet(h, S) = SumFunctionOnSet(f, S) + d
  BY <1>1, <1>3, <1>4, <1>5, <1>6, <1>7
<1> QED BY <1>8, Zenon DEF h

-----------------------------------------------------------------------------
(* Sums over sequences and documents                                       *)

\* A sum may be taken over other names of its elements.
LEMMA SumRenamed ==
  ASSUME NEW S, NEW T, IsFiniteSet(S), IsFiniteSet(T), NEW f, NEW h, NEW p \in [T -> S],
         \A x \in S : f[x] \in Int, \A x \in T : h[x] = f[p[x]],
         \A x, y \in T : p[x] = p[y] => x = y, \A z \in S : \E x \in T : p[x] = z
  PROVE  SumFunctionOnSet(h, T) = SumFunctionOnSet(f, S)
<1> DEFINE Im(U) == {p[x] : x \in U}
           Bad == {U \in SUBSET T : SumFunctionOnSet(h, U) # SumFunctionOnSet(f, Im(U))}
<1>1. SUFFICES ASSUME Bad # {} PROVE FALSE
  <2>1. SumFunctionOnSet(h, T) = SumFunctionOnSet(f, Im(T))
    BY <1>1, Zenon
  <2>2. Im(T) = S
    OBVIOUS
  <2> QED BY <2>1, <2>2, Zenon
<1>2. PICK U \in Bad : \A y \in Bad : ~(y \subseteq U /\ y # U)
  <2>1. Bad \subseteq SUBSET T
    BY Zenon
  <2> HIDE DEF Bad
  <2> QED BY <1>1, <2>1, MinimalSubset
<1>3. U # {}
  <2>1. SumFunctionOnSet(h, {}) = 0 /\ SumFunctionOnSet(f, {}) = 0
    BY SumEmpty, Zenon
  <2>2. Im({}) = {}
    BY ZenonT(30)
  <2> QED BY <1>2, <2>1, <2>2, Zenon
<1>4. PICK x \in U : TRUE
  BY <1>3, Zenon
<1>5. U \ {x} \in SUBSET T /\ U \ {x} \notin Bad
  BY <1>2, <1>4
<1>6. SumFunctionOnSet(h, U \ {x}) = SumFunctionOnSet(f, Im(U \ {x}))
  BY <1>5, Zenon
<1>7. Im(U \ {x}) = Im(U) \ {p[x]} /\ p[x] \in Im(U) /\ Im(U) \subseteq S
  BY <1>2, <1>4
<1> HIDE DEF Im
<1>8. IsFiniteSet(U) /\ IsFiniteSet(Im(U)) /\ (\A y \in U : h[y] \in Int) /\ \A y \in Im(U) : f[y] \in Int
  BY <1>2, <1>7, FS_Subset, Zenon
<1>9. SumFunctionOnSet(h, U) = h[x] + SumFunctionOnSet(h, U \ {x})
  BY <1>4, <1>8, SumTakesOut
<1>10. SumFunctionOnSet(f, Im(U)) = f[p[x]] + SumFunctionOnSet(f, Im(U) \ {p[x]})
  BY <1>7, <1>8, SumTakesOut, ZenonT(30)
<1>11. SumFunctionOnSet(h, U) = SumFunctionOnSet(f, Im(U))
  BY <1>2, <1>4, <1>6, <1>7, <1>9, <1>10, ZenonT(30)
<1> QED BY <1>2, <1>11, Zenon

\* The head of a sequence adds to the sum of the tail.
LEMMA SumTail ==
  ASSUME NEW s \in Seq(Int), s # <<>>
  PROVE  SumFunction(s) = Head(s) + SumFunction(Tail(s)) /\ SumFunction(s) \in Int /\ SumFunction(Tail(s)) \in Int
<1> DEFINE n == Len(s)
           D == (1..n) \ {1}
           p == [i \in 1..(n - 1) |-> i + 1]
           r == Tail(s)
<1>1. n \in Nat /\ n # 0 /\ DOMAIN s = 1..n /\ Head(s) = s[1] /\ r \in Seq(Int) /\ DOMAIN r = 1..(n - 1)
      /\ \A i \in 1..(n - 1) : r[i] = s[i + 1]
  OBVIOUS
<1>2. \A x \in 1..n : s[x] \in Int
  OBVIOUS
<1>3. IsFiniteSet(1..n) /\ IsFiniteSet(1..(n - 1)) /\ IsFiniteSet(D)
  <2>1. IsFiniteSet(1..n) /\ IsFiniteSet(1..(n - 1))
    BY <1>1, FS_Interval
  <2>2. D \in SUBSET (1..n)
    BY Zenon
  <2> QED BY <2>1, <2>2, FS_Subset, Zenon
<1>4. 1 \in 1..n
  BY <1>1
<1> HIDE DEF n, r
<1>5. SumFunctionOnSet(s, 1..n) = s[1] + SumFunctionOnSet(s, (1..n) \ {1})
  BY <1>2, <1>3, <1>4, SumTakesOut, Zenon
<1>6. SumFunctionOnSet(r, 1..(n - 1)) = SumFunctionOnSet(s, D)
  <2>1. p \in [1..(n - 1) -> D]
    BY <1>1
  <2>2. \A x \in D : s[x] \in Int
    BY <1>2, Zenon
  <2>3. \A x \in 1..(n - 1) : r[x] = s[p[x]]
    BY <1>1, Zenon
  <2>4. \A x, y \in 1..(n - 1) : p[x] = p[y] => x = y
    BY <1>1
  <2>5. \A z \in D : \E x \in 1..(n - 1) : p[x] = z
    <3> TAKE z \in D
    <3>1. z - 1 \in 1..(n - 1) /\ p[z - 1] = z
      BY <1>1
    <3> QED BY <3>1, Zenon
  <2>6. PICK A, B, q : A = 1..(n - 1) /\ B = D /\ q = p
    BY Zenon
  <2> HIDE DEF p, D
  <2>7. IsFiniteSet(A) /\ IsFiniteSet(B) /\ q \in [A -> B] /\ (\A x \in B : s[x] \in Int) /\ (\A x \in A : r[x] = s[q[x]])
    BY <1>3, <2>1, <2>2, <2>3, <2>6, Zenon
  <2>8. (\A x, y \in A : q[x] = q[y] => x = y) /\ (\A z \in B : \E x \in A : q[x] = z)
    BY <2>4, <2>5, <2>6, Zenon
  <2>9. SumFunctionOnSet(r, A) = SumFunctionOnSet(s, B)
    BY <2>7, <2>8, SumRenamed
  <2> QED BY <2>6, <2>9, Zenon
<1>7. SumFunction(s) = SumFunctionOnSet(s, 1..n) /\ SumFunction(r) = SumFunctionOnSet(r, 1..(n - 1))
  BY <1>1, Zenon DEF SumFunction
<1>8. SumFunctionOnSet(s, 1..n) \in Int /\ SumFunctionOnSet(s, D) \in Int
  <2>1. \A x \in D : s[x] \in Int
    BY <1>2, Zenon
  <2> QED BY <1>2, <1>3, <2>1, SumInt, Zenon
<1> QED BY <1>1, <1>5, <1>6, <1>7, <1>8, Zenon DEF r

\* The sum of a function over its domain is an integer, and zero over no domain.
LEMMA SumWhole ==
  ASSUME NEW S, IsFiniteSet(S), NEW f \in [S -> Int]
  PROVE  SumFunction(f) \in Int /\ (S = {} => SumFunction(f) = 0)
<1>1. DOMAIN f = S /\ \A x \in S : f[x] \in Int
  BY Zenon
<1>2. SumFunction(f) = SumFunctionOnSet(f, S)
  BY <1>1, Zenon DEF SumFunction
<1> QED BY <1>1, <1>2, SumInt, SumEmpty, Zenon

\* One more document adds its size.
LEMMA SumAdds ==
  ASSUME NEW T, IsFiniteSet(T), NEW new, new \notin T, new.size \in Int, \A b \in T : b.size \in Int
  PROVE  /\ SumFunction([b \in T \cup {new} |-> b.size]) = new.size + SumFunction([b \in T |-> b.size])
         /\ SumFunction([b \in T |-> b.size]) \in Int
<1>1. PICK f, h, U : f = [b \in T |-> b.size] /\ h = [b \in T \cup {new} |-> b.size] /\ U = T \cup {new}
  BY Zenon
<1>2. IsFiniteSet(U) /\ new \in U /\ U \ {new} = T
  BY <1>1, FS_AddElement, Zenon
<1>3. (\A x \in U : h[x] \in Int) /\ h[new] = new.size /\ (\A x \in T : f[x] \in Int) /\ (\A x \in T : h[x] = f[x])
  BY <1>1, Zenon
<1>4. SumFunctionOnSet(h, U) = h[new] + SumFunctionOnSet(h, U \ {new})
  BY <1>2, <1>3, SumTakesOut, Zenon
<1>5. SumFunctionOnSet(h, T) = SumFunctionOnSet(f, T) /\ SumFunctionOnSet(f, T) \in Int
  BY <1>3, SumSame, SumInt, Zenon
<1>6. SumFunction(h) = SumFunctionOnSet(h, U) /\ SumFunction(f) = SumFunctionOnSet(f, T)
  BY <1>1, Zenon DEF SumFunction
<1>7. SumFunction(h) = new.size + SumFunction(f) /\ SumFunction(f) \in Int
  BY <1>2, <1>3, <1>4, <1>5, <1>6, ZenonT(30)
<1> QED BY <1>1, <1>7, Zenon
=============================================================================
