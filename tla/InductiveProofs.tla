-------------------------- MODULE InductiveProofs ---------------------------
(***************************************************************************)
(* What is proved by induction over data.  The library states induction    *)
(* for an operator; here it is stated for a set, and proved from the       *)
(* library's well-founded relations.  With it: what sums add up to, the    *)
(* receivers' books, and that the exclusion lists' pattern loop matches    *)
(* what their patterns mean, whatever the pattern and the name.            *)
(***************************************************************************)
EXTENDS Receivers, Exclusions, FiniteSetTheorems, SequenceTheorems, WellFoundedInduction, TLAPS

-----------------------------------------------------------------------------
(* Induction. *)

\* Of sets of subsets of a finite set, one is the smallest.
LEMMA SmallestSet ==
  ASSUME NEW S, IsFiniteSet(S), NEW Bad \in SUBSET SUBSET S, Bad # {}
  PROVE \E T \in Bad : \A U \in Bad : U \subseteq T => U = T
<1>1. Bad \subseteq FiniteSubsetsOf(S)
  BY FS_Subset DEF FiniteSubsetsOf
<1>2. \E T \in Bad : \A U \in Bad : <<U, T>> \notin StrictSubsetOrdering(S)
  BY <1>1, FS_StrictSubsetOrderingWellFounded, WFMin
<1> QED BY <1>2 DEF StrictSubsetOrdering

\* What every subset has if all smaller ones do, a finite set has.
LEMMA SetInduction ==
  ASSUME NEW S, IsFiniteSet(S), NEW Good,
         \A T \in SUBSET S : (\A U \in SUBSET T : U # T => U \in Good) => T \in Good
  PROVE  S \in Good
<1> SUFFICES ASSUME S \notin Good PROVE FALSE
  OBVIOUS
<1> DEFINE Bad == (SUBSET S) \ Good
<1>1. Bad \in SUBSET SUBSET S /\ Bad # {}
  OBVIOUS
<1> HIDE DEF Bad
<1>2. PICK T \in Bad : \A U \in Bad : U \subseteq T => U = T
  BY <1>1, SmallestSet
<1>3. T \in SUBSET S /\ \A U \in SUBSET T : U # T => U \in Good
  BY <1>2 DEF Bad
<1> QED BY <1>3 DEF Bad

\* The same for numbers: from each to the next one.
LEMMA NumberInduction ==
  ASSUME NEW n \in Nat, NEW Good, 0 \in Good, \A k \in 0..(n-1) : k \in Good => k + 1 \in Good
  PROVE  n \in Good
<1> SUFFICES ASSUME n \notin Good PROVE FALSE
  OBVIOUS
<1> DEFINE Bad == {1..k : k \in (0..n) \ Good}
<1>1. IsFiniteSet(1..n)
  BY FS_Interval
<1>2. Bad \in SUBSET SUBSET (1..n)
  OBVIOUS
<1>3. 1..n \in Bad
  OBVIOUS
<1>3a. Bad # {}
  BY <1>3
<1> DEFINE I == 1..n
<1>3b. IsFiniteSet(I) /\ Bad \in SUBSET SUBSET I
  BY <1>1, <1>2
<1> HIDE DEF Bad, I
<1>4. PICK T \in Bad : \A U \in Bad : U \subseteq T => U = T
  BY <1>3a, <1>3b, SmallestSet
<1>5. PICK k \in (0..n) \ Good : T = 1..k
  BY DEF Bad
<1>6. k # 0 /\ k - 1 \in 0..(n-1) /\ (k - 1) + 1 = k
  OBVIOUS
<1>7. k - 1 \notin Good
  BY <1>6
<1>8. 1..(k-1) \in Bad
  BY <1>6, <1>7 DEF Bad
<1>9. 1..(k-1) \subseteq T /\ k \in T /\ k \notin 1..(k-1)
  BY <1>5, <1>6
<1> QED BY <1>4, <1>8, <1>9

\* A recursive function that goes on, step by step, from a start.
LEMMA StepByStep ==
  ASSUME NEW T \in Nat, NEW A, NEW start \in A, NEW next, \A k \in 1..T, a \in A : next[<<k, a>>] \in A
  PROVE  \E g : g = [k \in 0..T |-> IF k = 0 THEN start ELSE next[<<k, g[k - 1]>>]] /\ g \in [0..T -> A]
<1> DEFINE UpTo(g, m) == g \in [0..m -> A] /\ \A k \in 0..m : g[k] = IF k = 0 THEN start ELSE next[<<k, g[k - 1]>>]
           Good == {m \in 0..T : \E g : UpTo(g, m)}
<1>1. 0 \in Good
  <2> DEFINE g == [k \in 0..0 |-> start]
  <2>1. UpTo(g, 0)
    OBVIOUS
  <2> HIDE DEF UpTo, g
  <2> QED BY <2>1
<1>2. ASSUME NEW m \in 0..(T - 1), m \in Good PROVE m + 1 \in Good
  <2>1. PICK old : UpTo(old, m)
    BY <1>2
  <2> DEFINE g == [k \in 0..(m + 1) |-> IF k <= m THEN old[k] ELSE next[<<m + 1, old[m]>>]]
  <2>2. m \in 0..m /\ old[m] \in A /\ next[<<m + 1, old[m]>>] \in A
    <3>1. m \in 0..m /\ old[m] \in A /\ m + 1 \in 1..T
      BY <2>1
    <3> QED BY <3>1
  <2>3. g \in [0..(m + 1) -> A]
    <3> SUFFICES ASSUME NEW k \in 0..(m + 1) PROVE g[k] \in A
      OBVIOUS
    <3>1. k <= m => k \in 0..m
      OBVIOUS
    <3> QED BY <2>1, <2>2, <3>1
  <2>4. ASSUME NEW k \in 0..(m + 1) PROVE g[k] = IF k = 0 THEN start ELSE next[<<k, g[k - 1]>>]
    <3>1. CASE k <= m
      <4>1. k \in 0..m /\ (k # 0 => k - 1 \in 0..(m + 1) /\ k - 1 <= m)
        BY <3>1
      <4>2. old[k] = IF k = 0 THEN start ELSE next[<<k, old[k - 1]>>]
        BY <2>1, <4>1
      <4> QED BY <3>1, <4>1, <4>2
    <3>2. CASE ~(k <= m)
      <4>1. k = m + 1 /\ k - 1 = m /\ k # 0 /\ m \in 0..(m + 1)
        BY <3>2
      <4>2. g[k] = next[<<m + 1, old[m]>>] /\ g[m] = old[m]
        BY <3>2, <4>1
      <4> QED BY <4>1, <4>2
    <3> QED BY <3>1, <3>2
  <2> HIDE DEF g
  <2>5. UpTo(g, m + 1) /\ m + 1 \in 0..T
    BY <2>3, <2>4
  <2> HIDE DEF UpTo
  <2> QED BY <2>5
<1> HIDE DEF Good
<1>3. T \in Good
  BY <1>1, <1>2, NumberInduction
<1>4. PICK g : UpTo(g, T)
  BY <1>3 DEF Good
<1>5. g = [k \in 0..T |-> g[k]]
  BY <1>4
<1>6. g = [k \in 0..T |-> IF k = 0 THEN start ELSE next[<<k, g[k - 1]>>]]
  BY <1>4, <1>5
<1> QED BY <1>4, <1>6

-----------------------------------------------------------------------------
(* What sums add up to: Bytes folds over a set, and a fold is a recursive     *)
(* function on its subsets, of which there is one.                           *)
SomeOf(T) == CHOOSE x \in T : TRUE
IsSum(g, f, S) == g = [T \in SUBSET S |-> IF T = {} THEN 0 ELSE f[SomeOf(T)] + g[T \ {SomeOf(T)}]]

\* The sum of a set, as its recursive function has it.
LEMMA BytesDef == ASSUME NEW f, NEW S PROVE Bytes(f, S) = (CHOOSE g : IsSum(g, f, S))[S]
  BY DEF Bytes, FoldSet, MapThenFoldSet, IsSum, SomeOf

\* What is chosen of a set is of it.
LEMMA SomeOfIn == ASSUME NEW T, T # {} PROVE SomeOf(T) \in T
  BY DEF SomeOf

\* Two functions that add up the subsets of a set agree.
LEMMA SumUnique ==
  ASSUME NEW S, IsFiniteSet(S), NEW f, NEW g, NEW h, IsSum(g, f, S), IsSum(h, f, S), NEW T \in SUBSET S
  PROVE  g[T] = h[T]
<1> DEFINE Good == {U \in SUBSET S : g[U] = h[U]}
<1>1. ASSUME NEW U \in SUBSET S, \A V \in SUBSET U : V # U => V \in Good PROVE U \in Good
  <2>1. CASE U = {}
    BY <2>1 DEF IsSum
  <2>2. CASE U # {}
    <3>1. SomeOf(U) \in U /\ U \ {SomeOf(U)} \in SUBSET U /\ U \ {SomeOf(U)} # U
      BY <2>2, SomeOfIn
    <3>2. g[U \ {SomeOf(U)}] = h[U \ {SomeOf(U)}]
      BY <1>1, <3>1
    <3>3. g[U] = f[SomeOf(U)] + g[U \ {SomeOf(U)}]
      BY <2>2 DEF IsSum
    <3>4. h[U] = f[SomeOf(U)] + h[U \ {SomeOf(U)}]
      BY <2>2 DEF IsSum
    <3> QED BY <3>2, <3>3, <3>4
  <2> QED BY <2>1, <2>2
<1>2. IsFiniteSet(T)
  BY FS_Subset
<1>3. \A U \in SUBSET T : (\A V \in SUBSET U : V # U => V \in Good) => U \in Good
  BY <1>1
<1> HIDE DEF Good
<1>4. T \in Good
  BY <1>2, <1>3, SetInduction
<1> QED BY <1>4 DEF Good

\* One that adds up the subsets of a set adds up those of its parts.
LEMMA SumWithin ==
  ASSUME NEW S, NEW f, NEW g, IsSum(g, f, S), NEW U \in SUBSET S
  PROVE  IsSum([T \in SUBSET U |-> g[T]], f, U)
<1> DEFINE h == [T \in SUBSET U |-> g[T]]
<1>1. ASSUME NEW T \in SUBSET U PROVE h[T] = IF T = {} THEN 0 ELSE f[SomeOf(T)] + h[T \ {SomeOf(T)}]
  <2>1. g[T] = IF T = {} THEN 0 ELSE f[SomeOf(T)] + g[T \ {SomeOf(T)}]
    BY DEF IsSum
  <2>2. T \ {SomeOf(T)} \in SUBSET U
    OBVIOUS
  <2> QED BY <2>1, <2>2
<1>2. h = [T \in SUBSET U |-> h[T]]
  OBVIOUS
<1> HIDE DEF h
<1>3. h = [T \in SUBSET U |-> IF T = {} THEN 0 ELSE f[SomeOf(T)] + h[T \ {SomeOf(T)}]]
  BY <1>1, <1>2
<1> QED BY <1>3 DEF IsSum, h

\* And there is one.
LEMMA SumExists ==
  ASSUME NEW S, IsFiniteSet(S), NEW f
  PROVE  IsSum(CHOOSE g : IsSum(g, f, S), f, S)
<1> DEFINE V(T) == (CHOOSE g : IsSum(g, f, T))[T]
<1> DEFINE Good == {T \in SUBSET S : \E g : IsSum(g, f, T)}
<1>1. ASSUME NEW T \in SUBSET S, \A U \in SUBSET T : U # T => U \in Good PROVE T \in Good
  <2> DEFINE h == [U \in SUBSET T |-> IF U = {} THEN 0 ELSE f[SomeOf(U)] + V(U \ {SomeOf(U)})]
  <2>1. ASSUME NEW U \in SUBSET T, U # T PROVE h[U] = V(U)
    <3> DEFINE g == CHOOSE g : IsSum(g, f, U)
    <3>1. IsSum(g, f, U)
      BY <1>1, <2>1
    <3> HIDE DEF g
    <3>2. CASE U = {}
      <4>1. g[U] = 0
        BY <3>1, <3>2 DEF IsSum
      <4> QED BY <3>2, <4>1 DEF g
    <3>3. CASE U # {}
      <4> DEFINE W == U \ {SomeOf(U)}
      <4>1. W \in SUBSET U /\ W # U /\ W \in SUBSET T /\ W # T
        BY <3>3, SomeOfIn
      <4>2. g[U] = f[SomeOf(U)] + g[W]
        BY <3>1, <3>3 DEF IsSum
      <4>2a. h[U] = f[SomeOf(U)] + V(W)
        BY <3>3
      <4> HIDE DEF W, h
      <4>3. IsSum([X \in SUBSET W |-> g[X]], f, W)
        BY <3>1, <4>1, SumWithin
      <4>4. IsSum(CHOOSE k : IsSum(k, f, W), f, W)
        BY <4>3
      <4>5. IsFiniteSet(W)
        BY <4>1, FS_Subset
      <4>6. V(W) = [X \in SUBSET W |-> g[X]][W]
        BY <4>3, <4>4, <4>5, SumUnique
      <4>7. V(W) = g[W]
        BY <4>6
      <4> QED BY <4>2, <4>2a, <4>7 DEF g
    <3> QED BY <3>2, <3>3
  <2>2. ASSUME NEW U \in SUBSET T PROVE h[U] = IF U = {} THEN 0 ELSE f[SomeOf(U)] + h[U \ {SomeOf(U)}]
    <3>1. U # {} => U \ {SomeOf(U)} \in SUBSET T /\ U \ {SomeOf(U)} # T
      BY SomeOfIn
    <3>2. U # {} => h[U \ {SomeOf(U)}] = V(U \ {SomeOf(U)})
      BY <2>1, <3>1
    <3> QED BY <3>2
  <2>3. h = [U \in SUBSET T |-> h[U]]
    OBVIOUS
  <2> HIDE DEF h
  <2>4. IsSum(h, f, T)
    BY <2>2, <2>3 DEF IsSum
  <2> QED BY <2>4
<1> HIDE DEF Good
<1>2. S \in Good
  BY <1>1, SetInduction
<1>3. \E g : IsSum(g, f, S)
  BY <1>2 DEF Good
<1> QED BY <1>3

\* So a sum is an element of the set and the sum of the others.
LEMMA BytesStep ==
  ASSUME NEW S, IsFiniteSet(S), NEW f
  PROVE  Bytes(f, S) = IF S = {} THEN 0 ELSE f[SomeOf(S)] + Bytes(f, S \ {SomeOf(S)})
<1> DEFINE g == CHOOSE g : IsSum(g, f, S)  W == S \ {SomeOf(S)}
<1>1. IsSum(g, f, S)
  BY SumExists
<1>2. IsFiniteSet(W) /\ W \in SUBSET S
  BY FS_Subset
<1>3. IsSum([X \in SUBSET W |-> g[X]], f, W)
  BY <1>1, <1>2, SumWithin
<1>4. IsSum(CHOOSE k : IsSum(k, f, W), f, W)
  BY <1>2, SumExists
<1>5. Bytes(f, W) = [X \in SUBSET W |-> g[X]][W]
  BY <1>2, <1>3, <1>4, SumUnique, BytesDef
<1>6. Bytes(f, W) = g[W] /\ Bytes(f, S) = g[S]
  BY <1>5, BytesDef
<1> HIDE DEF g
<1>7. g[S] = IF S = {} THEN 0 ELSE f[SomeOf(S)] + g[W]
  BY <1>1 DEF IsSum
<1> QED BY <1>6, <1>7

\* Sums of natural numbers: their type, and what they are without an element or with one more.
Naturals(f, S) == \A x \in S : f[x] \in Nat
\* Sums of naturals are naturals.
LEMMA BytesType ==
  ASSUME NEW S, IsFiniteSet(S), NEW f, Naturals(f, S)
  PROVE  Bytes(f, S) \in Nat
<1> DEFINE Good == {T \in SUBSET S : Bytes(f, T) \in Nat}
<1>1. ASSUME NEW T \in SUBSET S, \A U \in SUBSET T : U # T => U \in Good PROVE T \in Good
  <2>1. IsFiniteSet(T)
    BY FS_Subset
  <2>2. Bytes(f, T) = IF T = {} THEN 0 ELSE f[SomeOf(T)] + Bytes(f, T \ {SomeOf(T)})
    BY <2>1, BytesStep
  <2>3. T # {} => SomeOf(T) \in T /\ T \ {SomeOf(T)} \in Good
    BY <1>1, SomeOfIn
  <2> QED BY <2>2, <2>3 DEF Naturals
<1> HIDE DEF Good
<1>2. S \in Good
  BY <1>1, SetInduction
<1> QED BY <1>2 DEF Good

\* It does not matter which element comes first.
LEMMA BytesLess ==
  ASSUME NEW S, IsFiniteSet(S), NEW f, Naturals(f, S), NEW x \in S
  PROVE  Bytes(f, S) = f[x] + Bytes(f, S \ {x})
<1> DEFINE Good == {T \in SUBSET S : \A y \in T : Bytes(f, T) = f[y] + Bytes(f, T \ {y})}
<1>1. ASSUME NEW T \in SUBSET S, \A U \in SUBSET T : U # T => U \in Good PROVE T \in Good
  <2> SUFFICES ASSUME NEW y \in T PROVE Bytes(f, T) = f[y] + Bytes(f, T \ {y})
    OBVIOUS
  <2> DEFINE z == SomeOf(T)  A == T \ {z}  B == T \ {y}  C == (T \ {z}) \ {y}
  <2>1. z \in T
    BY SomeOfIn
  <2>2. IsFiniteSet(T) /\ IsFiniteSet(A) /\ IsFiniteSet(B) /\ IsFiniteSet(C) /\ Naturals(f, A) /\ Naturals(f, C)
    <3>1. T \in SUBSET S /\ A \in SUBSET S /\ B \in SUBSET S /\ C \in SUBSET S
      OBVIOUS
    <3> HIDE DEF A, B, C
    <3>2. IsFiniteSet(T) /\ IsFiniteSet(A) /\ IsFiniteSet(B) /\ IsFiniteSet(C)
      BY <3>1, FS_Subset
    <3> QED BY <3>1, <3>2 DEF Naturals
  <2>3. Bytes(f, T) = f[z] + Bytes(f, A)
    BY <2>2, BytesStep
  <2>4. CASE y # z
    <3>1. A \in Good /\ B \in Good /\ y \in A /\ z \in B
      BY <1>1, <2>1, <2>4
    <3>2. Bytes(f, A) = f[y] + Bytes(f, C)
      BY <3>1
    <3>3. B \ {z} = C
      OBVIOUS
    <3>4. Bytes(f, B) = f[z] + Bytes(f, C)
      <4>1. Bytes(f, B) = f[z] + Bytes(f, B \ {z})
        BY <3>1
      <4> QED BY <3>3, <4>1, Zenon
    <3>5. f[y] \in Nat /\ f[z] \in Nat /\ Bytes(f, C) \in Nat
      BY <2>1, <2>2, BytesType DEF Naturals
    <3> HIDE DEF A, B, C, z
    <3> QED BY <2>3, <3>2, <3>4, <3>5 DEF B
  <2>5. CASE y = z
    BY <2>3, <2>5
  <2> QED BY <2>4, <2>5
<1> HIDE DEF Good
<1>2. S \in Good
  BY <1>1, SetInduction
<1> QED BY <1>2 DEF Good

\* Nothing adds up to nothing.
LEMMA BytesNone == ASSUME NEW f PROVE Bytes(f, {}) = 0
  BY BytesStep, FS_EmptySet

\* One element more.
LEMMA BytesMore ==
  ASSUME NEW S, IsFiniteSet(S), NEW f, Naturals(f, S), NEW x, x \notin S, f[x] \in Nat
  PROVE  Bytes(f, S \cup {x}) = f[x] + Bytes(f, S)
<1> DEFINE T == S \cup {x}
<1>1. IsFiniteSet(T)
  BY FS_AddElement
<1>2. Naturals(f, T) /\ x \in T /\ T \ {x} = S
  BY DEF Naturals
<1> HIDE DEF T
<1>3. Bytes(f, T) = f[x] + Bytes(f, T \ {x})
  BY <1>1, <1>2, BytesLess
<1> QED BY <1>2, <1>3, Zenon DEF T

\* Induction element by element.
LEMMA ByElements ==
  ASSUME NEW S, IsFiniteSet(S), NEW Good, {} \in Good,
         \A T \in SUBSET S : \A x \in T : T \ {x} \in Good => T \in Good
  PROVE  S \in Good
<1>1. ASSUME NEW T \in SUBSET S, \A U \in SUBSET T : U # T => U \in Good PROVE T \in Good
  <2>1. CASE T = {}
    BY <2>1
  <2>2. CASE T # {}
    <3>1. PICK x \in T : TRUE
      BY <2>2
    <3>2. T \ {x} \in SUBSET T /\ T \ {x} # T
      BY <3>1
    <3>3. T \ {x} \in Good
      BY <1>1, <3>2
    <3> QED BY <3>1, <3>3
  <2> QED BY <2>1, <2>2
<1> QED BY <1>1, SetInduction

\* The sum of sums.
LEMMA BytesAdd ==
  ASSUME NEW S, IsFiniteSet(S), NEW f, NEW g, NEW h, Naturals(f, S), Naturals(g, S), Naturals(h, S), \A x \in S : h[x] = f[x] + g[x]
  PROVE  Bytes(h, S) = Bytes(f, S) + Bytes(g, S)
<1> DEFINE Good == {T \in SUBSET S : Bytes(h, T) = Bytes(f, T) + Bytes(g, T)}
<1>1. {} \in Good
  BY BytesNone
<1>2. ASSUME NEW T \in SUBSET S, NEW x \in T, T \ {x} \in Good PROVE T \in Good
  <2>1. IsFiniteSet(T) /\ Naturals(f, T) /\ Naturals(g, T) /\ Naturals(h, T)
    BY FS_Subset DEF Naturals
  <2> DEFINE U == T \ {x}
  <2>2. Bytes(f, T) = f[x] + Bytes(f, U) /\ Bytes(g, T) = g[x] + Bytes(g, U) /\ Bytes(h, T) = h[x] + Bytes(h, U)
    BY <2>1, BytesLess
  <2>3. U \in SUBSET S
    OBVIOUS
  <2>3a. Bytes(h, U) = Bytes(f, U) + Bytes(g, U)
    BY <1>2
  <2> HIDE DEF U
  <2>4. Bytes(f, U) \in Nat /\ Bytes(g, U) \in Nat
    BY <2>3, FS_Subset, BytesType DEF Naturals
  <2>5. f[x] \in Nat /\ g[x] \in Nat /\ h[x] = f[x] + g[x]
    BY DEF Naturals
  <2> QED BY <2>2, <2>3a, <2>4, <2>5
<1> HIDE DEF Good
<1>3. S \in Good
  BY <1>1, <1>2, ByElements
<1> QED BY <1>3 DEF Good

\* The sum of two sets without a common element.
LEMMA BytesUnion ==
  ASSUME NEW S, NEW T, IsFiniteSet(S), IsFiniteSet(T), S \cap T = {}, NEW f, Naturals(f, S), Naturals(f, T)
  PROVE  Bytes(f, S \cup T) = Bytes(f, S) + Bytes(f, T)
<1> DEFINE Good == {U \in SUBSET T : Bytes(f, S \cup U) = Bytes(f, S) + Bytes(f, U)}
<1>1. {} \in Good
  <2>1. S \cup {} = S /\ Bytes(f, {}) = 0 /\ Bytes(f, S) \in Nat
    BY BytesNone, BytesType
  <2> QED BY <2>1
<1>2. ASSUME NEW U \in SUBSET T, NEW x \in U, U \ {x} \in Good PROVE U \in Good
  <2> DEFINE V == U \ {x}  A == S \cup V
  <2>1. V \in SUBSET T /\ x \notin V /\ x \notin A /\ V \cup {x} = U /\ A \cup {x} = S \cup U /\ f[x] \in Nat
    BY DEF Naturals
  <2>2. IsFiniteSet(V) /\ IsFiniteSet(A) /\ Naturals(f, V) /\ Naturals(f, A)
    <3>1. IsFiniteSet(V)
      BY <2>1, FS_Subset
    <3>2. IsFiniteSet(A)
      BY <3>1, FS_Union
    <3> QED BY <3>1, <3>2 DEF Naturals
  <2>3. Bytes(f, A) = Bytes(f, S) + Bytes(f, V)
    BY <1>2
  <2> HIDE DEF V, A
  <2>4. Bytes(f, V \cup {x}) = f[x] + Bytes(f, V) /\ Bytes(f, A \cup {x}) = f[x] + Bytes(f, A)
    BY <2>1, <2>2, BytesMore
  <2>5. Bytes(f, S) \in Nat /\ Bytes(f, V) \in Nat
    BY <2>2, BytesType
  <2>6. Bytes(f, U) = f[x] + Bytes(f, V) /\ Bytes(f, S \cup U) = f[x] + Bytes(f, A)
    BY <2>1, <2>4, Zenon
  <2> QED BY <2>1, <2>3, <2>5, <2>6
<1> HIDE DEF Good
<1>3. T \in Good
  BY <1>1, <1>2, ByElements
<1> QED BY <1>3 DEF Good

\* The same numbers under other names.
LEMMA BytesRenamed ==
  ASSUME NEW S, IsFiniteSet(S), NEW T, NEW f, NEW g, NEW a, Naturals(g, S),
         a \in [S -> T], \A x, y \in S : a[x] = a[y] => x = y, \A y \in T : \E x \in S : a[x] = y,
         \A x \in S : f[a[x]] = g[x]
  PROVE  Bytes(f, T) = Bytes(g, S) /\ IsFiniteSet(T) /\ Naturals(f, T)
<1> DEFINE Im(U) == {y \in T : \E x \in U : a[x] = y}
<1> DEFINE Good == {U \in SUBSET S : Bytes(f, Im(U)) = Bytes(g, U) /\ IsFiniteSet(Im(U))}
<1>1. {} \in Good
  <2>1. Im({}) = {}
    OBVIOUS
  <2> HIDE DEF Im
  <2> QED BY <2>1, BytesNone, FS_EmptySet
<1>2. ASSUME NEW U \in SUBSET S, NEW x \in U, U \ {x} \in Good PROVE U \in Good
  <2> DEFINE V == U \ {x}  A == Im(V)
  <2>1. V \in SUBSET S /\ x \notin V /\ V \cup {x} = U /\ a[x] \notin A /\ A \cup {a[x]} = Im(U) /\ g[x] \in Nat /\ f[a[x]] = g[x]
    BY DEF Naturals
  <2>2. Naturals(g, V) /\ Naturals(f, A)
    BY DEF Naturals
  <2>3. IsFiniteSet(V) /\ IsFiniteSet(A) /\ Bytes(f, A) = Bytes(g, V)
    BY <1>2, <2>1, FS_Subset
  <2> HIDE DEF V, A, Im
  <2>4. Bytes(g, V \cup {x}) = g[x] + Bytes(g, V) /\ Bytes(f, A \cup {a[x]}) = f[a[x]] + Bytes(f, A)
    BY <2>1, <2>2, <2>3, BytesMore
  <2>5. Bytes(f, Im(U)) = Bytes(g, U)
    BY <2>1, <2>3, <2>4, Zenon
  <2>6. IsFiniteSet(Im(U))
    BY <2>1, <2>3, FS_AddElement
  <2> QED BY <2>5, <2>6
<1>3. Im(S) = T
  OBVIOUS
<1>4. Naturals(f, T)
  BY DEF Naturals
<1> HIDE DEF Good
<1>5. S \in Good
  BY <1>1, <1>2, ByElements
<1> HIDE DEF Im
<1> QED BY <1>3, <1>4, <1>5 DEF Good

\* A sum by groups.
LEMMA BytesGrouped ==
  ASSUME NEW C, IsFiniteSet(C), NEW D, IsFiniteSet(D), NEW f, Naturals(f, D), NEW of, \A i \in D : of[i] \in C,
         NEW group, \A c \in C : group[c] \in SUBSET D, \A c \in C : \A i \in D : i \in group[c] <=> of[i] = c,
         NEW g, \A c \in C : g[c] = Bytes(f, group[c])
  PROVE  Bytes(g, C) = Bytes(f, D) /\ Naturals(g, C)
<1> DEFINE In(A) == {i \in D : of[i] \in A}
<1> DEFINE Good == {A \in SUBSET C : Bytes(g, A) = Bytes(f, In(A))}
<1>1. {} \in Good
  <2>1. In({}) = {}
    OBVIOUS
  <2> HIDE DEF In
  <2> QED BY <2>1, BytesNone
<1>2. ASSUME NEW A \in SUBSET D PROVE IsFiniteSet(A) /\ Naturals(f, A) /\ Bytes(f, A) \in Nat
  <2>1. IsFiniteSet(A) /\ Naturals(f, A)
    BY FS_Subset DEF Naturals
  <2> QED BY <2>1, BytesType
<1>3. Naturals(g, C)
  <2> SUFFICES ASSUME NEW c \in C PROVE g[c] \in Nat
    BY DEF Naturals
  <2> DEFINE A == group[c]
  <2>1. A \in SUBSET D /\ g[c] = Bytes(f, A)
    OBVIOUS
  <2> HIDE DEF A
  <2> QED BY <1>2, <2>1
<1>4. ASSUME NEW A \in SUBSET C, NEW c \in A, A \ {c} \in Good PROVE A \in Good
  <2> DEFINE B == A \ {c}  Q == group[c]  P == In(B)
  <2>1. B \in SUBSET C /\ B \cup {c} = A /\ c \notin B /\ P \in SUBSET D /\ Q \in SUBSET D /\ P \cap Q = {} /\ P \cup Q = In(A)
        /\ g[c] = Bytes(f, Q) /\ Bytes(g, B) = Bytes(f, P)
    BY <1>4
  <2> HIDE DEF B, Q, P, In
  <2>2. IsFiniteSet(B) /\ Naturals(g, B) /\ g[c] \in Nat
    BY <1>3, <2>1, FS_Subset DEF Naturals
  <2>3. Bytes(g, B \cup {c}) = g[c] + Bytes(g, B)
    BY <2>1, <2>2, BytesMore
  <2>4. Bytes(f, P \cup Q) = Bytes(f, P) + Bytes(f, Q)
    BY <1>2, <2>1, BytesUnion
  <2>5. Bytes(f, P) \in Nat /\ Bytes(f, Q) \in Nat
    BY <1>2, <2>1
  <2>6. Bytes(g, A) = Bytes(g, B \cup {c}) /\ Bytes(f, In(A)) = Bytes(f, P \cup Q)
    BY <2>1, Zenon
  <2> QED BY <2>1, <2>3, <2>4, <2>5, <2>6
<1>5. In(C) = D
  OBVIOUS
<1> HIDE DEF Good
<1>6. C \in Good
  BY <1>1, <1>4, ByElements
<1> HIDE DEF In
<1> QED BY <1>3, <1>5, <1>6 DEF Good

-----------------------------------------------------------------------------
(* The receivers' books.  Every byte received is in the sums of the minute,  *)
(* among the small ones that were counted, buffered or stored; what a post   *)
(* stored and the collector has not heard of yet is there twice (Owed), and  *)
(* one that failed may be there twice for good.                              *)
Flow == [of : Conversations, bytes : Nat]
Owed == IF post = None THEN 0 ELSE IF post.answer = "ok" THEN Bytes(SizesOf(post.flows), DOMAIN post.flows) ELSE 0
There == Bytes(stored.bytes, Conversations) + Bytes(sums, Conversations) + story.small + Waiting
BytesTypeOK ==
  /\ sums \in [Conversations -> Nat] /\ stored.bytes \in [Conversations -> Nat] /\ buffered.flows \in Seq(Flow)
  /\ story.bytes \in Nat /\ story.small \in Nat /\ story.repeats \in Nat
  /\ \A p \in late : p.flows \in Seq(Flow)
  /\ post # None => post.flows \in Seq(Flow)
AtFront == post # None => Len(post.flows) <= Len(buffered.flows) /\ \A n \in 1..Len(post.flows) : post.flows[n] = buffered.flows[n]
Failing == post # None /\ post.answer = "error"
Counted ==
  /\ There >= story.bytes + Owed
  /\ story.repeats = 0 /\ late = {} /\ ~Failing => There = story.bytes + Owed
  /\ late # {} => story.repeats > 0 \/ Failing
Shapes == /\ buffered = [events |-> buffered.events, flows |-> buffered.flows]
          /\ story = [accepted |-> story.accepted, cut |-> story.cut, bytes |-> story.bytes, small |-> story.small, repeats |-> story.repeats]
          /\ post # None => post = [events |-> post.events, flows |-> post.flows, answer |-> post.answer]
FlowsInv == Shapes /\ BytesTypeOK /\ AtFront /\ Counted

\* Sizes add up to naturals.
LEMMA SizesAreNaturals ==
  ASSUME NEW q \in Seq(Flow)
  PROVE  IsFiniteSet(DOMAIN q) /\ Naturals(SizesOf(q), DOMAIN q) /\ DOMAIN q = 1..Len(q) /\ Len(q) \in Nat
<1>1. DOMAIN q = 1..Len(q) /\ Len(q) \in Nat
  OBVIOUS
<1>2. IsFiniteSet(DOMAIN q)
  BY <1>1, FS_Interval
<1>3. \A i \in DOMAIN q : q[i] \in Flow
  BY <1>1
<1>4. \A i \in DOMAIN q : q[i].bytes \in Nat
  BY <1>3 DEF Flow
<1> QED BY <1>4, <1>1, <1>2, <1>3 DEF Naturals, SizesOf

\* The same flows further on in a list.
LEMMA SizesShifted ==
  ASSUME NEW q, NEW r, NEW n \in Nat, NEW m \in Nat, Naturals(SizesOf(q), 1..m), DOMAIN q = 1..m, (n + 1)..(n + m) \subseteq DOMAIN r,
         \A i \in 1..m : r[n + i] = q[i]
  PROVE  Bytes(SizesOf(r), (n + 1)..(n + m)) = Bytes(SizesOf(q), 1..m)
<1> DEFINE S == 1..m  T == (n + 1)..(n + m)  later == [i \in S |-> n + i]
<1>1. later \in [S -> T] /\ (\A x, y \in S : later[x] = later[y] => x = y)
  OBVIOUS
<1>2. \A y \in T : \E x \in S : later[x] = y
  <2> SUFFICES ASSUME NEW y \in T PROVE \E x \in S : later[x] = y
    OBVIOUS
  <2>1. y - n \in S /\ n + (y - n) = y
    OBVIOUS
  <2> QED BY <2>1
<1>3. \A x \in S : SizesOf(r)[later[x]] = SizesOf(q)[x]
  <2> SUFFICES ASSUME NEW x \in S PROVE SizesOf(r)[later[x]] = SizesOf(q)[x]
    OBVIOUS
  <2>1. n + x \in DOMAIN r /\ later[x] = n + x /\ r[n + x] = q[x]
    OBVIOUS
  <2>2. SizesOf(r)[n + x] = r[n + x].bytes /\ SizesOf(q)[x] = q[x].bytes
    BY <2>1 DEF SizesOf
  <2> QED BY <2>1, <2>2, Zenon
<1>4. IsFiniteSet(S) /\ Naturals(SizesOf(q), S)
  BY FS_Interval
<1> HIDE DEF S, T, later
<1>5. Bytes(SizesOf(r), T) = Bytes(SizesOf(q), S)
  BY <1>1, <1>2, <1>3, <1>4, BytesRenamed
<1> QED BY <1>5 DEF S, T

\* Two lists, one after the other.
LEMMA SizesTogether ==
  ASSUME NEW p \in Seq(Flow), NEW q \in Seq(Flow), NEW r \in Seq(Flow), Len(r) = Len(p) + Len(q),
         \A i \in 1..Len(p) : r[i] = p[i], \A i \in 1..Len(q) : r[Len(p) + i] = q[i]
  PROVE  Bytes(SizesOf(r), DOMAIN r) = Bytes(SizesOf(p), DOMAIN p) + Bytes(SizesOf(q), DOMAIN q)
<1> DEFINE n == Len(p)  m == Len(q)  z == 0  S == (z + 1)..(z + n)  T == (n + 1)..(n + m)
<1>1. /\ DOMAIN p = 1..n /\ DOMAIN q = 1..m /\ DOMAIN r = 1..(n + m) /\ n \in Nat /\ m \in Nat
      /\ Naturals(SizesOf(p), 1..n) /\ Naturals(SizesOf(q), 1..m) /\ IsFiniteSet(DOMAIN r) /\ Naturals(SizesOf(r), DOMAIN r)
  BY SizesAreNaturals
<1>2. S \cap T = {} /\ S \cup T = DOMAIN r
  BY <1>1
<1>3. IsFiniteSet(S) /\ IsFiniteSet(T) /\ Naturals(SizesOf(r), S) /\ Naturals(SizesOf(r), T)
  <2>1. S \in SUBSET DOMAIN r /\ T \in SUBSET DOMAIN r
    BY <1>2
  <2> HIDE DEF S, T
  <2> QED BY <1>1, <2>1, FS_Subset DEF Naturals
<1>4. Bytes(SizesOf(r), S) = Bytes(SizesOf(p), 1..n)
  <2>1. (\A i \in 1..n : r[z + i] = p[i]) /\ S \subseteq DOMAIN r /\ z \in Nat
    BY <1>1, <1>2
  <2>2. Naturals(SizesOf(p), 1..n) /\ DOMAIN p = 1..n /\ n \in Nat
    BY <1>1
  <2> HIDE DEF n, m, z
  <2>3. Bytes(SizesOf(r), (z + 1)..(z + n)) = Bytes(SizesOf(p), 1..n)
    BY <2>1, <2>2, SizesShifted
  <2> QED BY <2>3
<1>5. Bytes(SizesOf(r), T) = Bytes(SizesOf(q), 1..m)
  <2>1. (\A i \in 1..m : r[n + i] = q[i]) /\ T \subseteq DOMAIN r
    BY <1>1, <1>2
  <2> HIDE DEF n, m
  <2> QED BY <1>1, <2>1, SizesShifted
<1>6. Bytes(SizesOf(r), S \cup T) = Bytes(SizesOf(r), S) + Bytes(SizesOf(r), T)
  BY <1>2, <1>3, BytesUnion
<1>7. Bytes(SizesOf(r), DOMAIN r) = Bytes(SizesOf(r), S \cup T)
  BY <1>2, Zenon
<1> HIDE DEF S, T, n, m
<1>8. Bytes(SizesOf(p), DOMAIN p) = Bytes(SizesOf(p), 1..n) /\ Bytes(SizesOf(q), DOMAIN q) = Bytes(SizesOf(q), 1..m)
  BY <1>1, Zenon
<1> QED BY <1>4, <1>5, <1>6, <1>7, <1>8

\* A set of conversations as a list.
LEMMA SizesOfSet ==
  ASSUME NEW top \in SUBSET Conversations, sums \in [Conversations -> Nat], NEW q,
         q = SetToSeq({[of |-> c, bytes |-> sums[c]] : c \in top})
  PROVE  q \in Seq(Flow) /\ Bytes(SizesOf(q), DOMAIN q) = Bytes(sums, top)
<1> DEFINE F == {[of |-> c, bytes |-> sums[c]] : c \in top}  a == [c \in top |-> [of |-> c, bytes |-> sums[c]]]  sizes == [x \in F |-> x.bytes]
<1>1. IsFiniteSet(top) /\ Naturals(sums, top)
  BY ReceiversAssumption, FS_Subset DEF Naturals
<1>2. a \in [top -> F] /\ (\A x, y \in top : a[x] = a[y] => x = y) /\ (\A y \in F : \E x \in top : a[x] = y)
  OBVIOUS
<1>3. \A c \in top : sizes[a[c]] = sums[c]
  OBVIOUS
<1>4. F \in SUBSET Flow
  BY DEF Flow
<1> HIDE DEF a
<1>4a. \A x \in F : sizes[x] = x.bytes
  OBVIOUS
<1> HIDE DEF F, sizes
<1>5. Bytes(sizes, F) = Bytes(sums, top) /\ IsFiniteSet(F) /\ Naturals(sizes, F)
  BY <1>1, <1>2, <1>3, BytesRenamed
<1> DEFINE n == Cardinality(F)
<1>6. n \in Nat /\ \E h \in [1..n -> F] : IsInjective(h)
  <2>1. n \in Nat /\ ExistsBijection(1..n, F)
    BY <1>5, FS_CardinalityType
  <2> HIDE DEF n
  <2> QED BY <2>1 DEF ExistsBijection, Bijection, Injection, IsInjective
<1>7. q \in [1..n -> F] /\ IsInjective(q)
  <2>1. q = CHOOSE h \in [1..n -> F] : IsInjective(h)
    BY DEF SetToSeq, F
  <2> HIDE DEF n
  <2> QED BY <1>6, <2>1
<1>8. q \in Seq(Flow) /\ DOMAIN q = 1..n
  BY <1>4, <1>6, <1>7
<1>9. \A x, y \in 1..n : q[x] = q[y] => x = y
  BY <1>7, <1>8 DEF IsInjective
<1>10. IsFiniteSet(1..n) /\ Cardinality(1..n) = n
  BY <1>6, FS_Interval
<1>11. \A y \in F : \E x \in 1..n : q[x] = y
  <2> DEFINE D == 1..n
  <2>1. q \in Injection(D, F)
    BY <1>7, <1>9 DEF Injection, IsInjective
  <2>2. q \in Surjection(D, F)
    <3>1. IsFiniteSet(D) /\ Cardinality(D) = n
      BY <1>10
    <3> HIDE DEF D
    <3> QED BY <1>5, <2>1, <3>1, FS_Injection
  <2> QED BY <2>2 DEF Surjection
<1>12. Naturals(SizesOf(q), 1..n) /\ \A x \in 1..n : sizes[q[x]] = SizesOf(q)[x]
  <2>1. Naturals(SizesOf(q), 1..n)
    BY <1>8, SizesAreNaturals
  <2>2. \A x \in 1..n : q[x] \in F /\ SizesOf(q)[x] = q[x].bytes
    BY <1>7, <1>8 DEF SizesOf
  <2> QED BY <1>4a, <2>1, <2>2
<1>13. Bytes(sizes, F) = Bytes(SizesOf(q), 1..n)
  <2> DEFINE D == 1..n  g == SizesOf(q)
  <2>1. IsFiniteSet(D) /\ Naturals(g, D) /\ q \in [D -> F] /\ (\A x, y \in D : q[x] = q[y] => x = y)
        /\ (\A y \in F : \E x \in D : q[x] = y) /\ \A x \in D : sizes[q[x]] = g[x]
    BY <1>7, <1>9, <1>10, <1>11, <1>12
  <2> HIDE DEF D, g
  <2>2. Bytes(sizes, F) = Bytes(g, D)
    BY <2>1, BytesRenamed
  <2> QED BY <2>2 DEF D, g
<1> QED BY <1>5, <1>8, <1>13

\* What is buffered, posted and stored adds up to naturals.
LEMMA BytesAre ==
  ASSUME NEW f \in [Conversations -> Nat], NEW S \in SUBSET Conversations
  PROVE  IsFiniteSet(S) /\ Naturals(f, S) /\ Bytes(f, S) \in Nat
<1>1. IsFiniteSet(S)
  BY ReceiversAssumption, FS_Subset
<1>2. Naturals(f, S)
  BY DEF Naturals
<1> QED BY <1>1, <1>2, BytesType

\* So do the sizes of a sum of conversations.
LEMMA SizesAre ==
  ASSUME NEW q \in Seq(Flow)
  PROVE  Bytes(SizesOf(q), DOMAIN q) \in Nat
  BY SizesAreNaturals, BytesType

\* What the invariant says of the numbers alone.
LEMMA NumbersAre ==
  ASSUME BytesTypeOK
  PROVE  /\ Bytes(stored.bytes, Conversations) \in Nat /\ Bytes(sums, Conversations) \in Nat /\ story.small \in Nat /\ Waiting \in Nat
         /\ story.bytes \in Nat /\ story.repeats \in Nat /\ Owed \in Nat
<1>1. Waiting \in Nat
  BY SizesAre DEF Waiting, BytesTypeOK
<1>2. Owed \in Nat
  BY SizesAre DEF Owed, BytesTypeOK
<1> QED BY <1>1, <1>2, BytesAre DEF BytesTypeOK

\* At the start nothing is counted and nothing is anywhere.
LEMMA FlowsStart == ReceiversInit => FlowsInv
<1> SUFFICES ASSUME ReceiversInit PROVE FlowsInv
  OBVIOUS
<1> DEFINE z == [c \in Conversations |-> 0]
<1>1. /\ sums = z /\ buffered = [events |-> <<>>, flows |-> <<>>] /\ post = None /\ late = {}
      /\ stored = [events |-> {}, bytes |-> z]
      /\ story = [accepted |-> {}, cut |-> 0, bytes |-> 0, small |-> 0, repeats |-> 0]
  BY DEF ReceiversInit
<1>2. z \in [Conversations -> Nat]
  OBVIOUS
<1>3. Bytes(z, Conversations) = 0
  <2>1. Bytes(z, Conversations) = Bytes(z, Conversations) + Bytes(z, Conversations)
    <3>1. IsFiniteSet(Conversations) /\ Naturals(z, Conversations) /\ \A x \in Conversations : z[x] = z[x] + z[x]
      BY <1>2, ReceiversAssumption DEF Naturals
    <3> HIDE DEF z
    <3> QED BY <3>1, BytesAdd
  <2>2. Bytes(z, Conversations) \in Nat
    BY <1>2, BytesAre
  <2> QED BY <2>1, <2>2, SMTT(30)
<1>4. Waiting = 0
  <2>1. buffered.flows = <<>> /\ DOMAIN buffered.flows = {}
    BY <1>1
  <2> QED BY <2>1, BytesNone DEF Waiting
<1> HIDE DEF z
<1>5. BytesTypeOK
  BY <1>1, <1>2 DEF BytesTypeOK
<1>6. There = 0 /\ Owed = 0
  BY <1>1, <1>3, <1>4 DEF There, Owed
<1>7. Counted
  BY <1>1, <1>6 DEF Counted, Failing
<1> QED BY <1>1, <1>5, <1>7 DEF FlowsInv, Shapes, AtFront

\* What touches neither bytes nor flows.
LEMMA FlowsRest ==
  ASSUME FlowsInv, Shapes', sums' = sums, stored'.bytes = stored.bytes, buffered'.flows = buffered.flows, post' = post, late' = late,
         story'.bytes = story.bytes, story'.small = story.small, story'.repeats = story.repeats
  PROVE  FlowsInv'
<1>1. BytesTypeOK' /\ AtFront'
  BY DEF FlowsInv, BytesTypeOK, AtFront
<1>2. There' = There /\ Owed' = Owed /\ Failing' = Failing
  BY DEF There, Owed, Failing, Waiting
<1>3. Counted'
  BY <1>2 DEF FlowsInv, Counted
<1> QED BY <1>1, <1>3 DEF FlowsInv

\* A packet's bytes are summed.
LEMMA FlowsSummed ==
  ASSUME FlowsInv, NEW c \in Conversations, sums' = [sums EXCEPT ![c] = @ + 1], story' = [story EXCEPT !.bytes = @ + 1],
         UNCHANGED <<buffered, post, late, stored>>
  PROVE  FlowsInv'
<1>0. BytesTypeOK
  BY DEF FlowsInv
<1>1. Bytes(sums', Conversations) = Bytes(sums, Conversations) + 1
  <2> DEFINE rest == Conversations \ {c}  before == sums  after == sums'  same == [x \in rest |-> x]
  <2>1. before \in [Conversations -> Nat] /\ after \in [Conversations -> Nat] /\ after[c] = before[c] + 1 /\ before[c] \in Nat
    BY <1>0 DEF BytesTypeOK
  <2>2. same \in [rest -> rest] /\ (\A x, y \in rest : same[x] = same[y] => x = y) /\ (\A y \in rest : \E x \in rest : same[x] = y)
    OBVIOUS
  <2>3. \A x \in rest : after[same[x]] = before[x]
    BY <2>1
  <2>4. rest \in SUBSET Conversations
    OBVIOUS
  <2> HIDE DEF before, after, same
  <2>5. IsFiniteSet(Conversations) /\ Naturals(before, Conversations) /\ Naturals(after, Conversations)
    BY <2>1, BytesAre
  <2>6. Bytes(before, Conversations) = before[c] + Bytes(before, rest)
    BY <2>5, BytesLess
  <2>7. Bytes(after, Conversations) = after[c] + Bytes(after, rest)
    BY <2>5, BytesLess
  <2> HIDE DEF rest
  <2>8. IsFiniteSet(rest) /\ Naturals(before, rest) /\ Bytes(before, rest) \in Nat
    BY <2>1, <2>4, BytesAre
  <2>9. Bytes(after, rest) = Bytes(before, rest)
    BY <2>2, <2>3, <2>8, BytesRenamed
  <2> QED BY <2>1, <2>6, <2>7, <2>8, <2>9 DEF before, after
<1>2. /\ story'.bytes = story.bytes + 1 /\ story'.small = story.small /\ story'.repeats = story.repeats
      /\ story' = [accepted |-> story'.accepted, cut |-> story'.cut, bytes |-> story'.bytes, small |-> story'.small, repeats |-> story'.repeats]
  BY DEF FlowsInv, Shapes
<1>3. BytesTypeOK'
  BY <1>0, <1>2 DEF BytesTypeOK
<1>4. There' = There + 1 /\ Owed' = Owed /\ Failing' = Failing
  <2>1. Owed' = Owed /\ Failing' = Failing /\ Waiting' = Waiting
    BY DEF Owed, Failing, Waiting
  <2> QED BY <1>0, <1>1, <1>2, <2>1, NumbersAre DEF There
<1>5. There \in Nat /\ Owed \in Nat /\ story.bytes \in Nat
  BY <1>0, NumbersAre DEF There
<1>6. Counted'
  BY <1>2, <1>4, <1>5 DEF FlowsInv, Counted
<1>7. Shapes' /\ AtFront'
  BY <1>2 DEF FlowsInv, Shapes, AtFront
<1> QED BY <1>3, <1>6, <1>7 DEF FlowsInv

\* A minute's biggest conversations are buffered, the others counted.
LEMMA Drains == ASSUME FlowsInv, drain PROVE FlowsInv'
<1> DEFINE z == [c \in Conversations |-> 0]
<1>0. BytesTypeOK /\ Shapes /\ AtFront /\ Counted
  BY DEF FlowsInv
<1>1. PICK top \in SUBSET {c \in Conversations : sums[c] > 0} :
      /\ sums' = z
      /\ buffered' = [buffered EXCEPT !.flows = @ \o SetToSeq({[of |-> c, bytes |-> sums[c]] : c \in top})]
      /\ story' = [story EXCEPT !.small = @ + Bytes(sums, {c \in Conversations : c \notin top})]
  BY DEF drain
<1>2. UNCHANGED <<post, late, stored>>
  BY DEF drain
<1> DEFINE q == SetToSeq({[of |-> c, bytes |-> sums[c]] : c \in top})  rest == {c \in Conversations : c \notin top}
<1>3. top \in SUBSET Conversations /\ sums \in [Conversations -> Nat] /\ z \in [Conversations -> Nat]
  BY <1>0 DEF BytesTypeOK
<1>4. q \in Seq(Flow) /\ Bytes(SizesOf(q), DOMAIN q) = Bytes(sums, top)
  BY <1>3, SizesOfSet
<1>5. /\ story'.bytes = story.bytes /\ story'.small = story.small + Bytes(sums, rest) /\ story'.repeats = story.repeats
      /\ story' = [accepted |-> story'.accepted, cut |-> story'.cut, bytes |-> story'.bytes, small |-> story'.small, repeats |-> story'.repeats]
      /\ buffered'.flows = buffered.flows \o q /\ buffered' = [events |-> buffered'.events, flows |-> buffered'.flows]
  BY <1>0, <1>1 DEF Shapes
<1>6. Bytes(sums, Conversations) = Bytes(sums, top) + Bytes(sums, rest) /\ Bytes(sums, rest) \in Nat /\ Bytes(sums, top) \in Nat
  <2>1. top \cap rest = {} /\ top \cup rest = Conversations /\ rest \in SUBSET Conversations
    BY <1>3
  <2>2. IsFiniteSet(top) /\ IsFiniteSet(rest) /\ Naturals(sums, top) /\ Naturals(sums, rest) /\ Bytes(sums, rest) \in Nat /\ Bytes(sums, top) \in Nat
    BY <1>3, <2>1, BytesAre
  <2> HIDE DEF rest
  <2>3. Bytes(sums, top \cup rest) = Bytes(sums, top) + Bytes(sums, rest)
    BY <2>1, <2>2, BytesUnion
  <2> QED BY <2>1, <2>2, <2>3, Zenon
<1>7. Bytes(sums', Conversations) = 0
  <2>1. IsFiniteSet(Conversations) /\ Naturals(z, Conversations) /\ (\A x \in Conversations : z[x] = z[x] + z[x]) /\ Bytes(z, Conversations) \in Nat
    BY <1>3, BytesAre
  <2> HIDE DEF z
  <2>2. Bytes(z, Conversations) = Bytes(z, Conversations) + Bytes(z, Conversations)
    BY <2>1, BytesAdd
  <2> QED BY <1>1, <2>1, <2>2
<1> HIDE DEF z, q, rest
<1>8. buffered.flows \in Seq(Flow) /\ buffered'.flows \in Seq(Flow)
  BY <1>0, <1>4, <1>5 DEF BytesTypeOK
<1>9. Waiting' = Waiting + Bytes(sums, top)
  <2> DEFINE b == buffered.flows  r == buffered'.flows
  <2>1. /\ b \in Seq(Flow) /\ r \in Seq(Flow) /\ Len(r) = Len(b) + Len(q)
        /\ (\A i \in 1..Len(b) : r[i] = b[i]) /\ \A i \in 1..Len(q) : r[Len(b) + i] = q[i]
    BY <1>4, <1>5, <1>8
  <2>2. Waiting = Bytes(SizesOf(b), DOMAIN b) /\ Waiting' = Bytes(SizesOf(r), DOMAIN r)
    BY DEF Waiting
  <2> HIDE DEF b, r
  <2>3. Bytes(SizesOf(r), DOMAIN r) = Bytes(SizesOf(b), DOMAIN b) + Bytes(SizesOf(q), DOMAIN q)
    BY <1>4, <2>1, SizesTogether
  <2> QED BY <1>4, <2>2, <2>3
<1>10. Owed' = Owed /\ Failing' = Failing
  BY <1>2 DEF Owed, Failing
<1>11. BytesTypeOK'
  <2>1. story'.bytes \in Nat /\ story'.small \in Nat /\ story'.repeats \in Nat
    BY <1>0, <1>5, <1>6 DEF BytesTypeOK
  <2> QED BY <1>0, <1>1, <1>2, <1>3, <1>8, <2>1 DEF BytesTypeOK
<1>12. There' = There
  <2>1. stored'.bytes = stored.bytes
    BY <1>2
  <2> QED BY <1>0, <1>5, <1>6, <1>7, <1>9, <2>1, NumbersAre DEF There
<1>13. Counted'
  BY <1>0, <1>2, <1>5, <1>10, <1>12 DEF Counted
<1>14. AtFront'
  <2>1. Len(buffered'.flows) >= Len(buffered.flows) /\ \A i \in 1..Len(buffered.flows) : buffered'.flows[i] = buffered.flows[i]
    BY <1>4, <1>5, <1>8
  <2>2. post # None => Len(post.flows) \in Nat /\ Len(buffered.flows) \in Nat /\ Len(buffered'.flows) \in Nat
    BY <1>0, <1>8 DEF BytesTypeOK
  <2> QED BY <1>0, <1>2, <2>1, <2>2 DEF AtFront
<1>15. Shapes'
  BY <1>0, <1>2, <1>5 DEF Shapes
<1> QED BY <1>11, <1>13, <1>14, <1>15 DEF FlowsInv

\* Of the flows of a post, some are stored, or all.
LEMMA FlowsStored ==
  ASSUME BytesTypeOK, NEW p, p.flows \in Seq(Flow), NEW i, NEW j, Handle(p, i, j)
  PROVE  /\ stored'.bytes \in [Conversations -> Nat]
         /\ Bytes(stored'.bytes, Conversations) >= Bytes(stored.bytes, Conversations)
         /\ All(p, i, j) => Bytes(stored'.bytes, Conversations) = Bytes(stored.bytes, Conversations) + Bytes(SizesOf(p.flows), DOMAIN p.flows)
<1> DEFINE F == FlowSites(p, j)  q == p.flows  D == DOMAIN q  sizes == SizesOf(q)  whose == [k \in D |-> q[k].of]
           new == [c \in Conversations |-> BytesOf(p, c, F)]
<1>1. stored'.bytes = [c \in Conversations |-> stored.bytes[c] + BytesOf(p, c, F)]
  BY DEF Handle, Stores
<1>2. IsFiniteSet(D) /\ Naturals(sizes, D) /\ D = 1..Len(q) /\ Len(q) \in Nat /\ \A k \in D : whose[k] \in Conversations
  <2>1. \A k \in D : q[k] \in Flow
    OBVIOUS
  <2> QED BY <2>1, SizesAreNaturals DEF Flow
<1>3. ASSUME NEW c \in Conversations PROVE BytesOf(p, c, F) \in Nat
  <2> DEFINE A == {k \in D : q[k].of = c /\ siteOf(c.exporter) \in F}
  <2>1. A \in SUBSET D /\ BytesOf(p, c, F) = Bytes(sizes, A)
    BY DEF BytesOf
  <2> HIDE DEF A, sizes, D
  <2>2. IsFiniteSet(A) /\ Naturals(sizes, A)
    BY <1>2, <2>1, FS_Subset DEF Naturals
  <2> QED BY <2>1, <2>2, BytesType
<1>4. stored.bytes \in [Conversations -> Nat] /\ new \in [Conversations -> Nat] /\ stored'.bytes \in [Conversations -> Nat]
      /\ \A c \in Conversations : stored'.bytes[c] = stored.bytes[c] + new[c]
  BY <1>1, <1>3 DEF BytesTypeOK
<1>5. All(p, i, j) => Bytes(new, Conversations) = Bytes(sizes, D)
  <2> SUFFICES ASSUME All(p, i, j) PROVE Bytes(new, Conversations) = Bytes(sizes, D)
    OBVIOUS
  <2>1. F = FlowSites(p, Len(q))
    BY DEF All
  <2>2. \A k \in D : siteOf(q[k].of.exporter) \in F
    BY <1>2, <2>1 DEF FlowSites
  <2> DEFINE group == [c \in Conversations |-> {k \in D : q[k].of = c /\ siteOf(c.exporter) \in F}]
  <2>3. \A c \in Conversations : new[c] = Bytes(sizes, group[c])
    BY DEF BytesOf
  <2>4. (\A c \in Conversations : group[c] \in SUBSET D) /\ \A c \in Conversations : \A k \in D : k \in group[c] <=> whose[k] = c
    BY <2>2
  <2>5. IsFiniteSet(Conversations) /\ IsFiniteSet(D) /\ Naturals(sizes, D) /\ \A k \in D : whose[k] \in Conversations
    BY <1>2, ReceiversAssumption
  <2> HIDE DEF new, D, sizes, whose, group
  <2> QED BY <2>3, <2>4, <2>5, BytesGrouped
<1> HIDE DEF new, D, sizes
<1>6. Bytes(stored'.bytes, Conversations) = Bytes(stored.bytes, Conversations) + Bytes(new, Conversations)
  <2> DEFINE before == stored.bytes  after == stored'.bytes
  <2>1. IsFiniteSet(Conversations) /\ Naturals(before, Conversations) /\ Naturals(after, Conversations) /\ Naturals(new, Conversations)
    BY <1>4, BytesAre
  <2>2. \A c \in Conversations : after[c] = before[c] + new[c]
    BY <1>4
  <2> HIDE DEF before, after
  <2>3. Bytes(after, Conversations) = Bytes(before, Conversations) + Bytes(new, Conversations)
    BY <2>1, <2>2, BytesAdd
  <2> QED BY <2>3 DEF before, after
<1>7. Bytes(new, Conversations) \in Nat /\ Bytes(stored.bytes, Conversations) \in Nat
  BY <1>4, BytesAre
<1> QED BY <1>4, <1>5, <1>6, <1>7 DEF D, sizes

\* A post goes out with what is buffered; none is stored yet.
LEMMA FlowsPosted == ASSUME FlowsInv, flush PROVE FlowsInv'
<1>0. BytesTypeOK /\ Shapes /\ Counted /\ post = None
  BY DEF FlowsInv, flush
<1>1. post' = [events |-> Oldest(buffered.events), flows |-> buffered.flows, answer |-> "none"]
      /\ UNCHANGED <<sums, buffered, late, stored, story>>
  BY DEF flush
<1>2. post'.flows = buffered.flows /\ post'.answer = "none" /\ post' = [events |-> post'.events, flows |-> post'.flows, answer |-> post'.answer]
  BY <1>1
<1>3. BytesTypeOK'
  BY <1>0, <1>1, <1>2 DEF BytesTypeOK
<1>4. Owed = 0 /\ Owed' = 0 /\ ~Failing /\ ~Failing' /\ There' = There
  <2>1. Owed' = 0 /\ ~Failing'
    BY <1>2 DEF Owed, Failing
  <2>2. There' = There
    BY <1>1 DEF There, Waiting
  <2> QED BY <1>0, <2>1, <2>2 DEF Owed, Failing
<1>5. Counted'
  BY <1>0, <1>1, <1>4 DEF Counted
<1>6. AtFront'
  <2>1. buffered.flows \in Seq(Flow)
    BY <1>0 DEF BytesTypeOK
  <2>2. Len(buffered.flows) <= Len(buffered.flows)
    BY <2>1
  <2> QED BY <1>1, <1>2, <2>2 DEF AtFront
<1> QED BY <1>0, <1>1, <1>2, <1>3, <1>5, <1>6 DEF FlowsInv, Shapes

\* More is stored than was: all of a post's flows, if it is to be acknowledged.
LEMMA FlowsMore ==
  ASSUME FlowsInv, stored'.bytes \in [Conversations -> Nat], Bytes(stored'.bytes, Conversations) >= Bytes(stored.bytes, Conversations),
         UNCHANGED <<sums, buffered, story>>, late' \subseteq late,
         \/ post' = post /\ (story.repeats > 0 \/ Failing)
         \/ /\ post # None /\ post.answer = "none" /\ post' # None /\ post'.flows = post.flows
            /\ post' = [events |-> post'.events, flows |-> post'.flows, answer |-> post'.answer]
            /\ \/ post'.answer = "error"
               \/ post'.answer = "ok" /\ Bytes(stored'.bytes, Conversations) = Bytes(stored.bytes, Conversations) + Bytes(SizesOf(post.flows), DOMAIN post.flows)
  PROVE  FlowsInv'
<1>0. BytesTypeOK /\ Shapes /\ Counted /\ AtFront
  BY DEF FlowsInv
<1> DEFINE was == Bytes(stored.bytes, Conversations)  is == Bytes(stored'.bytes, Conversations)
<1>1. BytesTypeOK'
  BY <1>0 DEF BytesTypeOK
<1>2. was \in Nat /\ is \in Nat /\ There \in Nat /\ story.bytes \in Nat /\ Owed \in Nat /\ Owed' \in Nat /\ There' = There + (is - was) /\ is >= was
  <2>1. was \in Nat /\ is \in Nat /\ Bytes(sums, Conversations) \in Nat /\ story.small \in Nat /\ Waiting \in Nat /\ story.bytes \in Nat /\ Owed \in Nat
    BY <1>0, NumbersAre, BytesAre
  <2>2. Bytes(sums', Conversations) = Bytes(sums, Conversations) /\ story'.small = story.small /\ Waiting' = Waiting
    BY DEF Waiting
  <2>3. There = was + Bytes(sums, Conversations) + story.small + Waiting
    BY DEF There
  <2>4. There' = is + Bytes(sums, Conversations) + story.small + Waiting
    BY <2>2 DEF There
  <2>5. Owed' \in Nat
    <3>1. post' # None => post'.flows \in Seq(Flow)
      BY <1>1 DEF BytesTypeOK
    <3> QED BY <3>1, SizesAre DEF Owed
  <2> HIDE DEF was, is
  <2> QED BY <2>1, <2>3, <2>4, <2>5 DEF was, is
<1>3. AtFront' /\ Shapes'
  BY <1>0 DEF AtFront, Shapes
<1>4. CASE post' = post /\ (story.repeats > 0 \/ Failing)
  <2>1. Owed' = Owed /\ Failing' = Failing
    BY <1>4 DEF Owed, Failing
  <2> HIDE DEF was, is
  <2>2. There' >= story.bytes + Owed
    BY <1>0, <1>2 DEF Counted
  <2>3. Counted'
    BY <1>0, <1>4, <2>1, <2>2, NumbersAre DEF Counted
  <2> QED BY <1>1, <1>3, <2>3 DEF FlowsInv
<1>5. CASE ~(post' = post /\ (story.repeats > 0 \/ Failing))
  <2>1. /\ post # None /\ post.answer = "none" /\ post' # None /\ post'.flows = post.flows
        /\ \/ post'.answer = "error"
           \/ post'.answer = "ok" /\ is = was + Bytes(SizesOf(post.flows), DOMAIN post.flows)
    BY <1>5
  <2>2. Owed = 0 /\ ~Failing
    BY <2>1 DEF Owed, Failing
  <2>3. CASE post'.answer = "error"
    <3>1. Owed' = 0 /\ Failing'
      BY <2>1, <2>3 DEF Owed, Failing
    <3> HIDE DEF was, is
    <3>2. There' >= story.bytes + 0
      BY <1>0, <1>2, <2>2 DEF Counted
    <3>3. Counted'
      BY <3>1, <3>2 DEF Counted
    <3> QED BY <1>1, <1>3, <3>3 DEF FlowsInv
  <2>4. CASE post'.answer = "ok" /\ is = was + Bytes(SizesOf(post.flows), DOMAIN post.flows)
    <3>1. Owed' = Bytes(SizesOf(post.flows), DOMAIN post.flows) /\ ~Failing'
      BY <2>1, <2>4 DEF Owed, Failing
    <3>2. is - was = Owed'
      BY <1>2, <2>4, <3>1
    <3> HIDE DEF was, is
    <3>3. There' = There + Owed'
      BY <1>2, <3>2
    <3>4. There >= story.bytes /\ (story.repeats = 0 /\ late = {} => There = story.bytes) /\ (late # {} => story.repeats > 0)
      BY <1>0, <1>2, <2>2 DEF Counted
    <3>5. story.repeats \in Nat
      BY <1>0, NumbersAre
    <3>6. Counted'
      BY <1>2, <3>1, <3>3, <3>4, <3>5 DEF Counted
    <3> QED BY <1>1, <1>3, <3>6 DEF FlowsInv
  <2> QED BY <2>1, <2>3, <2>4
<1> QED BY <1>4, <1>5

\* The engine stores a post it is handed.
LEMMA FlowsHandled == ASSUME FlowsInv, post # None => post.events \in Seq(Nat), EngineHandles PROVE FlowsInv'
<1>1. PICK i \in 0..Len(post.events), j \in 0..Len(post.flows), lost \in BOOLEAN :
        Handle(post, i, j) /\ post' = [post EXCEPT !.answer = IF All(post, i, j) /\ ~lost THEN "ok" ELSE "error"]
  BY DEF EngineHandles
<1>2. post # None /\ post.answer = "none" /\ UNCHANGED <<sums, buffered, late, story>>
  BY DEF EngineHandles
<1>3. BytesTypeOK /\ Shapes
  BY DEF FlowsInv
<1>4. post.flows \in Seq(Flow)
  BY <1>2, <1>3 DEF BytesTypeOK
<1>5. /\ stored'.bytes \in [Conversations -> Nat]
      /\ Bytes(stored'.bytes, Conversations) >= Bytes(stored.bytes, Conversations)
      /\ All(post, i, j) => Bytes(stored'.bytes, Conversations) = Bytes(stored.bytes, Conversations) + Bytes(SizesOf(post.flows), DOMAIN post.flows)
  BY <1>1, <1>3, <1>4, FlowsStored
<1>6. /\ post' = [events |-> post'.events, flows |-> post'.flows, answer |-> post'.answer] /\ post'.flows = post.flows /\ post'.events = post.events
      /\ post'.answer = "error" \/ (post'.answer = "ok" /\ All(post, i, j))
  BY <1>1, <1>2, <1>3 DEF Shapes
<1>7. post' # None
  <2>1. post' \in [events : Seq(Nat), flows : Seq(Flow), answer : {"none", "ok", "error"}]
    BY <1>2, <1>4, <1>6
  <2> QED BY <2>1, ReceiversAssumption DEF Flow
<1> QED BY <1>2, <1>5, <1>6, <1>7, FlowsMore

\* The engine may handle yet what the collector has given up on: the answer, if any, is an error.
LEMMA FlowsGivenUp == ASSUME FlowsInv, post # None => post.events \in Seq(Nat), GivesUpOnPost PROVE FlowsInv'
<1>1. /\ post # None /\ post.answer = "none" /\ post' = [post EXCEPT !.answer = "error"]
      /\ late' = {[events |-> post.events, flows |-> post.flows]} /\ UNCHANGED <<sums, buffered, stored, story>>
  BY DEF GivesUpOnPost
<1>2. BytesTypeOK /\ Shapes /\ AtFront /\ Counted
  BY DEF FlowsInv
<1>3. /\ post' = [events |-> post'.events, flows |-> post'.flows, answer |-> post'.answer] /\ post'.flows = post.flows /\ post'.events = post.events
      /\ post'.answer = "error"
  BY <1>1, <1>2 DEF Shapes
<1>4. post.flows \in Seq(Flow)
  BY <1>1, <1>2 DEF BytesTypeOK
<1>5. post' # None
  <2>1. post' \in [events : Seq(Nat), flows : Seq(Flow), answer : {"none", "ok", "error"}]
    BY <1>1, <1>3, <1>4
  <2> QED BY <2>1, ReceiversAssumption DEF Flow
<1>6. BytesTypeOK' /\ Shapes' /\ AtFront'
  <2>1. BytesTypeOK'
    BY <1>1, <1>2, <1>3, <1>4 DEF BytesTypeOK
  <2> QED BY <1>1, <1>2, <1>3, <2>1 DEF Shapes, AtFront
<1>7. Owed = 0 /\ Owed' = 0 /\ Failing'
  BY <1>1, <1>3, <1>5 DEF Owed, Failing
<1>8. There' = There
  BY <1>1 DEF There, Waiting
<1>9. Counted'
  BY <1>1, <1>2, <1>7, <1>8 DEF Counted
<1> QED BY <1>6, <1>9 DEF FlowsInv

\* A post the collector had given up on arrives after all, and is not stored again.
LEMMA FlowsLate == ASSUME FlowsInv, NEW p \in late, EngineHandlesLate(p) PROVE FlowsInv'
<1>1. PICK i \in 0..Len(p.events), j \in 0..Len(p.flows) : Handle(p, i, j)
  BY DEF EngineHandlesLate
<1>2. late' = late \ {p} /\ UNCHANGED <<sums, buffered, story, post>>
  BY DEF EngineHandlesLate
<1>3. BytesTypeOK /\ Counted
  BY DEF FlowsInv
<1>4. p.flows \in Seq(Flow) /\ (story.repeats > 0 \/ Failing)
  BY <1>3 DEF BytesTypeOK, Counted
<1>5. stored'.bytes \in [Conversations -> Nat] /\ Bytes(stored'.bytes, Conversations) >= Bytes(stored.bytes, Conversations)
  BY <1>1, <1>3, <1>4, FlowsStored
<1> QED BY <1>2, <1>4, <1>5, FlowsMore

\* What was posted is taken off once it is acknowledged; else it is posted again.
LEMMA FlowsAcknowledged == ASSUME FlowsInv, Acknowledge PROVE FlowsInv'
<1>1. post # None /\ post.answer # "none" /\ post' = None /\ UNCHANGED <<sums, late, stored>>
  BY DEF Acknowledge
<1>2. BytesTypeOK /\ Shapes /\ AtFront /\ Counted
  BY DEF FlowsInv
<1>3. Owed' = 0 /\ ~Failing'
  BY <1>1 DEF Owed, Failing
<1>4. /\ There \in Nat /\ Owed \in Nat /\ story.bytes \in Nat /\ story.repeats \in Nat /\ Waiting \in Nat
      /\ Bytes(stored.bytes, Conversations) \in Nat /\ Bytes(sums, Conversations) \in Nat /\ story.small \in Nat
  BY <1>2, NumbersAre DEF There
<1>5. CASE post.answer = "ok"
  <2> DEFINE b == buffered.flows  p == post.flows  r == Drop(b, Len(p))
  <2>1. buffered' = [events |-> Drop(buffered.events, Len(post.events)), flows |-> r] /\ UNCHANGED story
    BY <1>5 DEF Acknowledge
  <2>2. b \in Seq(Flow) /\ p \in Seq(Flow) /\ Len(p) <= Len(b) /\ Len(p) \in Nat /\ Len(b) \in Nat /\ \A n \in 1..Len(p) : p[n] = b[n]
    BY <1>1, <1>2 DEF BytesTypeOK, AtFront
  <2> HIDE DEF b, p
  <2>3. r \in Seq(Flow) /\ Len(r) = Len(b) - Len(p) /\ \A n \in 1..Len(r) : r[n] = b[Len(p) + n]
    BY <2>2 DEF Drop
  <2> HIDE DEF r
  <2>4. Len(b) = Len(p) + Len(r) /\ (\A n \in 1..Len(p) : b[n] = p[n]) /\ \A n \in 1..Len(r) : b[Len(p) + n] = r[n]
    BY <2>2, <2>3
  <2>5. Bytes(SizesOf(b), DOMAIN b) = Bytes(SizesOf(p), DOMAIN p) + Bytes(SizesOf(r), DOMAIN r)
    BY <2>2, <2>3, <2>4, SizesTogether
  <2>6. Waiting = Bytes(SizesOf(b), DOMAIN b) /\ Owed = Bytes(SizesOf(p), DOMAIN p) /\ buffered'.flows = r
    BY <1>1, <1>5, <2>1 DEF Waiting, Owed, b, p
  <2>7. Waiting' = Bytes(SizesOf(r), DOMAIN r) /\ Waiting' \in Nat
    BY <2>3, <2>6, SizesAre DEF Waiting
  <2>8. There = There' + Owed
    <3>1. There = Bytes(stored.bytes, Conversations) + Bytes(sums, Conversations) + story.small + Waiting
      BY DEF There
    <3>2. There' = Bytes(stored.bytes, Conversations) + Bytes(sums, Conversations) + story.small + Waiting'
      BY <1>1, <2>1 DEF There
    <3> QED BY <1>4, <2>5, <2>6, <2>7, <3>1, <3>2
  <2>9. There' \in Nat
    BY <1>1, <1>4, <2>1, <2>7 DEF There
  <2>10. ~Failing
    BY <1>5 DEF Failing
  <2>11. Counted'
    BY <1>1, <1>2, <1>3, <1>4, <2>1, <2>8, <2>9, <2>10 DEF Counted
  <2>12. BytesTypeOK'
    BY <1>1, <1>2, <2>1, <2>3, <2>6 DEF BytesTypeOK
  <2>13. Shapes' /\ AtFront'
    BY <1>1, <1>2, <2>1 DEF Shapes, AtFront
  <2> QED BY <2>11, <2>12, <2>13 DEF FlowsInv
<1>6. CASE post.answer # "ok"
  <2>1. UNCHANGED buffered /\ story' = [story EXCEPT !.repeats = @ + 1]
    BY <1>6 DEF Acknowledge
  <2>2. /\ story'.bytes = story.bytes /\ story'.small = story.small /\ story'.repeats = story.repeats + 1
        /\ story' = [accepted |-> story'.accepted, cut |-> story'.cut, bytes |-> story'.bytes, small |-> story'.small, repeats |-> story'.repeats]
    BY <1>2, <2>1 DEF Shapes
  <2>3. There' = There /\ Owed = 0
    BY <1>1, <1>6, <2>1, <2>2 DEF There, Waiting, Owed
  <2>4. Counted'
    BY <1>2, <1>3, <1>4, <2>2, <2>3 DEF Counted
  <2>5. BytesTypeOK'
    BY <1>1, <1>2, <1>4, <2>1, <2>2 DEF BytesTypeOK
  <2>6. Shapes' /\ AtFront'
    BY <1>1, <1>2, <2>1, <2>2 DEF Shapes, AtFront
  <2> QED BY <2>4, <2>5, <2>6 DEF FlowsInv
<1> QED BY <1>5, <1>6

\* Every step keeps the books of the flows.
LEMMA FlowsStep == FlowsInv /\ (post # None => post.events \in Seq(Nat)) /\ [ReceiversNext]_rvars => FlowsInv'
<1> SUFFICES ASSUME FlowsInv, post # None => post.events \in Seq(Nat), [ReceiversNext]_rvars PROVE FlowsInv'
  OBVIOUS
<1>0. Shapes
  BY DEF FlowsInv
<1>1. CASE UNCHANGED rvars
  BY <1>0, <1>1, FlowsRest DEF rvars, Shapes
<1>2. CASE SecondPasses \/ MinutePasses \/ SaveRanges
  <2>1. UNCHANGED <<sums, buffered, post, late, stored, story>>
    BY <1>2 DEF SecondPasses, MinutePasses, SaveRanges
  <2> QED BY <1>0, <2>1, FlowsRest DEF Shapes
<1>3. ASSUME NEW d \in Devices, EngineReceives(d) PROVE FlowsInv'
  <2>1. UNCHANGED <<sums, buffered, post, late, stored, story>>
    BY <1>3 DEF EngineReceives
  <2> QED BY <1>0, <2>1, FlowsRest DEF Shapes
<1>4. ASSUME NEW i \in inserting, NEW fails \in BOOLEAN, storeEvents(i, fails) PROVE FlowsInv'
  <2>1. UNCHANGED <<sums, buffered, post, late, story>> /\ stored' = IF fails THEN stored ELSE [stored EXCEPT !.events = @ \cup {<<i.event, siteFor(i.lookup, from[i.event])>>}]
    BY <1>4 DEF storeEvents
  <2>2. stored'.bytes = stored.bytes
    BY <2>1
  <2> QED BY <1>0, <2>1, <2>2, FlowsRest DEF Shapes
<1>5. ASSUME NEW d \in Devices, CollectorReceives(d) PROVE FlowsInv'
  <2> DEFINE q == Append(buffered.events, Len(from) + 1)
  <2>1. /\ UNCHANGED <<sums, post, late, stored>> /\ buffered' = [buffered EXCEPT !.events = Trimmed(q)]
        /\ story' = [story EXCEPT !.accepted = @ \cup {Len(from) + 1}, !.cut = @ + Len(q) - Len(Trimmed(q))]
    BY <1>5 DEF CollectorReceives
  <2> HIDE DEF q
  <2>2. /\ buffered'.flows = buffered.flows /\ buffered' = [events |-> buffered'.events, flows |-> buffered'.flows]
        /\ story'.bytes = story.bytes /\ story'.small = story.small /\ story'.repeats = story.repeats
        /\ story' = [accepted |-> story'.accepted, cut |-> story'.cut, bytes |-> story'.bytes, small |-> story'.small, repeats |-> story'.repeats]
    BY <1>0, <2>1 DEF Shapes
  <2>3. Shapes'
    BY <1>0, <2>1, <2>2 DEF Shapes
  <2> QED BY <2>1, <2>2, <2>3, FlowsRest
<1>6. ASSUME NEW c \in Conversations, NEW kind \in {"v5", "sflow", "template", "data"}, handlePacket(c, kind) PROVE FlowsInv'
  <2>1. UNCHANGED <<buffered, post, late, stored>>
    BY <1>6 DEF handlePacket
  <2>2. \/ UNCHANGED <<sums, story>>
        \/ sums' = [sums EXCEPT ![c] = @ + 1] /\ story' = [story EXCEPT !.bytes = @ + 1]
    BY <1>6 DEF handlePacket
  <2>3. CASE UNCHANGED <<sums, story>>
    BY <1>0, <2>1, <2>3, FlowsRest DEF Shapes
  <2>4. CASE sums' = [sums EXCEPT ![c] = @ + 1] /\ story' = [story EXCEPT !.bytes = @ + 1]
    BY <2>1, <2>4, FlowsSummed
  <2> QED BY <2>2, <2>3, <2>4
<1> QED BY <1>1, <1>2, <1>3, <1>4, <1>5, <1>6, Drains, FlowsPosted, FlowsHandled, FlowsGivenUp, FlowsLate, FlowsAcknowledged DEF ReceiversNext

-----------------------------------------------------------------------------
\* Then what has come in is what the collector has, what is under way and what is stored.
LEMMA FlowsAddUp == FlowsInv => BytesAddUp
<1> SUFFICES ASSUME FlowsInv PROVE BytesAddUp
  OBVIOUS
<1>1. There \in Nat /\ Owed \in Nat /\ story.bytes \in Nat /\ Counted
  BY NumbersAre DEF FlowsInv, There
<1>2. There >= story.bytes
  BY <1>1 DEF Counted
<1>3. story.repeats = 0 /\ late = {} /\ post = None => There = story.bytes
  BY <1>1 DEF Counted, Owed, Failing
<1> QED BY <1>2, <1>3 DEF BytesAddUp, There

-----------------------------------------------------------------------------
Nowhere == [site |-> None, holds |-> {}, prefix |-> -1]
\* The best of the first k ranges.
IsBest(best, ip, rs) == best = [k \in 0..Len(rs) |-> IF k = 0 THEN Nowhere ELSE Better(best[k - 1], rs[k], ip)]

\* The loop over the ranges has a value at every turn.
LEMMA BestExists ==
  ASSUME NEW ip, NEW rs, Len(rs) \in Nat
  PROVE  \E best : IsBest(best, ip, rs)
<1> DEFINE n == Len(rs)  A == {Nowhere} \cup {rs[k] : k \in 1..n}  next == [x \in (1..n) \X A |-> Better(x[2], rs[x[1]], ip)]
<1>1. (\A k \in 1..n, a \in A : next[<<k, a>>] \in A) /\ Nowhere \in A
  BY DEF Better
<1>2. \A k \in 1..n, r \in A : next[<<k, r>>] = Better(r, rs[k], ip)
  OBVIOUS
<1> HIDE DEF A, next
<1>3. PICK best : best = [k \in 0..n |-> IF k = 0 THEN Nowhere ELSE next[<<k, best[k - 1]>>]] /\ best \in [0..n -> A]
  <2>1. n \in Nat
    OBVIOUS
  <2> HIDE DEF n
  <2> QED BY <1>1, <2>1, StepByStep, ZenonT(40)
<1>4. ASSUME NEW k \in 0..n PROVE best[k] = IF k = 0 THEN Nowhere ELSE Better(best[k - 1], rs[k], ip)
  <2>1. k # 0 => k \in 1..n /\ k - 1 \in 0..n
    OBVIOUS
  <2>2. k # 0 => best[k - 1] \in A
    BY <1>3, <2>1
  <2>3. best[k] = IF k = 0 THEN Nowhere ELSE next[<<k, best[k - 1]>>]
    BY <1>3
  <2> QED BY <1>2, <2>1, <2>2, <2>3
<1>5. best = [k \in 0..n |-> best[k]]
  BY <1>3
<1>6. best = [k \in 0..n |-> IF k = 0 THEN Nowhere ELSE Better(best[k - 1], rs[k], ip)]
  BY <1>4, <1>5
<1> QED BY <1>6 DEF IsBest

\* siteForAddress is that loop.
LEMMA SiteIsBest ==
  ASSUME NEW ip, NEW rs
  PROVE  siteForAddress(ip, rs) = (CHOOSE best : IsBest(best, ip, rs))[Len(rs)].site
  BY DEF siteForAddress, IsBest, Nowhere

\* After any number of ranges it has the most specific of them, or none holds the address.
LEMMA BestIsMostSpecific ==
  ASSUME NEW ip, NEW rs, rs \in Seq(Range(rs)), \A r \in Range(rs) : r.prefix \in Nat, NEW best, IsBest(best, ip, rs)
  PROVE  \/ best[Len(rs)] = Nowhere /\ MostSpecific(ip, rs) = {}
         \/ best[Len(rs)] \in MostSpecific(ip, rs)
<1> DEFINE n == Len(rs)
    Found(k) == \/ best[k] = Nowhere /\ \A i \in 1..k : ip \notin rs[i].holds
                \/ \E j \in 1..k : best[k] = rs[j] /\ ip \in rs[j].holds /\ \A i \in 1..k : ip \in rs[i].holds => rs[i].prefix <= rs[j].prefix
    Good == {k \in 0..n : Found(k)}
<1>1. n \in Nat /\ Range(rs) = {rs[i] : i \in 1..n}
  BY DEF Range
<1>1a. \A i \in 1..n : rs[i].prefix \in Nat
  BY <1>1
<1>2. 0 \in Good
  BY <1>1 DEF IsBest
<1>3. ASSUME NEW k \in 0..(n - 1), k \in Good PROVE k + 1 \in Good
  <2>1. Found(k) /\ k + 1 \in 0..n /\ k + 1 # 0 /\ (k + 1) - 1 = k /\ k + 1 \in 1..n
    <3>1. Found(k)
      BY <1>3
    <3>2. n \in Nat
      BY <1>1
    <3> HIDE DEF Found, n
    <3>3. k + 1 \in 0..n /\ k + 1 # 0 /\ (k + 1) - 1 = k /\ k + 1 \in 1..n
      BY <3>2
    <3> QED BY <3>1, <3>3
  <2>2. best[k + 1] = Better(best[k], rs[k + 1], ip)
    BY <2>1 DEF IsBest
  <2> DEFINE r == rs[k + 1]
  <2>2a. r.prefix \in Nat /\ 1..(k + 1) = 1..k \cup {k + 1} /\ 1..k \subseteq 1..n
    <3>1. n \in Nat /\ k + 1 \in 1..n
      BY <1>1, <2>1
    <3>2. rs[k + 1].prefix \in Nat
      BY <1>1a, <3>1
    <3> HIDE DEF Found, n
    <3>3. 1..(k + 1) = 1..k \cup {k + 1} /\ 1..k \subseteq 1..n
      BY <3>1
    <3> QED BY <3>2, <3>3
  <2>3. CASE ip \notin r.holds
    <3>1. best[k + 1] = best[k]
      BY <2>2, <2>3 DEF Better
    <3>2. Found(k + 1)
      BY <2>1, <2>2a, <2>3, <3>1
    <3> QED BY <2>1, <3>2
  <2>4. CASE ip \in r.holds
    <3>1. CASE best[k] = Nowhere /\ \A i \in 1..k : ip \notin rs[i].holds
      <4>1. ~(r.prefix <= best[k].prefix)
        BY <2>2a, <3>1 DEF Nowhere
      <4>2. best[k + 1] = r
        BY <2>2, <2>4, <4>1 DEF Better
      <4>3. Found(k + 1)
        BY <2>1, <2>2a, <2>4, <3>1, <4>2
      <4> QED BY <2>1, <4>3
    <3>2. ASSUME NEW j \in 1..k, best[k] = rs[j], ip \in rs[j].holds, \A i \in 1..k : ip \in rs[i].holds => rs[i].prefix <= rs[j].prefix
          PROVE  Found(k + 1)
      <4>1. rs[j].prefix \in Nat /\ \A i \in 1..k : rs[i].prefix \in Nat
        BY <1>1a, <2>2a
      <4>2. CASE r.prefix <= rs[j].prefix
        <5>1. best[k + 1] = rs[j] /\ j \in 1..(k + 1)
          BY <2>2, <2>2a, <3>2, <4>2 DEF Better
        <5>2. \A i \in 1..(k + 1) : ip \in rs[i].holds => rs[i].prefix <= rs[j].prefix
          BY <2>2a, <3>2, <4>2
        <5> QED BY <3>2, <5>1, <5>2
      <4>3. CASE ~(r.prefix <= rs[j].prefix)
        <5>1. best[k + 1] = rs[k + 1] /\ k + 1 \in 1..(k + 1)
          BY <2>2, <2>4, <3>2, <4>3 DEF Better
        <5>2. \A i \in 1..(k + 1) : ip \in rs[i].holds => rs[i].prefix <= rs[k + 1].prefix
          BY <2>2a, <3>2, <4>1, <4>3
        <5> QED BY <2>4, <5>1, <5>2
      <4> QED BY <4>2, <4>3
    <3> QED BY <2>1, <3>1, <3>2
  <2> QED BY <2>3, <2>4
<1> HIDE DEF Good
<1>4. n \in Good
  <2> HIDE DEF n
  <2> QED BY <1>1, <1>2, <1>3, NumberInduction
<1>5. Found(n)
  BY <1>4 DEF Good
<1>6. CASE best[n] = Nowhere /\ \A i \in 1..n : ip \notin rs[i].holds
  <2>1. MostSpecific(ip, rs) = {}
    BY <1>1, <1>6 DEF MostSpecific
  <2> QED BY <1>6, <2>1
<1>7. ASSUME NEW j \in 1..n, best[n] = rs[j], ip \in rs[j].holds, \A i \in 1..n : ip \in rs[i].holds => rs[i].prefix <= rs[j].prefix
      PROVE  best[n] \in MostSpecific(ip, rs)
  <2>1. rs[j] \in Range(rs) /\ \A q \in Range(rs) : ip \in q.holds => q.prefix <= rs[j].prefix
    BY <1>1, <1>7
  <2> QED BY <1>7, <2>1 DEF MostSpecific
<1> QED BY <1>5, <1>6, <1>7

\* So the site of an address is that of a most specific range that holds it.
LEMMA MostSpecificWins == ASSUME ranges \in RangeLists PROVE RightSite
<1> SUFFICES ASSUME NEW d \in Devices
             PROVE  siteForAddress(d, ranges) \in IF MostSpecific(d, ranges) = {} THEN {None} ELSE {r.site : r \in MostSpecific(d, ranges)}
  BY DEF RightSite
<1> DEFINE best == CHOOSE best : IsBest(best, d, ranges)
<1>1. ranges \in Seq(Range(ranges)) /\ (\A r \in Range(ranges) : r.prefix \in Nat)
  BY ReceiversAssumption
<1>1a. Len(ranges) \in Nat
  BY <1>1
<1>2. IsBest(best, d, ranges)
  BY <1>1a, BestExists
<1>3. siteForAddress(d, ranges) = best[Len(ranges)].site
  BY SiteIsBest
<1> HIDE DEF best
<1>4. \/ best[Len(ranges)] = Nowhere /\ MostSpecific(d, ranges) = {}
      \/ best[Len(ranges)] \in MostSpecific(d, ranges)
  BY <1>1, <1>2, BestIsMostSpecific
<1> QED BY <1>3, <1>4 DEF Nowhere

\* No step makes ranges that are no list of them.
LEMMA RangesStay == ranges \in RangeLists /\ [ReceiversNext]_rvars => ranges' \in RangeLists
<1> SUFFICES ASSUME ranges \in RangeLists, [ReceiversNext]_rvars PROVE ranges' \in RangeLists
  OBVIOUS
<1>1. UNCHANGED ranges \/ ranges' \in RangeLists
  BY DEF ReceiversNext, rvars, SecondPasses, MinutePasses, SaveRanges, drain, flush, EngineHandles, GivesUpOnPost, Acknowledge, EngineReceives,
         CollectorReceives, handlePacket, storeEvents, EngineHandlesLate
<1> QED BY <1>1

-----------------------------------------------------------------------------
(* What the collector has received.  While a post is out, k of its events    *)
(* have been cut off behind it, and as many newer ones will go in their      *)
(* place: they have been counted already.                                    *)
EventsTypeOK ==
  /\ from \in Seq(Devices)
  /\ buffered = [events |-> buffered.events, flows |-> buffered.flows]
  /\ buffered.events \in Seq(Nat) /\ Len(buffered.events) <= MAX_BUFFERED_EVENTS
  /\ story = [accepted |-> story.accepted, cut |-> story.cut, bytes |-> story.bytes, small |-> story.small, repeats |-> story.repeats]
  /\ story.accepted \in SUBSET Nat /\ IsFiniteSet(story.accepted) /\ story.cut \in Nat
  /\ stored = [events |-> stored.events, bytes |-> stored.bytes]
  /\ post # None => post = [events |-> post.events, flows |-> post.flows, answer |-> post.answer] /\ post.events \in Seq(Nat)
PostedBefore(k) ==
  /\ k \in 0..Len(post.events)
  /\ \A n \in 1..Len(post.events) : n > k => n - k <= Len(buffered.events) /\ buffered.events[n - k] = post.events[n]
  /\ Cardinality(Missing \ Range(post.events)) + k <= story.cut
PostKnown == post # None => (\E k \in Nat : PostedBefore(k)) /\ (post.answer = "ok" => Range(post.events) \subseteq Stored)
EventsInv == EventsTypeOK /\ EventsKept /\ PostKnown

\* At the start nothing is buffered, dropped or missing.
LEMMA EventsStart == ReceiversInit => EventsInv
<1> SUFFICES ASSUME ReceiversInit PROVE EventsInv
  OBVIOUS
<1>1. EventsTypeOK /\ story.accepted = {} /\ story.cut = 0
  <2>1. /\ from = <<>> /\ buffered = [events |-> <<>>, flows |-> <<>>] /\ post = None /\ stored = [events |-> {}, bytes |-> [c \in Conversations |-> 0]]
        /\ story = [accepted |-> {}, cut |-> 0, bytes |-> 0, small |-> 0, repeats |-> 0]
    BY DEF ReceiversInit
  <2>2. IsFiniteSet({})
    BY FS_EmptySet
  <2> QED BY <2>1, <2>2, ReceiversAssumption DEF EventsTypeOK
<1>2. EventsKept
  <2>1. Missing = {}
    BY <1>1 DEF Missing
  <2> QED BY <1>1, <2>1, FS_EmptySet DEF EventsKept
<1> QED BY <1>1, <1>2 DEF EventsInv, PostKnown, ReceiversInit

\* Of the numbers up to a number there are finitely many.
LEMMA FiniteMissing ==
  ASSUME EventsTypeOK, NEW S \in SUBSET story.accepted
  PROVE  IsFiniteSet(S) /\ Cardinality(S) \in Nat
<1>1. IsFiniteSet(S)
  BY FS_Subset DEF EventsTypeOK
<1> QED BY <1>1, FS_CardinalityType

\* Taking one out leaves one fewer.
LEMMA FewerMissing ==
  ASSUME EventsTypeOK, NEW S \in SUBSET story.accepted, NEW T \in SUBSET S
  PROVE  Cardinality(T) <= Cardinality(S)
<1>1. IsFiniteSet(S)
  BY FiniteMissing
<1> QED BY <1>1, FS_Subset

\* Storing, or giving up, loses nothing.
LEMMA NothingLost ==
  ASSUME EventsInv, EventsTypeOK', buffered'.events = buffered.events, story'.accepted = story.accepted, story'.cut = story.cut, Stored \subseteq Stored',
         post' = post \/ (post # None /\ post'.events = post.events /\ (post'.answer = "ok" => Range(post.events) \subseteq Stored'))
  PROVE  EventsInv'
<1>1. EventsTypeOK /\ EventsKept
  BY DEF EventsInv
<1>2. Missing' \subseteq Missing /\ Missing \subseteq story.accepted
  BY DEF Missing
<1>3. Cardinality(Missing') <= Cardinality(Missing) /\ Cardinality(Missing') \in Nat /\ Cardinality(Missing) \in Nat /\ story.cut \in Nat
  BY <1>1, <1>2, FewerMissing, FiniteMissing DEF EventsTypeOK
<1>4. EventsKept'
  BY <1>1, <1>3 DEF EventsKept
<1>5. ASSUME post' # None PROVE PostKnown'
  <2>1. post # None /\ post'.events = post.events /\ (post'.answer = "ok" => Range(post.events) \subseteq Stored')
    BY <1>5 DEF EventsInv, PostKnown
  <2>2. PICK k \in Nat : PostedBefore(k)
    BY <2>1 DEF EventsInv, PostKnown
  <2>3. Cardinality(Missing' \ Range(post.events)) <= Cardinality(Missing \ Range(post.events))
        /\ Cardinality(Missing' \ Range(post.events)) \in Nat /\ Cardinality(Missing \ Range(post.events)) \in Nat
    BY <1>1, <1>2, FewerMissing, FiniteMissing
  <2>4. Cardinality(Missing' \ Range(post.events)) + k <= story.cut
    BY <1>3, <2>2, <2>3 DEF PostedBefore
  <2>5. PostedBefore(k)'
    BY <2>1, <2>2, <2>4 DEF PostedBefore
  <2> QED BY <2>1, <2>5 DEF PostKnown
<1> QED BY <1>4, <1>5 DEF EventsInv, PostKnown

\* One more event in a buffer: t of them are cut off, one if it is full.
LEMMA TrimsOne ==
  ASSUME NEW b \in Seq(Nat), NEW e \in Nat, Len(b) <= MAX_BUFFERED_EVENTS
  PROVE  \E t \in {0, 1} :
           /\ t = 1 => Len(b) = MAX_BUFFERED_EVENTS
           /\ Trimmed(Append(b, e)) \in Seq(Nat) /\ Len(Trimmed(Append(b, e))) = Len(b) + 1 - t
           /\ Len(Trimmed(Append(b, e))) <= MAX_BUFFERED_EVENTS
           /\ \A n \in 1..(Len(b) + 1 - t) : Trimmed(Append(b, e))[n] = Append(b, e)[n + t]
<1> DEFINE q == Append(b, e)
<1>1. /\ q \in Seq(Nat) /\ Len(q) = Len(b) + 1 /\ Len(b) \in Nat /\ MAX_BUFFERED_EVENTS \in Nat
  BY ReceiversAssumption
<1> HIDE DEF q
<1>2. CASE Len(q) > MAX_BUFFERED_EVENTS
  <2>1. Len(b) = MAX_BUFFERED_EVENTS /\ Trimmed(q) = SubSeq(q, 2, Len(b) + 1)
    <3>1. Len(b) = MAX_BUFFERED_EVENTS
      BY <1>1, <1>2
    <3>2. Len(q) - MAX_BUFFERED_EVENTS + 1 = 2
      BY <1>1, <3>1
    <3> QED BY <1>1, <1>2, <3>1, <3>2, Zenon DEF Trimmed
  <2>2. Trimmed(q) \in Seq(Nat) /\ Len(Trimmed(q)) = Len(b) /\ \A n \in 1..Len(b) : Trimmed(q)[n] = q[n + 1]
    BY <1>1, <2>1
  <2> QED BY <1>1, <2>1, <2>2 DEF q
<1>3. CASE ~(Len(q) > MAX_BUFFERED_EVENTS)
  <2>1. Trimmed(q) = SubSeq(q, 1, Len(q))
    BY <1>3, Zenon DEF Trimmed
  <2>2. Trimmed(q) \in Seq(Nat) /\ Len(Trimmed(q)) = Len(q) /\ \A n \in 1..Len(q) : Trimmed(q)[n] = q[n]
    BY <1>1, <2>1
  <2> QED BY <1>1, <1>3, <2>2 DEF q
<1> QED BY <1>2, <1>3

\* One event comes in; if the buffer is full the oldest goes.
LEMMA Comes ==
  ASSUME EventsInv, NEW d \in Devices, CollectorReceives(d)
  PROVE  EventsInv'
<1> DEFINE e == Len(from) + 1  b == buffered.events  q == Append(b, e)  M == MAX_BUFFERED_EVENTS
<1>1. /\ from' = Append(from, d) /\ buffered' = [buffered EXCEPT !.events = Trimmed(q)] /\ UNCHANGED <<post, stored>>
      /\ story' = [story EXCEPT !.accepted = @ \cup {e}, !.cut = @ + Len(q) - Len(Trimmed(q))]
  BY DEF CollectorReceives
<1>2. EventsTypeOK /\ from \in Seq(Devices) /\ e \in Nat /\ b \in Seq(Nat) /\ Len(b) <= M /\ M \in Nat /\ Len(b) \in Nat
  BY ReceiversAssumption DEF EventsInv, EventsTypeOK
<1> HIDE DEF b, e
<1>3. q \in Seq(Nat) /\ Len(q) = Len(b) + 1 /\ q[Len(b) + 1] = e /\ \A n \in 1..Len(b) : q[n] = b[n]
  BY <1>2
<1>4. PICK t \in {0, 1} : /\ Trimmed(q) \in Seq(Nat) /\ Len(Trimmed(q)) = Len(b) + 1 - t /\ Len(Trimmed(q)) <= M
                         /\ \A n \in 1..(Len(b) + 1 - t) : Trimmed(q)[n] = q[n + t]
  BY <1>2, TrimsOne
<1> HIDE DEF q
<1> DEFINE r == Trimmed(q)
<1>5. buffered' = [events |-> r, flows |-> buffered.flows] /\ buffered'.events = r
  BY <1>1, <1>2 DEF EventsTypeOK
<1>6. t \in {0, 1} /\ Len(q) - Len(r) = t /\ Len(r) = Len(b) + 1 - t
  BY <1>2, <1>3, <1>4
<1> HIDE DEF r
<1>7. /\ story' = [accepted |-> story.accepted \cup {e}, cut |-> story.cut + t, bytes |-> story.bytes, small |-> story.small, repeats |-> story.repeats]
      /\ story'.accepted = story.accepted \cup {e} /\ story'.cut = story.cut + t /\ story.cut \in Nat
  <2>1. story.cut + Len(q) - Len(r) = story.cut + t /\ story.cut \in Nat
    BY <1>2, <1>3, <1>4, <1>6 DEF EventsTypeOK, r
  <2>2. story' = [story EXCEPT !.accepted = story.accepted \cup {e}, !.cut = story.cut + Len(q) - Len(r)]
    BY <1>1 DEF r
  <2> QED BY <1>2, <2>1, <2>2 DEF EventsTypeOK
<1>8. EventsTypeOK'
  <2>1. IsFiniteSet(story.accepted \cup {e})
    BY <1>2, FS_AddElement DEF EventsTypeOK
  <2>2. story'.accepted \in SUBSET Nat /\ story'.cut \in Nat
    <3>1. story'.accepted \in SUBSET Nat
      BY <1>2, <1>7 DEF EventsTypeOK
    <3>2. story'.cut \in Nat
      BY <1>7
    <3> QED BY <3>1, <3>2
  <2>3. from' \in Seq(Devices)
    BY <1>1, <1>2
  <2>4. r \in Seq(Nat) /\ Len(r) <= M
    BY <1>4 DEF r
  <2> QED BY <1>1, <1>2, <1>5, <1>7, <2>1, <2>2, <2>3, <2>4 DEF EventsTypeOK
\* What is not there any more is the oldest one.
<1>9. Missing' \subseteq Missing \cup (IF t = 1 THEN {q[1]} ELSE {})
  <2>1. Stored' = Stored
    BY <1>1 DEF Stored
  <2>2. ASSUME NEW x \in Range(b) \cup {e} PROVE x \in Range(r) \/ (t = 1 /\ x = q[1])
    <3>1. PICK n \in 1..(Len(b) + 1) : x = q[n]
      <4>1. CASE x = e
        BY <1>2, <1>3, <4>1
      <4>2. CASE x \in Range(b)
        <5>1. PICK n \in DOMAIN b : x = b[n]
          BY <4>2 DEF Range
        <5> QED BY <1>2, <1>3, <5>1
      <4> QED BY <4>1, <4>2
    <3>2. CASE n = 1 /\ t = 1
      BY <3>1, <3>2
    <3>3. CASE ~(n = 1 /\ t = 1)
      <4>1. n - t \in 1..(Len(b) + 1 - t) /\ (n - t) + t = n
        BY <1>2, <1>6, <3>3
      <4>2. r[n - t] = x /\ n - t \in DOMAIN r
        BY <1>2, <1>4, <1>6, <3>1, <4>1 DEF r
      <4> QED BY <4>2 DEF Range
    <3> QED BY <3>2, <3>3
  <2> QED BY <1>5, <1>7, <2>1, <2>2 DEF Missing, b
<1>10. Missing \subseteq story.accepted /\ Missing' \subseteq story'.accepted
  BY DEF Missing
<1>11. ASSUME NEW S \in SUBSET Missing', NEW T \in SUBSET Missing, S \subseteq T \cup (IF t = 1 THEN {q[1]} ELSE {})
       PROVE  Cardinality(S) <= Cardinality(T) + t /\ Cardinality(S) \in Nat /\ Cardinality(T) \in Nat
  <2>1. IsFiniteSet(T) /\ Cardinality(T) \in Nat
    BY <1>2, <1>10, FiniteMissing
  <2>2. CASE t = 1
    <3>1. IsFiniteSet(T \cup {q[1]}) /\ Cardinality(T \cup {q[1]}) <= Cardinality(T) + 1
      BY <2>1, FS_AddElement
    <3>2. S \subseteq T \cup {q[1]}
      BY <1>11, <2>2
    <3>3. IsFiniteSet(S) /\ Cardinality(S) <= Cardinality(T \cup {q[1]})
      BY <3>1, <3>2, FS_Subset
    <3>4. Cardinality(S) \in Nat /\ Cardinality(T \cup {q[1]}) \in Nat
      BY <3>1, <3>3, FS_CardinalityType
    <3> QED BY <2>1, <2>2, <3>1, <3>3, <3>4
  <2>3. CASE t = 0
    <3>1. S \subseteq T
      BY <1>11, <2>3
    <3>2. IsFiniteSet(S) /\ Cardinality(S) <= Cardinality(T)
      BY <2>1, <3>1, FS_Subset
    <3> QED BY <2>1, <2>3, <3>2, FS_CardinalityType
  <2> QED BY <1>6, <2>2, <2>3
<1>12. EventsKept'
  <2>1. Cardinality(Missing) <= story.cut
    BY DEF EventsInv, EventsKept
  <2>2. Cardinality(Missing') <= Cardinality(Missing) + t /\ Cardinality(Missing') \in Nat /\ Cardinality(Missing) \in Nat
    BY <1>9, <1>11
  <2>3. Cardinality(Missing') <= story'.cut
    BY <1>6, <1>7, <2>1, <2>2
  <2> QED BY <2>3 DEF EventsKept
\* A posted one goes first; after the last of them, those that have come since.
<1>13. ASSUME post' # None PROVE PostKnown'
  <2>1. post # None /\ post' = post /\ (post.answer = "ok" => Range(post.events) \subseteq Stored) /\ Stored' = Stored
    BY <1>1, <1>13 DEF EventsInv, PostKnown, Stored
  <2>2. PICK k \in Nat : PostedBefore(k)
    BY <2>1 DEF EventsInv, PostKnown
  <2> DEFINE p == post.events  S == Missing' \ Range(p)  T == Missing \ Range(p)
  <2>3. p \in Seq(Nat) /\ Len(p) \in Nat
    BY <1>2, <2>1 DEF EventsTypeOK
  <2>4. /\ k \in 0..Len(p) /\ Cardinality(T) + k <= story.cut
        /\ \A n \in 1..Len(p) : n > k => n - k <= Len(b) /\ b[n - k] = p[n]
    BY <2>2 DEF PostedBefore, b
  <2>5. CASE t = 1 /\ k < Len(p)
    <3>1. q[1] = p[k + 1] /\ 1 <= Len(b)
      BY <1>2, <1>3, <2>3, <2>4, <2>5, SMTT(30)
    <3>2. q[1] \in Range(p)
      BY <2>3, <2>4, <2>5, <3>1 DEF Range
    <3>3. S \subseteq T
      BY <1>9, <3>2
    <3>4. Cardinality(S) <= Cardinality(T) /\ Cardinality(S) \in Nat /\ Cardinality(T) \in Nat
      <4>1. T \in SUBSET story.accepted /\ S \in SUBSET T
        BY <1>10, <3>3
      <4>2. S \in SUBSET story.accepted
        BY <4>1
      <4> HIDE DEF S, T
      <4> QED BY <1>2, <4>1, <4>2, FewerMissing, FiniteMissing
    <3>5. Cardinality(S) + (k + 1) <= story'.cut
      <4> HIDE DEF S, T
      <4> QED BY <1>7, <2>4, <2>5, <3>4
    <3>6. \A n \in 1..Len(p) : n > k + 1 => n - (k + 1) <= Len(r) /\ r[n - (k + 1)] = p[n]
      <4> SUFFICES ASSUME NEW n \in 1..Len(p), n > k + 1 PROVE n - (k + 1) <= Len(r) /\ r[n - (k + 1)] = p[n]
        OBVIOUS
      <4>1. n - k \in 1..Len(b) /\ b[n - k] = p[n]
        BY <1>2, <2>3, <2>4
      <4>2. n - (k + 1) \in 1..(Len(b) + 1 - t) /\ n - (k + 1) + t = n - k
        BY <1>2, <2>3, <2>4, <2>5, <4>1
      <4>3. r[n - (k + 1)] = q[n - (k + 1) + t]
        BY <1>4, <4>2 DEF r
      <4>4. q[n - (k + 1) + t] = q[n - k] /\ q[n - k] = b[n - k]
        BY <1>3, <4>1, <4>2
      <4>5. n - (k + 1) <= Len(r)
        BY <1>6, <4>2
      <4>6. r[n - (k + 1)] = p[n]
        BY <4>1, <4>3, <4>4, Zenon
      <4> QED BY <4>5, <4>6
    <3>7. k + 1 \in Nat /\ k + 1 \in 0..Len(p)
      BY <2>3, <2>4, <2>5
    <3>8. PostedBefore(k + 1)'
      BY <1>5, <2>1, <3>5, <3>6, <3>7 DEF PostedBefore
    <3> QED BY <2>1, <3>7, <3>8 DEF PostKnown
  <2>6. CASE ~(t = 1 /\ k < Len(p))
    <3>1. S \subseteq T \cup (IF t = 1 THEN {q[1]} ELSE {})
      BY <1>9
    <3>2. Cardinality(S) <= Cardinality(T) + t /\ Cardinality(S) \in Nat /\ Cardinality(T) \in Nat
      BY <1>11, <3>1
    <3>3. Cardinality(S) + k <= story'.cut
      <4> HIDE DEF S, T
      <4> QED BY <1>6, <1>7, <2>4, <3>2
    <3>4. \A n \in 1..Len(p) : n > k => n - k <= Len(r) /\ r[n - k] = p[n]
      <4> SUFFICES ASSUME NEW n \in 1..Len(p), n > k PROVE n - k <= Len(r) /\ r[n - k] = p[n]
        OBVIOUS
      <4> n \in Nat /\ k < Len(p) /\ n - k >= 1
        BY <2>3, <2>4
      <4>1. n - k \in 1..Len(b) /\ b[n - k] = p[n] /\ t = 0
        <5>1. n - k <= Len(b) /\ b[n - k] = p[n]
          BY <2>4
        <5>2. t = 0
          BY <1>6, <2>6
        <5> QED BY <1>2, <5>1, <5>2
      <4>2. n - k \in 1..(Len(b) + 1 - t) /\ (n - k) + t = n - k
        BY <1>2, <2>3, <4>1
      <4>3. r[n - k] = q[n - k] /\ q[n - k] = b[n - k]
        <5>1. r[n - k] = q[(n - k) + t]
          BY <1>4, <4>2 DEF r
        <5>2. q[(n - k) + t] = q[n - k]
          BY <4>2, Zenon
        <5>3. q[n - k] = b[n - k]
          BY <1>3, <4>1
        <5> QED BY <5>1, <5>2, <5>3, Zenon
      <4>4. Len(r) = Len(b) + 1 /\ Len(b) \in Nat
        BY <1>2, <1>6, <4>1
      <4>5. n - k <= Len(b)
        BY <1>2, <4>1
      <4> QED BY <4>1, <4>3, <4>4, <4>5
    <3>5. PostedBefore(k)'
      BY <1>5, <2>1, <2>4, <3>3, <3>4 DEF PostedBefore
    <3> QED BY <2>1, <3>5 DEF PostKnown
  <2> QED BY <2>5, <2>6
<1> QED BY <1>8, <1>12, <1>13 DEF EventsInv, PostKnown

\* A post takes the buffer as it is.
LEMMA Posts == ASSUME EventsInv, flush PROVE EventsInv'
<1> DEFINE b == buffered.events  p == Oldest(b)
<1>1. /\ post' = [events |-> p, flows |-> buffered.flows, answer |-> "none"]
      /\ UNCHANGED <<from, buffered, story, stored>>
  BY DEF flush
<1>2. EventsTypeOK /\ b \in Seq(Nat) /\ Len(b) \in Nat /\ MaxPosted \in Nat
  BY ReceiversAssumption DEF EventsInv, EventsTypeOK
<1>3. p \in Seq(Nat) /\ Len(p) <= Len(b) /\ Len(p) \in Nat /\ \A n \in 1..Len(p) : p[n] = b[n]
  BY <1>2 DEF Oldest
<1> HIDE DEF p
<1>4. post'.events = p /\ post'.answer = "none" /\ post' = [events |-> post'.events, flows |-> post'.flows, answer |-> post'.answer]
  BY <1>1
<1>5. EventsTypeOK'
  BY <1>1, <1>2, <1>3, <1>4 DEF EventsTypeOK
<1>6. Missing' = Missing /\ Stored' = Stored
  BY <1>1 DEF Missing, Stored
<1>7. EventsKept'
  BY <1>1, <1>6 DEF EventsInv, EventsKept
<1>8. PostedBefore(0)'
  <2>1. Cardinality(Missing \ Range(p)) <= Cardinality(Missing) /\ Cardinality(Missing) <= story.cut
        /\ Cardinality(Missing \ Range(p)) \in Nat /\ Cardinality(Missing) \in Nat /\ story.cut \in Nat
    <3>1. Missing \in SUBSET story.accepted /\ Missing \ Range(p) \in SUBSET Missing /\ Missing \ Range(p) \in SUBSET story.accepted
      BY DEF Missing
    <3> QED BY <1>2, <3>1, FewerMissing, FiniteMissing DEF EventsInv, EventsKept, EventsTypeOK
  <2>2. Cardinality(Missing \ Range(p)) + 0 <= story.cut
    BY <2>1
  <2>3. \A n \in 1..Len(p) : n > 0 => n - 0 <= Len(b) /\ b[n - 0] = p[n]
    BY <1>2, <1>3, SMTT(30)
  <2> QED BY <1>1, <1>3, <1>4, <1>6, <2>2, <2>3 DEF PostedBefore
<1> QED BY <1>4, <1>5, <1>7, <1>8 DEF EventsInv, PostKnown

\* What is taken off the front is what was stored, but for k of them; as many had been cut.
LEMMA TakenOff ==
  ASSUME NEW b \in Seq(Nat), NEW p \in Seq(Nat), NEW k \in 0..Len(p),
         \A n \in 1..Len(p) : n > k => n - k <= Len(b) /\ b[n - k] = p[n]
  PROVE  /\ Drop(b, Len(p)) \in Seq(Nat) /\ Len(Drop(b, Len(p))) <= Len(b)
         /\ \E S \in SUBSET Nat : Range(b) \subseteq Range(Drop(b, Len(p))) \cup Range(p) \cup S /\ IsFiniteSet(S) /\ Cardinality(S) <= k
<1> DEFINE r == Drop(b, Len(p))  L == Len(b)  N == Len(p)
<1>1. L \in Nat /\ N \in Nat /\ k \in Nat /\ k <= N /\ N - k <= L
  BY DEF Drop
<1>2. r = SubSeq(b, N + 1, L)
  BY DEF Drop
<1>3. r \in Seq(Nat) /\ Len(r) <= L /\ (\A n \in (N + 1)..L : n - N \in 1..Len(r) /\ r[n - N] = b[n])
  BY <1>1, <1>2, SMTT(30)
<1> DEFINE lo == N - k  S == {b[n] : n \in {n \in 1..L : n > lo /\ n <= N}}
<1>4. Range(b) \subseteq Range(r) \cup Range(p) \cup S
  <2>a. Range(b) = {b[n] : n \in 1..L} /\ Range(r) = {r[n] : n \in 1..Len(r)}
    <3>1. DOMAIN b = 1..L /\ DOMAIN r = 1..Len(r)
      <4> HIDE DEF r
      <4> QED BY <1>3
    <3> HIDE DEF r
    <3> QED BY <3>1 DEF Range
  <2> SUFFICES ASSUME NEW n \in 1..L PROVE b[n] \in Range(r) \cup Range(p) \cup S
    BY <2>a
  <2>1. CASE n > N
    <3>1. n - N \in 1..Len(r) /\ r[n - N] = b[n]
      BY <1>1, <1>3, <2>1
    <3> HIDE DEF r
    <3> QED BY <2>a, <3>1
  <2>2. CASE n <= lo
    <3>1. n + k \in 1..N /\ n + k > k /\ (n + k) - k = n
      BY <1>1, <2>2
    <3> QED BY <3>1, SMTT(30) DEF Range
  <2>3. CASE n > lo /\ n <= N
    BY <2>3
  <2> QED BY <1>1, <2>1, <2>2, <2>3
<1>5. S \in SUBSET Nat
  OBVIOUS
<1>6. IsFiniteSet(S) /\ Cardinality(S) <= k
  <2> DEFINE D == {n \in 1..L : n > lo /\ n <= N}  f == [n \in D |-> b[n]]
  <2>1. D \subseteq (lo + 1)..N /\ lo + 1 \in Int /\ N \in Int
    BY <1>1
  <2>2. IsFiniteSet((lo + 1)..N) /\ Cardinality((lo + 1)..N) = IF lo + 1 > N THEN 0 ELSE N - (lo + 1) + 1
    BY <2>1, FS_Interval
  <2>3. Cardinality((lo + 1)..N) = k
    BY <1>1, <2>2
  <2>4. IsFiniteSet(D) /\ Cardinality(D) <= k
    <3> HIDE DEF D, lo
    <3> QED BY <2>1, <2>2, <2>3, FS_Subset
  <2>5. f \in Surjection(D, S)
    BY DEF Surjection
  <2>6. IsFiniteSet(S) /\ Cardinality(S) <= Cardinality(D)
    <3> HIDE DEF D, f, S
    <3> QED BY <2>4, <2>5, FS_Surjection
  <2>7. Cardinality(D) \in Nat /\ Cardinality(S) \in Nat
    BY <2>4, <2>6, FS_CardinalityType
  <2> HIDE DEF D, S
  <2> QED BY <1>1, <2>4, <2>6, <2>7
<1> QED BY <1>3, <1>4, <1>5, <1>6

\* An acknowledged post leaves the buffer, and nothing that came since.
LEMMA Acknowledges == ASSUME EventsInv, Acknowledge PROVE EventsInv'
<1> DEFINE b == buffered.events  p == post.events
<1>1. post # None /\ post' = None /\ UNCHANGED <<from, stored>> /\ Stored' = Stored
  BY DEF Acknowledge, Stored
<1>2. EventsTypeOK /\ b \in Seq(Nat) /\ p \in Seq(Nat) /\ Len(b) \in Nat /\ Len(b) <= MAX_BUFFERED_EVENTS /\ MAX_BUFFERED_EVENTS \in Nat
  BY <1>1, ReceiversAssumption DEF EventsInv, EventsTypeOK
<1>3. CASE post.answer # "ok"
  <2>1. story' = [story EXCEPT !.repeats = @ + 1] /\ UNCHANGED buffered
    BY <1>3 DEF Acknowledge
  <2>2. /\ story' = [accepted |-> story.accepted, cut |-> story.cut, bytes |-> story.bytes, small |-> story.small, repeats |-> story.repeats + 1]
    BY <1>2, <2>1 DEF EventsTypeOK
  <2>3. EventsTypeOK'
    BY <1>1, <1>2, <2>1, <2>2 DEF EventsTypeOK
  <2>4. Missing' = Missing /\ story'.cut = story.cut
    BY <1>1, <2>1, <2>2 DEF Missing
  <2> QED BY <1>1, <2>3, <2>4 DEF EventsInv, EventsKept, PostKnown
<1>4. CASE post.answer = "ok"
  <2>1. buffered' = [events |-> Drop(b, Len(p)), flows |-> Drop(buffered.flows, Len(post.flows))] /\ UNCHANGED story
    BY <1>4 DEF Acknowledge
  <2>2. PICK k \in Nat : PostedBefore(k)
    BY <1>1 DEF EventsInv, PostKnown
  <2>3. Range(p) \subseteq Stored
    BY <1>1, <1>4 DEF EventsInv, PostKnown
  <2>4. k \in 0..Len(p) /\ \A n \in 1..Len(p) : n > k => n - k <= Len(b) /\ b[n - k] = p[n]
    BY <2>2 DEF PostedBefore
  <2>a. b \in Seq(Nat) /\ p \in Seq(Nat)
    BY <1>2
  <2> HIDE DEF b, p
  <2>5. Drop(b, Len(p)) \in Seq(Nat) /\ Len(Drop(b, Len(p))) <= Len(b) /\ Len(Drop(b, Len(p))) \in Nat
    <3>1. Drop(b, Len(p)) \in Seq(Nat) /\ Len(Drop(b, Len(p))) <= Len(b)
      BY <2>a, <2>4, TakenOff
    <3> QED BY <3>1
  <2>6. PICK S \in SUBSET Nat : Range(b) \subseteq Range(Drop(b, Len(p))) \cup Range(p) \cup S /\ IsFiniteSet(S) /\ Cardinality(S) <= k
    BY <2>a, <2>4, TakenOff
  <2>7. EventsTypeOK'
    BY <1>1, <1>2, <2>1, <2>5 DEF EventsTypeOK, b
  <2> DEFINE T == Missing \ Range(p)
  <2>8. Missing' \subseteq T \cup S
    BY <1>1, <2>1, <2>3, <2>6 DEF Missing, b
  <2>9. IsFiniteSet(T) /\ Cardinality(T) \in Nat /\ Cardinality(T) + k <= story.cut
    <3>1. T \in SUBSET story.accepted
      BY DEF Missing
    <3> QED BY <1>2, <2>2, <3>1, FiniteMissing DEF PostedBefore, p
  <2>10. IsFiniteSet(T \cup S) /\ Cardinality(T \cup S) <= Cardinality(T) + Cardinality(S) /\ Cardinality(S) \in Nat
    <3>1. IsFiniteSet(T \cup S) /\ Cardinality(T \cup S) = Cardinality(T) + Cardinality(S) - Cardinality(T \cap S)
      <4> HIDE DEF T
      <4> QED BY <2>6, <2>9, FS_Union
    <3>2. Cardinality(S) \in Nat /\ IsFiniteSet(T \cap S)
      <4>1. T \cap S \in SUBSET S
        OBVIOUS
      <4> HIDE DEF T
      <4> QED BY <2>6, <4>1, FS_CardinalityType, FS_Subset
    <3>3. Cardinality(T \cap S) \in Nat
      BY <3>2, FS_CardinalityType
    <3> HIDE DEF T
    <3> QED BY <2>9, <3>1, <3>2, <3>3
  <2>11. IsFiniteSet(Missing') /\ Cardinality(Missing') <= Cardinality(T \cup S)
    BY <2>8, <2>10, FS_Subset
  <2>12. Cardinality(Missing') <= story'.cut
    <3>1. Cardinality(Missing') \in Nat /\ Cardinality(T \cup S) \in Nat /\ story.cut \in Nat
      BY <1>2, <2>10, <2>11, FS_CardinalityType DEF EventsTypeOK
    <3>2. story'.cut = story.cut
      BY <2>1
    <3> HIDE DEF T
    <3> QED BY <2>6, <2>9, <2>10, <2>11, <3>1, <3>2
  <2> QED BY <1>1, <2>7, <2>12 DEF EventsInv, EventsKept, PostKnown
<1> QED BY <1>3, <1>4

\* Every step keeps the books of the events.
LEMMA EventsStep == EventsInv /\ [ReceiversNext]_rvars => EventsInv'
<1> SUFFICES ASSUME EventsInv, [ReceiversNext]_rvars PROVE EventsInv'
  OBVIOUS
<1>1. /\ buffered = [events |-> buffered.events, flows |-> buffered.flows]
      /\ story = [accepted |-> story.accepted, cut |-> story.cut, bytes |-> story.bytes, small |-> story.small, repeats |-> story.repeats]
      /\ stored = [events |-> stored.events, bytes |-> stored.bytes]
      /\ post # None => post = [events |-> post.events, flows |-> post.flows, answer |-> post.answer]
  BY DEF EventsInv, EventsTypeOK
\* What changes neither the buffer nor what is counted, and takes nothing out of the store.
<1>2. ASSUME from' \in Seq(Devices), buffered' = [events |-> buffered.events, flows |-> buffered'.flows],
             story' = [accepted |-> story.accepted, cut |-> story.cut, bytes |-> story'.bytes, small |-> story'.small, repeats |-> story'.repeats],
             stored' = [events |-> stored'.events, bytes |-> stored'.bytes], stored.events \subseteq stored'.events,
             \/ post' = post
             \/ /\ post # None /\ post' = [events |-> post.events, flows |-> post'.flows, answer |-> post'.answer]
                /\ post'.answer = "ok" => Range(post.events) \subseteq Stored'
      PROVE  EventsInv'
  <2>1. buffered'.events = buffered.events /\ story'.accepted = story.accepted /\ story'.cut = story.cut /\ Stored \subseteq Stored'
    BY <1>2 DEF Stored
  <2>2. post' = post \/ (post # None /\ post'.events = post.events /\ (post'.answer = "ok" => Range(post.events) \subseteq Stored'))
    BY <1>2
  <2>3. EventsTypeOK'
    BY <1>2, <2>1 DEF EventsInv, EventsTypeOK
  <2> QED BY <2>1, <2>2, <2>3, NothingLost
<1>3. CASE UNCHANGED rvars
  <2>1. UNCHANGED <<from, buffered, story, stored, post>>
    BY <1>3 DEF rvars
  <2> QED BY <1>1, <1>2, <2>1 DEF EventsInv, EventsTypeOK
<1>4. ASSUME SecondPasses \/ MinutePasses \/ SaveRanges PROVE EventsInv'
  <2>1. UNCHANGED <<from, buffered, story, stored, post>>
    BY <1>4 DEF SecondPasses, MinutePasses, SaveRanges
  <2> QED BY <1>1, <1>2, <2>1 DEF EventsInv, EventsTypeOK
<1>5. ASSUME NEW d \in Devices, EngineReceives(d) PROVE EventsInv'
  <2>1. from' = Append(from, d) /\ UNCHANGED <<buffered, story, stored, post>>
    BY <1>5 DEF EngineReceives
  <2>2. from' \in Seq(Devices)
    BY <2>1 DEF EventsInv, EventsTypeOK
  <2> QED BY <1>1, <1>2, <2>1, <2>2
<1>6. ASSUME NEW i \in inserting, NEW fails \in BOOLEAN, storeEvents(i, fails) PROVE EventsInv'
  <2>1. UNCHANGED <<from, buffered, story, post>> /\ from \in Seq(Devices)
    BY <1>6 DEF storeEvents, EventsInv, EventsTypeOK
  <2>2. stored' = stored \/ \E x : stored' = [stored EXCEPT !.events = @ \cup {x}]
    BY <1>6 DEF storeEvents
  <2>3. stored' = stored \/ \E x : stored' = [events |-> stored.events \cup {x}, bytes |-> stored.bytes]
    BY <1>1, <2>2
  <2>4. stored' = [events |-> stored'.events, bytes |-> stored'.bytes] /\ stored.events \subseteq stored'.events
    BY <1>1, <2>3
  <2> QED BY <1>1, <1>2, <2>1, <2>4
<1>7. ASSUME NEW c \in Conversations, NEW type, handlePacket(c, type) PROVE EventsInv'
  <2>1. UNCHANGED <<from, buffered, stored, post>> /\ from \in Seq(Devices)
    BY <1>7 DEF handlePacket, EventsInv, EventsTypeOK
  <2>2. story' = story \/ story' = [story EXCEPT !.bytes = @ + 1]
    BY <1>7 DEF handlePacket
  <2>3. story' = story \/ story' = [accepted |-> story.accepted, cut |-> story.cut, bytes |-> story.bytes + 1, small |-> story.small, repeats |-> story.repeats]
    BY <1>1, <2>2
  <2>4. story' = [accepted |-> story.accepted, cut |-> story.cut, bytes |-> story'.bytes, small |-> story'.small, repeats |-> story'.repeats]
    BY <1>1, <2>3
  <2> QED BY <1>1, <1>2, <2>1, <2>4
<1>8. ASSUME drain PROVE EventsInv'
  <2>1. PICK flows, small : /\ buffered' = [buffered EXCEPT !.flows = flows] /\ story' = [story EXCEPT !.small = small]
                            /\ UNCHANGED <<from, stored, post>>
    BY <1>8 DEF drain
  <2>2. /\ buffered' = [events |-> buffered.events, flows |-> flows]
        /\ story' = [accepted |-> story.accepted, cut |-> story.cut, bytes |-> story.bytes, small |-> small, repeats |-> story.repeats]
    BY <1>1, <2>1
  <2>3. from' \in Seq(Devices)
    BY <2>1 DEF EventsInv, EventsTypeOK
  <2>4. buffered' = [events |-> buffered.events, flows |-> buffered'.flows]
    BY <2>2
  <2>5. story' = [accepted |-> story.accepted, cut |-> story.cut, bytes |-> story'.bytes, small |-> story'.small, repeats |-> story'.repeats]
    BY <2>2
  <2> QED BY <1>1, <1>2, <2>1, <2>3, <2>4, <2>5
\* Sites in part, or all of them: then every event is stored.
<1>9. ASSUME NEW p, NEW i, NEW j, Handle(p, i, j)
      PROVE  /\ stored' = [events |-> stored'.events, bytes |-> stored'.bytes] /\ stored.events \subseteq stored'.events
             /\ from' = from /\ p.events \in Seq(Nat) /\ All(p, i, j) => Range(p.events) \subseteq Stored'
  <2>1. stored'.events = stored.events \cup {<<e, siteOf(from[e])>> : e \in {e \in Range(p.events) : siteOf(from[e]) \in EventSites(p, i)}}
        /\ stored' = [events |-> stored'.events, bytes |-> stored'.bytes]
    BY <1>9 DEF Handle, Stores
  <2>2. ASSUME p.events \in Seq(Nat), All(p, i, j), NEW e \in Range(p.events) PROVE e \in Stored'
    <3>1. PICK n \in 1..Len(p.events) : e = p.events[n]
      BY <2>2 DEF Range
    <3>2. siteOf(from[e]) \in EventSites(p, i)
      BY <2>2, <3>1 DEF All, EventSites
    <3>3. <<e, siteOf(from[e])>> \in stored'.events
      BY <2>1, <3>2
    <3> QED BY <3>3 DEF Stored
  <2> QED BY <2>1, <2>2
<1>10. ASSUME EngineHandles PROVE EventsInv'
  <2>1. PICK i, j, lost : Handle(post, i, j) /\ post' = [post EXCEPT !.answer = IF All(post, i, j) /\ ~lost THEN "ok" ELSE "error"]
    BY <1>10 DEF EngineHandles
  <2>2. post # None /\ UNCHANGED <<from, buffered, story>> /\ from \in Seq(Devices) /\ post.events \in Seq(Nat)
    BY <1>10 DEF EngineHandles, EventsInv, EventsTypeOK
  <2>3. post' = [events |-> post.events, flows |-> post.flows, answer |-> IF All(post, i, j) /\ ~lost THEN "ok" ELSE "error"]
    BY <1>1, <2>1, <2>2
  <2>4. post' = [events |-> post.events, flows |-> post'.flows, answer |-> post'.answer] /\ (post'.answer = "ok" => All(post, i, j))
    BY <2>3
  <2>5. stored' = [events |-> stored'.events, bytes |-> stored'.bytes] /\ stored.events \subseteq stored'.events
        /\ (post'.answer = "ok" => Range(post.events) \subseteq Stored')
    BY <1>9, <2>1, <2>2, <2>4
  <2> QED BY <1>1, <1>2, <2>2, <2>4, <2>5
<1>11. ASSUME NEW p \in late, EngineHandlesLate(p) PROVE EventsInv'
  <2>1. \E i, j : Handle(p, i, j)
    BY <1>11 DEF EngineHandlesLate
  <2>2. UNCHANGED <<from, buffered, post, story>> /\ from \in Seq(Devices)
    BY <1>11 DEF EngineHandlesLate, EventsInv, EventsTypeOK
  <2>3. stored' = [events |-> stored'.events, bytes |-> stored'.bytes] /\ stored.events \subseteq stored'.events
    BY <2>1, <1>9
  <2> QED BY <1>1, <1>2, <2>2, <2>3
<1>12. ASSUME GivesUpOnPost PROVE EventsInv'
  <2>1. post # None /\ post' = [post EXCEPT !.answer = "error"] /\ UNCHANGED <<from, buffered, stored, story>> /\ from \in Seq(Devices)
    BY <1>12 DEF GivesUpOnPost, EventsInv, EventsTypeOK
  <2>2. post' = [events |-> post.events, flows |-> post.flows, answer |-> "error"]
    BY <1>1, <2>1
  <2>3. post' = [events |-> post.events, flows |-> post'.flows, answer |-> post'.answer] /\ post'.answer # "ok"
    BY <2>2
  <2> QED BY <1>1, <1>2, <2>1, <2>3
<1>13. CASE ReceiversNext
  BY <1>13, <1>4, <1>5, <1>6, <1>7, <1>8, <1>10, <1>11, <1>12, Comes, Posts, Acknowledges DEF ReceiversNext
<1> QED BY <1>3, <1>13

(* Of the events a site's collector has accepted, no more are neither stored *)
(* nor buffered than a full buffer has cut off, whatever posts are lost,     *)
(* handled in part, late or twice, and however the buffer fills while one is *)
(* out (collector/main.ts, routes/collector.ts).                             *)
THEOREM EventsAreKept == ReceiversInit /\ [][ReceiversNext]_rvars => []EventsKept
<1>1. EventsInv => EventsKept
  BY DEF EventsInv
<1> QED BY <1>1, EventsStart, EventsStep, PTL

(* Of what a site's collector has accepted, nothing is lost but what a full  *)
(* buffer has cut off: its events as above; its flows to the byte, and twice *)
(* only where a post was made again.  Every event is filed under the site    *)
(* whose range is the most specific (collector/main.ts, routes/collector.ts, *)
(* siteNetworks.ts).                                                         *)
THEOREM WhatIsReceivedIsKept == ReceiversInit /\ [][ReceiversNext]_rvars => []ReceivedIsKept
<1> DEFINE I == EventsInv /\ FlowsInv /\ ranges \in RangeLists
<1>1. ReceiversInit => I
  BY EventsStart, FlowsStart DEF ReceiversInit
<1>2. I /\ [ReceiversNext]_rvars => I'
  <2>1. EventsInv => (post # None => post.events \in Seq(Nat))
    BY DEF EventsInv, EventsTypeOK
  <2>2. FlowsInv /\ (post # None => post.events \in Seq(Nat)) /\ [ReceiversNext]_rvars => FlowsInv'
    BY FlowsStep
  <2> QED BY <2>1, <2>2, EventsStep, RangesStay
<1>3. I => ReceivedIsKept
  BY FlowsAddUp, MostSpecificWins DEF EventsInv, ReceivedIsKept
<1> HIDE DEF I
<1> QED BY <1>1, <1>2, <1>3, PTL

-----------------------------------------------------------------------------
(* The copy of the exclusion lists. *)

\* What a reading or a copy has of the lists, and since when.
Since(copy) == /\ copy.asOf \in Nat /\ copy.asOf <= exEdits
               /\ ~copy.behind => copy.rows = EnabledRows
               /\ copy.asOf = exEdits => ~copy.behind
ListsInv == /\ exEdits \in Nat
            /\ exReading # None => exReading.behind \in BOOLEAN /\ Since(exReading)
            /\ exCopy # None => Since(exCopy) /\ CopyIsCurrent

\* At the start there is no copy.
LEMMA ListsStart == ExclusionsInit => ListsInv
  BY DEF ExclusionsInit, ListsInv

\* A write drops the copy; a reading that is under way is behind from then on.
LEMMA ListsWritten == ASSUME ListsInv, NEW table, WriteLists(table) PROVE ListsInv'
<1>1. exEdits' = exEdits + 1 /\ exEdits' \in Nat /\ exCopy' = None
  BY DEF WriteLists, Edits, invalidateExclusionCache, ListsInv
<1>2. ASSUME exReading' # None PROVE exReading'.behind \in BOOLEAN /\ Since(exReading)'
  <2>1. exReading # None /\ exReading' = [exReading EXCEPT !.behind = TRUE]
    BY <1>2 DEF WriteLists
  <2>2. exReading'.asOf = exReading.asOf /\ exReading.asOf \in Nat /\ exReading.asOf <= exEdits
    BY <2>1 DEF ListsInv, Since
  <2>3. exReading'.behind
    BY <2>1 DEF Since, ListsInv
  <2>4. exReading'.asOf \in Nat /\ exReading'.asOf <= exEdits' /\ exReading'.asOf # exEdits'
    BY <1>1, <2>2 DEF ListsInv
  <2>5. exReading'.behind \in BOOLEAN
    BY <2>1 DEF ListsInv
  <2> QED BY <2>3, <2>4, <2>5, Zenon DEF Since
<1> QED BY <1>1, <1>2 DEF ListsInv

\* Every step keeps the copy as current as it says it is.
LEMMA ListsStep == ListsInv /\ [ExclusionsNext]_exvars => ListsInv'
<1> SUFFICES ASSUME ListsInv, [ExclusionsNext]_exvars PROVE ListsInv'
  OBVIOUS
<1>1. CASE UNCHANGED exvars
  BY <1>1 DEF exvars, ListsInv, Since, CopyIsCurrent, EnabledRows
<1>2. CASE enabledLists
  BY <1>2 DEF enabledLists, ListsInv, Since, CopyIsCurrent, EnabledRows
<1>3. CASE ListsAreRead
  BY <1>3 DEF ListsAreRead, ListsInv, Since, CopyIsCurrent, EnabledRows
<1>4. CASE ReadingFails
  BY <1>4 DEF ReadingFails, ListsInv, Since, CopyIsCurrent, EnabledRows
<1>5. CASE CopyExpires
  BY <1>5 DEF CopyExpires, CopyIsOld, ListsInv, Since, CopyIsCurrent, EnabledRows
<1>6. CASE (\E l \in ListIds, row \in ListRows : CreateList(l, row)) \/ (\E l \in DOMAIN exLists, row \in ListRows : PatchList(l, row)) \/ (\E l \in ListIds : DeleteList(l))
  BY <1>6, ListsWritten DEF CreateList, PatchList, DeleteList
<1>7. CASE \E m \in Memberships : Regroup(m)
  BY <1>7 DEF Regroup, Edits, ListsInv, Since, CopyIsCurrent, EnabledRows
<1> QED BY <1>1, <1>2, <1>3, <1>4, <1>5, <1>6, <1>7 DEF ExclusionsNext

(* Whenever lists and groups are edited while the copy of the lists is read, *)
(* a copy no list was written under has the lists there are, and one nothing *)
(* was edited under what their groups cover (exclusions.ts).                 *)
THEOREM ListsAreCurrent == ExclusionsInit /\ [][ExclusionsNext]_exvars => []CopyIsCurrent
<1>1. ListsInv => CopyIsCurrent
  BY DEF ListsInv, CopyIsCurrent
<1> QED BY <1>1, ListsStart, ListsStep, PTL

-----------------------------------------------------------------------------
(* Patterns.  The rest of a pattern, from its i-th character on, matches the *)
(* rest of a name from its j-th on, if there are cuts as namePattern's.      *)
Cuts(pattern, name, i, j, cut) ==
  /\ cut \in [(i - 1)..Len(pattern) -> 0..Len(name)] /\ cut[i - 1] = j - 1 /\ cut[Len(pattern)] = Len(name)
  /\ \A k \in i..Len(pattern) : cut[k - 1] <= cut[k] /\ StandsFor(pattern[k], SubSeq(name, cut[k - 1] + 1, cut[k]))
RestMatches(pattern, name, i, j) ==
  i \in 1..(Len(pattern) + 1) /\ j \in 1..(Len(name) + 1) /\ \E cut : Cuts(pattern, name, i, j, cut)

\* The rest from the first character on is the whole.
LEMMA RestIsWhole == ASSUME NEW pattern, NEW name, Len(pattern) \in Nat, Len(name) \in Nat PROVE namePattern(pattern, name) <=> RestMatches(pattern, name, 1, 1)
<1> DEFINE P == Len(pattern)  N == Len(name)
<1>1. 1 - 1 = 0 /\ 1 \in 1..(P + 1) /\ 1 \in 1..(N + 1)
  OBVIOUS
<1>2. ASSUME NEW cut PROVE Cuts(pattern, name, 1, 1, cut) <=> cut \in [0..P -> 0..N] /\ cut[0] = 0 /\ cut[P] = N /\
          \A i \in 1..P : cut[i - 1] <= cut[i] /\ StandsFor(pattern[i], SubSeq(name, cut[i - 1] + 1, cut[i]))
  BY <1>1 DEF Cuts
<1> QED BY <1>1, <1>2 DEF namePattern, RestMatches

\* After the pattern's end, only the name's end.
LEMMA RestAtEnd == ASSUME NEW pattern, NEW name, Len(pattern) \in Nat, Len(name) \in Nat, NEW j PROVE RestMatches(pattern, name, Len(pattern) + 1, j) <=> j = Len(name) + 1
<1> DEFINE P == Len(pattern)  N == Len(name)
<1>1. (P + 1) - 1 = P /\ (N + 1) - 1 = N /\ (P + 1)..P = {} /\ P..P = {P} /\ P + 1 \in 1..(P + 1) /\ N + 1 \in 1..(N + 1)
  OBVIOUS
<1>2. ASSUME RestMatches(pattern, name, P + 1, j) PROVE j = N + 1
  <2>1. PICK cut : Cuts(pattern, name, P + 1, j, cut)
    BY <1>2 DEF RestMatches
  <2>2. cut[P] = j - 1 /\ cut[P] = N /\ j \in 1..(N + 1)
    BY <1>1, <1>2, <2>1 DEF Cuts, RestMatches
  <2> QED BY <2>2
<1>3. ASSUME j = N + 1 PROVE RestMatches(pattern, name, P + 1, j)
  <2> DEFINE cut == [k \in P..P |-> N]
  <2>1. cut \in [P..P -> 0..N] /\ cut[P] = N
    OBVIOUS
  <2> HIDE DEF cut, P, N
  <2>2. Cuts(pattern, name, P + 1, j, cut)
    BY <1>1, <1>3, <2>1 DEF Cuts, P, N
  <2> QED BY <1>1, <1>3, <2>2 DEF RestMatches, P, N
<1> QED BY <1>2, <1>3

\* A character of the pattern, and the rest.
LEMMA RestByOne ==
  ASSUME NEW pattern, NEW name, Len(pattern) \in Nat, Len(name) \in Nat, NEW i \in 1..Len(pattern), NEW j \in 1..(Len(name) + 1)
  PROVE  RestMatches(pattern, name, i, j) <=>
           \E m \in j..(Len(name) + 1) : StandsFor(pattern[i], SubSeq(name, j, m - 1)) /\ RestMatches(pattern, name, i + 1, m)
<1> DEFINE P == Len(pattern)  N == Len(name)
<1>0. P \in Nat /\ N \in Nat /\ i \in 1..P /\ j \in 1..(N + 1) /\ (i + 1) - 1 = i /\ i \in 1..(P + 1) /\ i + 1 \in 1..(P + 1)
  OBVIOUS
<1>1. ASSUME RestMatches(pattern, name, i, j)
      PROVE  \E m \in j..(N + 1) : StandsFor(pattern[i], SubSeq(name, j, m - 1)) /\ RestMatches(pattern, name, i + 1, m)
  <2>1. PICK cut : Cuts(pattern, name, i, j, cut)
    BY <1>1 DEF RestMatches
  <2> HIDE DEF P, N
  <2>2. /\ cut \in [(i - 1)..P -> 0..N] /\ cut[i - 1] = j - 1 /\ cut[P] = N
        /\ \A k \in i..P : cut[k - 1] <= cut[k] /\ StandsFor(pattern[k], SubSeq(name, cut[k - 1] + 1, cut[k]))
    BY <2>1 DEF Cuts, P, N
  <2> DEFINE m == cut[i] + 1  rest == [k \in i..P |-> cut[k]]
  <2>3. i \in i..P /\ cut[i - 1] <= cut[i] /\ StandsFor(pattern[i], SubSeq(name, cut[i - 1] + 1, cut[i])) /\ cut[i] \in 0..N
    BY <1>0, <2>2
  <2>4. m \in j..(N + 1) /\ m - 1 = cut[i] /\ cut[i - 1] + 1 = j
    BY <1>0, <2>2, <2>3, SMTT(30)
  <2>5. StandsFor(pattern[i], SubSeq(name, j, m - 1))
    BY <2>3, <2>4
  <2>6. rest \in [i..P -> 0..N] /\ rest[i] = m - 1 /\ rest[P] = N /\ \A k \in (i + 1)..P : rest[k - 1] = cut[k - 1] /\ rest[k] = cut[k] /\ k \in i..P
    <3>1. \A k \in i..P : k \in (i - 1)..P /\ cut[k] \in 0..N
      BY <1>0, <2>2
    <3>2. \A k \in (i + 1)..P : k \in i..P /\ k - 1 \in i..P
      BY <1>0
    <3>3. i \in i..P /\ P \in i..P
      BY <1>0
    <3>4. rest \in [i..P -> 0..N]
      BY <3>1
    <3>5. rest[i] = m - 1 /\ rest[P] = N
      BY <2>2, <2>4, <3>3
    <3> QED BY <3>2, <3>4, <3>5
  <2> HIDE DEF m, rest
  <2>7. Cuts(pattern, name, i + 1, m, rest)
    BY <1>0, <2>2, <2>6 DEF Cuts, P, N
  <2>8. m \in 1..(N + 1)
    BY <1>0, <2>4
  <2>9. RestMatches(pattern, name, i + 1, m)
    BY <1>0, <2>7, <2>8 DEF RestMatches, P, N
  <2> QED BY <2>4, <2>5, <2>9
<1>2. ASSUME NEW m \in j..(N + 1), StandsFor(pattern[i], SubSeq(name, j, m - 1)), RestMatches(pattern, name, i + 1, m)
      PROVE  RestMatches(pattern, name, i, j)
  <2>1. PICK rest : Cuts(pattern, name, i + 1, m, rest)
    BY <1>2 DEF RestMatches
  <2> HIDE DEF P, N
  <2>2. /\ rest \in [i..P -> 0..N] /\ rest[i] = m - 1 /\ rest[P] = N
        /\ \A k \in (i + 1)..P : rest[k - 1] <= rest[k] /\ StandsFor(pattern[k], SubSeq(name, rest[k - 1] + 1, rest[k]))
    BY <1>0, <2>1 DEF Cuts, P, N
  <2> DEFINE cut == [k \in (i - 1)..P |-> IF k = i - 1 THEN j - 1 ELSE rest[k]]
  <2>3. cut \in [(i - 1)..P -> 0..N] /\ cut[i - 1] = j - 1 /\ cut[P] = N /\ cut[i] = m - 1 /\ \A k \in (i + 1)..P : cut[k - 1] = rest[k - 1] /\ cut[k] = rest[k]
    BY <1>0, <2>2
  <2> HIDE DEF cut
  <2>4. ASSUME NEW k \in i..P PROVE cut[k - 1] <= cut[k] /\ StandsFor(pattern[k], SubSeq(name, cut[k - 1] + 1, cut[k]))
    <3>1. CASE k = i
      <4>1. (j - 1) + 1 = j /\ j - 1 <= m - 1
        BY <1>0
      <4> QED BY <1>2, <2>3, <3>1, <4>1
    <3>2. CASE k # i
      <4>1. k \in (i + 1)..P
        BY <1>0, <3>2
      <4> QED BY <2>2, <2>3, <4>1
    <3> QED BY <3>1, <3>2
  <2>5. Cuts(pattern, name, i, j, cut)
    BY <2>3, <2>4 DEF Cuts, P, N
  <2> QED BY <1>0, <2>5 DEF RestMatches, P, N
<1> QED BY <1>1, <1>2

\* A * swallows any part; a ? and a plain character one character.
LEMMA RestFromStar ==
  ASSUME NEW pattern, NEW name, Len(pattern) \in Nat, Len(name) \in Nat, NEW i \in 1..Len(pattern), NEW j \in 1..(Len(name) + 1), pattern[i] = "*"
  PROVE  RestMatches(pattern, name, i, j) <=> \E m \in j..(Len(name) + 1) : RestMatches(pattern, name, i + 1, m)
  BY RestByOne DEF StandsFor

\* A ? takes one character, and a plain one itself.
LEMMA RestFromOther ==
  ASSUME NEW pattern, NEW name, Len(pattern) \in Nat, NEW A, name \in Seq(A), NEW i \in 1..Len(pattern), NEW j \in 1..(Len(name) + 1), pattern[i] # "*"
  PROVE  RestMatches(pattern, name, i, j) <=>
           j <= Len(name) /\ (pattern[i] = "?" \/ pattern[i] = name[j]) /\ RestMatches(pattern, name, i + 1, j + 1)
<1> DEFINE N == Len(name)
<1>0. N \in Nat
  OBVIOUS
<1>1. ASSUME NEW m \in j..(N + 1), StandsFor(pattern[i], SubSeq(name, j, m - 1))
      PROVE  m = j + 1 /\ j <= N /\ (pattern[i] = "?" \/ pattern[i] = name[j])
  <2> DEFINE part == SubSeq(name, j, m - 1)
  <2>1. Len(part) = m - j
    BY <1>0
  <2>2. (pattern[i] = "?" /\ Len(part) = 1) \/ (pattern[i] # "?" /\ part = <<pattern[i]>>)
    BY <1>1 DEF StandsFor
  <2>2a. Len(part) = 1
    <3> HIDE DEF part
    <3> QED BY <2>2
  <2>3. m = j + 1 /\ j <= N
    BY <1>0, <2>1, <2>2a
  <2>4. part[1] = name[j]
    <3>1. j \in 1..N /\ m - 1 = j
      BY <1>0, <2>3
    <3>2. part = SubSeq(name, j, j)
      BY <3>1
    <3> QED BY <1>0, <3>1, <3>2
  <2> HIDE DEF part
  <2>6. pattern[i] # "?" => pattern[i] = name[j]
    BY <2>2, <2>4
  <2> QED BY <2>3, <2>6
<1>2. ASSUME j <= N, pattern[i] = "?" \/ pattern[i] = name[j] PROVE StandsFor(pattern[i], SubSeq(name, j, (j + 1) - 1)) /\ j + 1 \in j..(N + 1)
  <2>1. (j + 1) - 1 = j /\ j + 1 \in j..(N + 1) /\ j \in 1..N
    BY <1>0, <1>2
  <2> DEFINE part == SubSeq(name, j, j)
  <2>2. part \in Seq(A) /\ Len(part) = 1 /\ part[1] = name[j]
    <3>1. part \in Seq(A)
      BY <1>0, <2>1
    <3>2. Len(part) = 1
      BY <1>0, <2>1
    <3>3. part[1] = name[j]
      BY <1>0, <2>1, <3>2
    <3> QED BY <3>1, <3>2, <3>3
  <2> HIDE DEF part
  <2>3. part = <<name[j]>>
    BY <2>2
  <2> QED BY <1>2, <2>1, <2>2, <2>3 DEF StandsFor, part
<1> HIDE DEF N
<1>3. RestMatches(pattern, name, i, j) <=> \E m \in j..(N + 1) : StandsFor(pattern[i], SubSeq(name, j, m - 1)) /\ RestMatches(pattern, name, i + 1, m)
  BY <1>0, RestByOne DEF N
<1> QED BY <1>1, <1>2, <1>3 DEF N

-----------------------------------------------------------------------------
(* globMatch's loop.  Where it is fits the pattern and the name; what the    *)
(* last * has not swallowed is matched so far; and the whole matches just if *)
(* the rest does, or does when the * swallows more.                          *)
Ended(name, w) == w.failed \/ w.n > Len(name)
Where == [p : Nat, n : Nat, star : Nat, from : Nat, failed : BOOLEAN]
Swallowed(w) == w.p - w.star - 1
InPlace(pattern, name, w) ==
  /\ w \in Where /\ w.p \in 1..(Len(pattern) + 1) /\ w.n \in 1..(Len(name) + 1) /\ w.star < w.p
  /\ w.star = 0 => w.from = 0
  /\ w.star > 0 => pattern[w.star] = "*" /\ w.star <= Len(pattern) /\ w.from >= 1 /\ w.n = w.from + Swallowed(w)
Later(pattern, name, w) == w.star > 0 /\ \E j \in 1..(Len(name) + 1) : j > w.from /\ RestMatches(pattern, name, w.star + 1, j)
OnTrack(pattern, name, w) ==
  /\ w.star > 0 => \A j \in 1..(Len(name) + 1) : RestMatches(pattern, name, w.star + 1, j) => RestMatches(pattern, name, w.p, j + Swallowed(w))
  /\ IF w.failed THEN ~RestMatches(pattern, name, 1, 1)
                 ELSE RestMatches(pattern, name, 1, 1) <=> RestMatches(pattern, name, w.p, w.n) \/ Later(pattern, name, w)
PlainName(x) == \A i \in DOMAIN x : x[i] # "*"
Progress(pattern, w) == w.from * (Len(pattern) + 1) + w.p

\* A text has a length, and no "end" in it.
LEMMA TextsAre == ASSUME NEW x, Textual(x) PROVE Len(x) \in Nat /\ DOMAIN x = 1..Len(x) /\ \A i \in 1..Len(x) : x[i] # "end"
<1>1. Len(x) \in Nat /\ DOMAIN x = 1..Len(x)
  BY DEF Textual
<1> QED BY <1>1 DEF Textual

\* At finds the character, and "end" only after the last.
LEMMA Characters ==
  ASSUME NEW x, Textual(x), NEW i \in 1..(Len(x) + 1)
  PROVE  /\ At(x, i) = "end" <=> i = Len(x) + 1
         /\ i <= Len(x) => At(x, i) = x[i]
<1>1. Len(x) \in Nat /\ DOMAIN x = 1..Len(x) /\ \A k \in 1..Len(x) : x[k] # "end"
  BY TextsAre
<1> QED BY <1>1 DEF At

\* The next characters agree.
LEMMA TurnByOne ==
  ASSUME NEW pattern, Textual(pattern), NEW name, Textual(name), PlainName(name), NEW w, InPlace(pattern, name, w), OnTrack(pattern, name, w),
         ~Ended(name, w), Literal(At(pattern, w.p), At(name, w.n))
  PROVE  LET v == Turn(pattern, name, w) IN
         /\ InPlace(pattern, name, v) /\ OnTrack(pattern, name, v) /\ ~v.failed /\ v.from = w.from /\ v.p = w.p + 1
<1> DEFINE v == Turn(pattern, name, w)  P == Len(pattern)  N == Len(name)  k == Swallowed(w)
<1>1. P \in Nat /\ N \in Nat /\ DOMAIN name = 1..N
  BY TextsAre
<1>2. w \in Where /\ w.p \in 1..(P + 1) /\ w.n \in 1..N /\ ~w.failed
  BY <1>1 DEF InPlace, Ended, Where
<1>3. w.p \in 1..P /\ At(pattern, w.p) = pattern[w.p] /\ At(name, w.n) = name[w.n]
  <2>1. At(pattern, w.p) # "end"
    BY DEF Literal
  <2> QED BY <1>1, <1>2, <2>1, Characters
<1>4. pattern[w.p] # "*" /\ (pattern[w.p] = "?" \/ pattern[w.p] = name[w.n])
  BY <1>1, <1>2, <1>3 DEF Literal, PlainName
<1>5. v = [w EXCEPT !.p = @ + 1, !.n = @ + 1]
  BY DEF Turn
<1>6. v = [p |-> w.p + 1, n |-> w.n + 1, star |-> w.star, from |-> w.from, failed |-> FALSE]
  BY <1>2, <1>5 DEF Where
<1>7. InPlace(pattern, name, v)
  BY <1>1, <1>2, <1>3, <1>6 DEF InPlace, Where, Swallowed
<1>8. ASSUME NEW j \in 1..(N + 1) PROVE RestMatches(pattern, name, w.p, j) <=> j <= N /\ (pattern[w.p] = "?" \/ pattern[w.p] = name[j]) /\ RestMatches(pattern, name, w.p + 1, j + 1)
  <2> DEFINE A == STRING
  <2>1. name \in Seq(A)
    BY DEF Textual
  <2> HIDE DEF A
  <2> QED BY <1>1, <1>3, <1>4, <2>1, RestFromOther
<1>9. RestMatches(pattern, name, w.p, w.n) <=> RestMatches(pattern, name, v.p, v.n)
  BY <1>1, <1>2, <1>4, <1>6, <1>8
<1>10. ASSUME v.star > 0, NEW j \in 1..(N + 1), RestMatches(pattern, name, v.star + 1, j) PROVE RestMatches(pattern, name, v.p, j + Swallowed(v))
  <2>1. RestMatches(pattern, name, w.p, j + k)
    BY <1>6, <1>10 DEF OnTrack
  <2>2. j + k \in 1..(N + 1)
    BY <2>1 DEF RestMatches
  <2>3. Swallowed(v) = k + 1 /\ k \in Int
    BY <1>2, <1>6 DEF Swallowed, Where
  <2>4. RestMatches(pattern, name, w.p + 1, (j + k) + 1)
    BY <1>8, <2>1, <2>2
  <2>5. (j + k) + 1 = j + Swallowed(v)
    BY <2>3
  <2> QED BY <1>6, <2>4, <2>5
<1>11. Later(pattern, name, v) <=> Later(pattern, name, w)
  BY <1>6 DEF Later
<1>12. OnTrack(pattern, name, v)
  <2>1. ~v.failed
    BY <1>6
  <2> HIDE DEF v
  <2>2. RestMatches(pattern, name, 1, 1) <=> RestMatches(pattern, name, v.p, v.n) \/ Later(pattern, name, v)
    BY <1>2, <1>9, <1>11 DEF OnTrack
  <2> QED BY <1>10, <2>1, <2>2 DEF OnTrack
<1> QED BY <1>6, <1>7, <1>12

\* A * is met: whatever the last one could swallow, this one can.
LEMMA TurnAtStar ==
  ASSUME NEW pattern, Textual(pattern), NEW name, Textual(name), NEW w, InPlace(pattern, name, w), OnTrack(pattern, name, w),
         ~Ended(name, w), ~Literal(At(pattern, w.p), At(name, w.n)), At(pattern, w.p) = "*"
  PROVE  LET v == Turn(pattern, name, w) IN
         /\ InPlace(pattern, name, v) /\ OnTrack(pattern, name, v) /\ ~v.failed /\ v.from >= w.from /\ v.p = w.p + 1
<1> DEFINE v == Turn(pattern, name, w)  P == Len(pattern)  N == Len(name)  k == Swallowed(w)
<1>1. P \in Nat /\ N \in Nat
  BY TextsAre
<1>2. w \in Where /\ w.p \in 1..(P + 1) /\ w.n \in 1..N /\ ~w.failed
  BY <1>1 DEF InPlace, Ended, Where
<1>3. w.p \in 1..P /\ pattern[w.p] = "*"
  BY <1>1, <1>2, Characters
<1>5. v = [w EXCEPT !.p = @ + 1, !.star = w.p, !.from = w.n]
  BY DEF Turn
<1>6. v = [p |-> w.p + 1, n |-> w.n, star |-> w.p, from |-> w.n, failed |-> FALSE]
  BY <1>2, <1>5 DEF Where
<1>6a. Swallowed(v) = 0
  BY <1>2, <1>6 DEF Swallowed
<1>7. InPlace(pattern, name, v)
  BY <1>1, <1>2, <1>3, <1>6, <1>6a DEF InPlace, Where
<1>8. ASSUME NEW j \in 1..(N + 1) PROVE RestMatches(pattern, name, w.p, j) <=> \E m \in j..(N + 1) : RestMatches(pattern, name, w.p + 1, m)
  BY <1>1, <1>3, RestFromStar
<1>9. RestMatches(pattern, name, w.p, w.n) <=> RestMatches(pattern, name, v.p, v.n) \/ Later(pattern, name, v)
  <2>1. RestMatches(pattern, name, w.p, w.n) <=> \E m \in w.n..(N + 1) : RestMatches(pattern, name, w.p + 1, m)
    BY <1>1, <1>2, <1>8
  <2>2. Later(pattern, name, v) <=> \E m \in 1..(N + 1) : m > w.n /\ RestMatches(pattern, name, w.p + 1, m)
    BY <1>2, <1>6 DEF Later, Where
  <2>3. \A m \in Nat : m \in w.n..(N + 1) <=> (m = w.n \/ (m \in 1..(N + 1) /\ m > w.n))
    BY <1>1, <1>2
  <2> QED BY <1>1, <1>2, <1>6, <2>1, <2>2, <2>3
<1>10. ASSUME v.star > 0, NEW j \in 1..(N + 1), RestMatches(pattern, name, v.star + 1, j) PROVE RestMatches(pattern, name, v.p, j + Swallowed(v))
  BY <1>6, <1>6a, <1>10
<1>11. Later(pattern, name, w) => RestMatches(pattern, name, w.p, w.n)
  <2> SUFFICES ASSUME Later(pattern, name, w) PROVE RestMatches(pattern, name, w.p, w.n)
    OBVIOUS
  <2>1. PICK j \in 1..(N + 1) : j > w.from /\ RestMatches(pattern, name, w.star + 1, j) /\ w.star > 0
    BY DEF Later
  <2>2. RestMatches(pattern, name, w.p, j + k)
    BY <2>1 DEF OnTrack
  <2>3. j + k \in 1..(N + 1)
    BY <2>2 DEF RestMatches
  <2>4. w.n = w.from + k /\ k \in Int /\ w.from \in Nat
    BY <1>2, <2>1 DEF InPlace, Where, Swallowed
  <2>5. j + k > w.n
    BY <2>1, <2>4
  <2>6. PICK m \in (j + k)..(N + 1) : RestMatches(pattern, name, w.p + 1, m)
    BY <1>8, <2>2, <2>3
  <2>7. m \in w.n..(N + 1)
    BY <1>2, <2>3, <2>5
  <2> QED BY <1>1, <1>2, <1>8, <2>6, <2>7
<1>12. OnTrack(pattern, name, v)
  <2>1. ~v.failed
    BY <1>6
  <2> HIDE DEF v
  <2>2. RestMatches(pattern, name, 1, 1) <=> RestMatches(pattern, name, v.p, v.n) \/ Later(pattern, name, v)
    BY <1>2, <1>9, <1>11 DEF OnTrack
  <2> QED BY <1>10, <2>1, <2>2 DEF OnTrack
<1>13. w.n >= w.from
  BY <1>2 DEF InPlace, Where, Swallowed
<1> QED BY <1>6, <1>7, <1>12, <1>13

\* They do not agree: the last * has to swallow one more, or there is none.
LEMMA NothingFrom ==
  ASSUME NEW pattern, Textual(pattern), NEW name, Textual(name), NEW w, InPlace(pattern, name, w),
         ~Ended(name, w), ~Literal(At(pattern, w.p), At(name, w.n)), At(pattern, w.p) # "*"
  PROVE  ~RestMatches(pattern, name, w.p, w.n)
<1> DEFINE P == Len(pattern)  N == Len(name)
<1>1. P \in Nat /\ N \in Nat
  BY TextsAre
<1>2. w \in Where /\ w.p \in 1..(P + 1) /\ w.n \in 1..N
  BY <1>1 DEF InPlace, Ended, Where
<1>3. At(name, w.n) = name[w.n]
  BY <1>1, <1>2, Characters
<1>4. CASE w.p = P + 1
  BY <1>1, <1>2, <1>4, RestAtEnd
<1>5. CASE w.p \in 1..P
  <2>1. At(pattern, w.p) = pattern[w.p] /\ At(pattern, w.p) # "end"
    BY <1>1, <1>2, <1>5, Characters
  <2>2. pattern[w.p] # "*" /\ pattern[w.p] # "?" /\ pattern[w.p] # name[w.n]
    BY <1>3, <2>1 DEF Literal
  <2> DEFINE A == STRING
  <2>3. name \in Seq(A)
    BY DEF Textual
  <2> HIDE DEF A
  <2> QED BY <1>1, <1>2, <1>5, <2>2, <2>3, RestFromOther
<1> QED BY <1>1, <1>2, <1>4, <1>5

\* The other two turns: back to the last *, or the end.
LEMMA TurnBack ==
  ASSUME NEW pattern, Textual(pattern), NEW name, Textual(name), NEW w, InPlace(pattern, name, w), OnTrack(pattern, name, w),
         ~Ended(name, w), ~Literal(At(pattern, w.p), At(name, w.n)), At(pattern, w.p) # "*"
  PROVE  LET v == Turn(pattern, name, w) IN
         /\ InPlace(pattern, name, v) /\ OnTrack(pattern, name, v) /\ (v.failed \/ (v.from = w.from + 1 /\ v.p >= 1))
<1> DEFINE v == Turn(pattern, name, w)  P == Len(pattern)  N == Len(name)
<1>1. P \in Nat /\ N \in Nat
  BY TextsAre
<1>2. w \in Where /\ w.p \in 1..(P + 1) /\ w.n \in 1..N /\ ~w.failed
  BY <1>1 DEF InPlace, Ended, Where
<1>3. RestMatches(pattern, name, 1, 1) <=> Later(pattern, name, w)
  BY <1>2, NothingFrom DEF OnTrack
<1>4. CASE w.star > 0
  <2>1. v = [w EXCEPT !.p = w.star + 1, !.n = w.from + 1, !.from = @ + 1]
    BY <1>4 DEF Turn
  <2>2. v = [p |-> w.star + 1, n |-> w.from + 1, star |-> w.star, from |-> w.from + 1, failed |-> FALSE]
    BY <1>2, <2>1 DEF Where
  <2>3. Swallowed(v) = 0 /\ w.star \in 1..P /\ w.from \in 1..N
    <3>1. w.from <= w.n /\ w.from >= 1 /\ w.star <= P
      BY <1>2, <1>4 DEF InPlace, Where, Swallowed
    <3> QED BY <1>1, <1>2, <1>4, <2>2, <3>1 DEF Swallowed, Where
  <2>4. InPlace(pattern, name, v)
    BY <1>1, <1>2, <1>4, <2>2, <2>3 DEF InPlace, Where
  <2>5. Later(pattern, name, w) <=> RestMatches(pattern, name, v.p, v.n) \/ Later(pattern, name, v)
    <3>1. \A j \in 1..(N + 1) : j > w.from <=> j = w.from + 1 \/ j > w.from + 1
      BY <1>1, <2>3
    <3>2. w.from + 1 \in 1..(N + 1)
      BY <1>1, <2>3
    <3> QED BY <1>4, <2>2, <3>1, <3>2 DEF Later
  <2>6. OnTrack(pattern, name, v)
    BY <1>3, <2>2, <2>3, <2>5 DEF OnTrack
  <2> QED BY <1>1, <2>2, <2>3, <2>4, <2>6
<1>5. CASE ~(w.star > 0)
  <2>1. v = [w EXCEPT !.failed = TRUE]
    BY <1>5 DEF Turn
  <2>2. v = [p |-> w.p, n |-> w.n, star |-> w.star, from |-> w.from, failed |-> TRUE]
    BY <1>2, <2>1 DEF Where
  <2>3. ~RestMatches(pattern, name, 1, 1)
    BY <1>3, <1>5 DEF Later
  <2> QED BY <1>5, <2>2, <2>3 DEF InPlace, OnTrack, Where, Swallowed
<1> QED BY <1>4, <1>5

\* A turn that does not end it goes further.
LEMMA TurnGoesOn ==
  ASSUME NEW pattern, Textual(pattern), NEW name, Textual(name), PlainName(name), NEW w, InPlace(pattern, name, w), OnTrack(pattern, name, w), ~Ended(name, w)
  PROVE  LET v == Turn(pattern, name, w) IN
         InPlace(pattern, name, v) /\ OnTrack(pattern, name, v) /\ (v.failed \/ Progress(pattern, v) >= Progress(pattern, w) + 1)
<1> DEFINE v == Turn(pattern, name, w)  M == Len(pattern) + 1
<1>1. /\ InPlace(pattern, name, v) /\ OnTrack(pattern, name, v)
      /\ v.failed \/ (v.from >= w.from /\ v.p = w.p + 1) \/ (v.from = w.from + 1 /\ v.p >= 1)
  <2>1. CASE Literal(At(pattern, w.p), At(name, w.n))
    <3>1. w.from >= w.from
      BY DEF InPlace, Where
    <3> HIDE DEF v
    <3>2. InPlace(pattern, name, v) /\ OnTrack(pattern, name, v) /\ v.from = w.from /\ v.p = w.p + 1
      BY <2>1, TurnByOne DEF v
    <3> QED BY <3>1, <3>2
  <2>2. CASE ~Literal(At(pattern, w.p), At(name, w.n)) /\ At(pattern, w.p) = "*"
    BY <2>2, TurnAtStar
  <2>3. CASE ~Literal(At(pattern, w.p), At(name, w.n)) /\ At(pattern, w.p) # "*"
    BY <2>3, TurnBack
  <2> QED BY <2>1, <2>2, <2>3
<1>2. M \in Nat /\ w.p \in 1..M /\ w.from \in Nat /\ v.p \in 1..M /\ v.from \in Nat
  <2>1. Len(pattern) \in Nat
    BY TextsAre
  <2> HIDE DEF v
  <2> QED BY <1>1, <2>1 DEF InPlace, Where
<1> HIDE DEF M, v
<1>3. CASE v.from >= w.from /\ v.p = w.p + 1
  <2>1. v.from * M >= w.from * M
    BY <1>2, <1>3
  <2>2. v.from * M \in Nat /\ w.from * M \in Nat
    BY <1>2
  <2> QED BY <1>1, <1>2, <1>3, <2>1, <2>2 DEF Progress, M, v
<1>4. CASE v.from = w.from + 1 /\ v.p >= 1
  <2>1. v.from * M = w.from * M + M
    BY <1>2, <1>4
  <2>2. v.from * M \in Nat /\ w.from * M \in Nat
    BY <1>2
  <2> QED BY <1>1, <1>2, <1>4, <2>1, <2>2 DEF Progress, M, v
<1> QED BY <1>1, <1>3, <1>4 DEF v

\* Only *s match nothing.
LEMMA RestOfNothing ==
  ASSUME NEW pattern, Textual(pattern), NEW name, Textual(name), NEW p \in 1..(Len(pattern) + 1)
  PROVE  RestMatches(pattern, name, p, Len(name) + 1) <=> OnlyStarsFrom(pattern, p)
<1> DEFINE P == Len(pattern)  z == Len(name) + 1  left == P + 1 - p
<1>1. P \in Nat /\ Len(name) \in Nat /\ left \in Nat /\ z \in 1..z /\ ~(z <= Len(name)) /\ p \in 1..(P + 1)
  BY TextsAre
<1>2. ASSUME NEW i \in 1..P PROVE RestMatches(pattern, name, i, z) <=> pattern[i] = "*" /\ RestMatches(pattern, name, i + 1, z)
  <2>1. CASE pattern[i] = "*"
    <3>1. RestMatches(pattern, name, i, z) <=> \E m \in z..z : RestMatches(pattern, name, i + 1, m)
      BY <1>1, <2>1, RestFromStar
    <3>2. z..z = {z}
      BY <1>1
    <3> HIDE DEF z
    <3> QED BY <2>1, <3>1, <3>2
  <2>2. CASE pattern[i] # "*"
    <3> DEFINE A == STRING
    <3>1. name \in Seq(A)
      BY DEF Textual
    <3> HIDE DEF A
    <3> QED BY <1>1, <2>2, <3>1, RestFromOther
  <2> QED BY <2>1, <2>2
<1>3. RestMatches(pattern, name, P + 1, z)
  BY <1>1, RestAtEnd
\* Forwards, from a match to the stars; backwards, from the stars to the match.
<1>4. ASSUME RestMatches(pattern, name, p, z) PROVE OnlyStarsFrom(pattern, p)
  <2> DEFINE Good == {k \in 0..left : RestMatches(pattern, name, p + k, z) /\ \A i \in p..(p + k - 1) : pattern[i] = "*"}
  <2>1. 0 \in Good
    <3>1. p + 0 = p /\ p..(p + 0 - 1) = {} /\ 0 \in 0..left
      BY <1>1
    <3> HIDE DEF z, left
    <3> QED BY <1>4, <3>1
  <2>2. ASSUME NEW k \in 0..(left - 1), k \in Good PROVE k + 1 \in Good
    <3>1. p + k \in 1..P /\ (p + k) + 1 = p + (k + 1) /\ k + 1 \in 0..left /\ p..(p + (k + 1) - 1) = p..(p + k - 1) \cup {p + k}
      BY <1>1
    <3> HIDE DEF z, P, left
    <3>2. pattern[p + k] = "*" /\ RestMatches(pattern, name, p + (k + 1), z)
      <4>1. RestMatches(pattern, name, p + k, z)
        BY <2>2
      <4>2. pattern[p + k] = "*" /\ RestMatches(pattern, name, (p + k) + 1, z)
        BY <1>2, <3>1, <4>1
      <4> QED BY <3>1, <4>2
    <3> QED BY <2>2, <3>1, <3>2
  <2> HIDE DEF Good
  <2>3. left \in Good
    <3> HIDE DEF left
    <3> QED BY <1>1, <2>1, <2>2, NumberInduction
  <2>4. p..(p + left - 1) = p..P
    BY <1>1
  <2> QED BY <2>3, <2>4 DEF Good, OnlyStarsFrom
<1>5. ASSUME OnlyStarsFrom(pattern, p) PROVE RestMatches(pattern, name, p, z)
  <2> DEFINE Good == {k \in 0..left : RestMatches(pattern, name, P + 1 - k, z)}
  <2>1. 0 \in Good
    <3>1. P + 1 - 0 = P + 1 /\ 0 \in 0..left
      BY <1>1
    <3> HIDE DEF z, left
    <3> QED BY <1>3, <3>1
  <2>2. ASSUME NEW k \in 0..(left - 1), k \in Good PROVE k + 1 \in Good
    <3>1. P + 1 - (k + 1) \in p..P /\ P + 1 - (k + 1) \in 1..P /\ (P + 1 - (k + 1)) + 1 = P + 1 - k /\ k + 1 \in 0..left
      BY <1>1
    <3>2. pattern[P + 1 - (k + 1)] = "*"
      BY <1>5, <3>1 DEF OnlyStarsFrom
    <3>3. RestMatches(pattern, name, P + 1 - k, z)
      BY <2>2
    <3> HIDE DEF z, P, left
    <3>4. RestMatches(pattern, name, P + 1 - (k + 1), z)
      BY <1>2, <3>1, <3>2, <3>3
    <3> QED BY <3>1, <3>4
  <2> HIDE DEF Good
  <2>3. left \in Good
    <3> HIDE DEF left
    <3> QED BY <1>1, <2>1, <2>2, NumberInduction
  <2>4. P + 1 - left = p
    BY <1>1
  <2> HIDE DEF z, left
  <2> QED BY <2>3, <2>4 DEF Good
<1> QED BY <1>4, <1>5

\* When it has ended, the rest of the pattern says whether it matched.
LEMMA EndIsRight ==
  ASSUME NEW pattern, Textual(pattern), NEW name, Textual(name), NEW w, InPlace(pattern, name, w), OnTrack(pattern, name, w), Ended(name, w)
  PROVE  RestMatches(pattern, name, 1, 1) <=> (~w.failed /\ OnlyStarsFrom(pattern, w.p))
<1> DEFINE N == Len(name)
<1>1. N \in Nat
  BY TextsAre
<1>2. CASE w.failed
  BY <1>2 DEF OnTrack
<1>3. CASE ~w.failed
  <2>1. w.n = N + 1 /\ w.p \in 1..(Len(pattern) + 1) /\ w \in Where
    BY <1>1, <1>3 DEF InPlace, Ended, Where
  <2>2. ~Later(pattern, name, w)
    <3> SUFFICES ASSUME Later(pattern, name, w) PROVE FALSE
      OBVIOUS
    <3>1. PICK j \in 1..(N + 1) : j > w.from /\ RestMatches(pattern, name, w.star + 1, j) /\ w.star > 0
      BY DEF Later
    <3>2. RestMatches(pattern, name, w.p, j + Swallowed(w))
      BY <3>1 DEF OnTrack
    <3>3. j + Swallowed(w) <= N + 1
      BY <1>1, <3>2 DEF RestMatches
    <3>4. N + 1 = w.from + Swallowed(w) /\ w.from \in Nat /\ Swallowed(w) \in Int
      BY <2>1, <3>1 DEF InPlace, Where, Swallowed
    <3> QED BY <1>1, <3>1, <3>3, <3>4
  <2>3. RestMatches(pattern, name, 1, 1) <=> RestMatches(pattern, name, w.p, N + 1)
    BY <1>3, <2>1, <2>2 DEF OnTrack
  <2> QED BY <1>3, <2>1, <2>3, RestOfNothing
<1> QED BY <1>2, <1>3

\* The loop, whose turns suffice.
Began == [p |-> 1, n |-> 1, star |-> 0, from |-> 0, failed |-> FALSE]
OneTurn(pattern, name, w) == IF w.failed \/ w.n > Len(name) THEN w ELSE Turn(pattern, name, w)
Turns(pattern, name) == (Len(name) + 1) * (Len(pattern) + 1)
IsLoop(loop, pattern, name) ==
  loop = [k \in 0..Turns(pattern, name) |-> IF k = 0 THEN Began ELSE OneTurn(pattern, name, loop[k - 1])]

\* globMatch is that loop.
LEMMA GlobIsLoop ==
  ASSUME NEW pattern, NEW name
  PROVE  LET loop == CHOOSE loop : IsLoop(loop, pattern, name)
             last == loop[Turns(pattern, name)]
         IN globMatch(pattern, name) <=> ~last.failed /\ OnlyStarsFrom(pattern, last.p)
  BY DEF globMatch, IsLoop, Began, OneTurn, Turns

\* The turns are counted.
LEMMA TurnsAre == ASSUME NEW pattern, Textual(pattern), NEW name, Textual(name) PROVE Turns(pattern, name) \in Nat
<1> DEFINE M == Len(pattern) + 1  N == Len(name) + 1
<1>1. M \in Nat /\ N \in Nat
  BY TextsAre
<1> HIDE DEF M, N
<1>2. N * M \in Nat
  BY <1>1
<1> QED BY <1>2 DEF Turns, M, N

\* So is how far it has come.
LEMMA ProgressIs == ASSUME NEW pattern, Textual(pattern), NEW name, NEW w, InPlace(pattern, name, w) PROVE Progress(pattern, w) \in Nat
<1> DEFINE M == Len(pattern) + 1
<1>1. M \in Nat /\ w.from \in Nat /\ w.p \in Nat
  BY TextsAre DEF InPlace, Where
<1> HIDE DEF M
<1>2. w.from * M \in Nat
  BY <1>1
<1> QED BY <1>1, <1>2 DEF Progress, M

\* The loop begins in place and on track.
LEMMA BeganRight ==
  ASSUME NEW pattern, Textual(pattern), NEW name, Textual(name)
  PROVE  Began \in Where /\ InPlace(pattern, name, Began) /\ OnTrack(pattern, name, Began)
<1>1. Len(pattern) \in Nat /\ Len(name) \in Nat
  BY TextsAre
<1>2. Began.p = 1 /\ Began.n = 1 /\ Began.star = 0 /\ Began.from = 0 /\ Began.failed = FALSE /\ Began \in Where
  BY DEF Began, Where
<1> QED BY <1>1, <1>2 DEF InPlace, OnTrack, Later

\* It has a state at every turn.
LEMMA LoopExists ==
  ASSUME NEW pattern, Textual(pattern), NEW name, Textual(name), PlainName(name)
  PROVE  \E loop : IsLoop(loop, pattern, name)
<1> DEFINE T == Turns(pattern, name)  A == {w \in Where : InPlace(pattern, name, w) /\ OnTrack(pattern, name, w)}
           next == [x \in (1..T) \X A |-> OneTurn(pattern, name, x[2])]
<1>1. Began \in A
  BY BeganRight
<1>2. ASSUME NEW w \in A PROVE OneTurn(pattern, name, w) \in A
  BY TurnGoesOn DEF OneTurn, Ended, InPlace
<1>3. \A k \in 1..T, a \in A : next[<<k, a>>] = OneTurn(pattern, name, a) /\ next[<<k, a>>] \in A
  BY <1>2
<1>4. T \in Nat
  BY TurnsAre
<1> HIDE DEF A, next, T
<1>5. PICK loop : loop = [k \in 0..T |-> IF k = 0 THEN Began ELSE next[<<k, loop[k - 1]>>]] /\ loop \in [0..T -> A]
  BY <1>1, <1>3, <1>4, StepByStep, ZenonT(40)
<1>6. ASSUME NEW k \in 0..T PROVE loop[k] = IF k = 0 THEN Began ELSE OneTurn(pattern, name, loop[k - 1])
  <2>1. k # 0 => k \in 1..T /\ k - 1 \in 0..T
    BY <1>4
  <2>2. k # 0 => loop[k - 1] \in A
    BY <1>5, <2>1
  <2>3. loop[k] = IF k = 0 THEN Began ELSE next[<<k, loop[k - 1]>>]
    BY <1>5
  <2> QED BY <1>3, <2>1, <2>2, <2>3
<1>7. loop = [k \in 0..T |-> loop[k]]
  BY <1>5
<1>8. loop = [k \in 0..T |-> IF k = 0 THEN Began ELSE OneTurn(pattern, name, loop[k - 1])]
  BY <1>6, <1>7
<1> QED BY <1>8 DEF IsLoop, T

\* The loop ends within its turns: each goes further, and there is only so far to go.
LEMMA LoopEnds ==
  ASSUME NEW pattern, Textual(pattern), NEW name, Textual(name), PlainName(name), NEW loop, IsLoop(loop, pattern, name)
  PROVE  LET last == loop[Turns(pattern, name)] IN InPlace(pattern, name, last) /\ OnTrack(pattern, name, last) /\ Ended(name, last)
<1> DEFINE T == Turns(pattern, name)
           Fine(w, k) == InPlace(pattern, name, w) /\ OnTrack(pattern, name, w) /\ (Ended(name, w) \/ Progress(pattern, w) >= k + 1)
           Good == {k \in 0..T : Fine(loop[k], k)}
<1>1. T \in Nat
  BY TurnsAre
<1>2. 0 \in Good
  <2>1. loop[0] = Began /\ 0 \in 0..T
    BY <1>1 DEF IsLoop
  <2>2. Progress(pattern, Began) >= 1
    <3>1. Len(pattern) + 1 \in Nat
      BY TextsAre
    <3> QED BY <3>1 DEF Progress, Began
  <2>3. Fine(Began, 0)
    BY <2>2, BeganRight
  <2> HIDE DEF Fine, T
  <2> QED BY <2>1, <2>3
<1>3. ASSUME NEW k \in 0..(T - 1), k \in Good PROVE k + 1 \in Good
  <2> DEFINE w == loop[k]  v == loop[k + 1]
  <2>1. k + 1 \in 0..T /\ k + 1 # 0 /\ (k + 1) - 1 = k
    BY <1>1
  <2>2. v = OneTurn(pattern, name, w)
    BY <2>1 DEF IsLoop
  <2>3. Fine(w, k)
    BY <1>3
  <2> HIDE DEF w, v
  <2>4. CASE Ended(name, w)
    <3>1. v = w
      BY <2>2, <2>4 DEF OneTurn, Ended
    <3> QED BY <2>1, <2>3, <2>4, <3>1 DEF v
  <2>5. CASE ~Ended(name, w)
    <3>1. v = Turn(pattern, name, w)
      BY <2>2, <2>5 DEF OneTurn, Ended
    <3>2. InPlace(pattern, name, v) /\ OnTrack(pattern, name, v) /\ (v.failed \/ Progress(pattern, v) >= Progress(pattern, w) + 1)
      BY <2>3, <2>5, <3>1, TurnGoesOn
    <3>3. Progress(pattern, w) >= k + 1
      BY <2>3, <2>5
    <3>4. Progress(pattern, v) \in Int /\ Progress(pattern, w) \in Int
      BY <2>3, <3>2, ProgressIs
    <3>5. Ended(name, v) \/ Progress(pattern, v) >= (k + 1) + 1
      BY <3>2, <3>3, <3>4 DEF Ended
    <3> QED BY <2>1, <3>2, <3>5 DEF v
  <2> QED BY <2>4, <2>5
<1> HIDE DEF Good
<1>4. T \in Good
  <2> HIDE DEF T
  <2> QED BY <1>1, <1>2, <1>3, NumberInduction
<1> DEFINE last == loop[T]
<1>5. Fine(last, T)
  BY <1>4 DEF Good
<1>6. ASSUME ~Ended(name, last) PROVE FALSE
  <2> DEFINE N == Len(name)  M == Len(pattern) + 1
  <2>1. InPlace(pattern, name, last) /\ Progress(pattern, last) >= T + 1
    BY <1>5, <1>6
  <2> HIDE DEF last
  <2>2. N \in Nat /\ M \in Nat
    BY TextsAre
  <2>3. last.p <= M /\ last.from <= N /\ last.from \in Nat /\ last.p \in Nat
    <3>1. last.n <= N
      BY <1>6, <2>1, <2>2 DEF Ended, InPlace, Where
    <3> QED BY <2>1, <2>2, <3>1 DEF InPlace, Where, Swallowed
  <2> HIDE DEF N, M
  <2>4. last.from * M <= N * M /\ (N + 1) * M = N * M + M /\ last.from * M \in Nat /\ N * M \in Nat
    BY <2>2, <2>3
  <2>5. Progress(pattern, last) = last.from * M + last.p /\ T = (N + 1) * M
    BY DEF Progress, M, N, Turns
  <2> QED BY <2>1, <2>2, <2>3, <2>4, <2>5
<1> QED BY <1>5, <1>6

\* globMatch says what namePattern says, of every pattern and every name without a *.
LEMMA GlobIsPattern ==
  ASSUME NEW pattern, Textual(pattern), NEW name, Textual(name), PlainName(name)
  PROVE  globMatch(pattern, name) <=> namePattern(pattern, name)
<1> DEFINE loop == CHOOSE loop : IsLoop(loop, pattern, name)  last == loop[Turns(pattern, name)]
<1>1. IsLoop(loop, pattern, name)
  BY LoopExists
<1>2. globMatch(pattern, name) <=> ~last.failed /\ OnlyStarsFrom(pattern, last.p)
  BY GlobIsLoop
<1> HIDE DEF loop
<1>3. InPlace(pattern, name, last) /\ OnTrack(pattern, name, last) /\ Ended(name, last)
  BY <1>1, LoopEnds
<1> HIDE DEF last
<1>4. RestMatches(pattern, name, 1, 1) <=> (~last.failed /\ OnlyStarsFrom(pattern, last.p))
  BY <1>3, EndIsRight
<1> QED BY <1>2, <1>4, TextsAre, RestIsWhole

-----------------------------------------------------------------------------
(* Items: what splitting them leaves, and of which kinds they are. *)

\* Without wildcards a pattern means itself.
LEMMA PlainPattern ==
  ASSUME NEW pattern, Textual(pattern), NEW name, Textual(name), ~HasWildcard(pattern)
  PROVE  pattern = name <=> namePattern(pattern, name)
<1> DEFINE P == Len(pattern)  N == Len(name)
<1>1. P \in Nat /\ N \in Nat /\ DOMAIN pattern = 1..P /\ DOMAIN name = 1..N
  BY TextsAre
<1>2. \A i \in 1..P : pattern[i] # "*" /\ pattern[i] # "?"
  BY <1>1 DEF HasWildcard
<1>3. namePattern(pattern, name) <=> RestMatches(pattern, name, 1, 1)
  BY <1>1, RestIsWhole
<1>4. ASSUME NEW i \in 1..P, NEW j \in 1..(N + 1) PROVE RestMatches(pattern, name, i, j) <=> j <= N /\ pattern[i] = name[j] /\ RestMatches(pattern, name, i + 1, j + 1)
  <2> DEFINE A == STRING
  <2>1. name \in Seq(A)
    BY DEF Textual
  <2> HIDE DEF A
  <2> QED BY <1>1, <1>2, <2>1, RestFromOther
<1>5. ASSUME RestMatches(pattern, name, 1, 1) PROVE pattern = name
  <2> DEFINE Good == {k \in 0..P : RestMatches(pattern, name, k + 1, k + 1) /\ \A i \in 1..k : i <= N /\ pattern[i] = name[i]}
  <2>1. 0 \in Good
    <3>1. 0 + 1 = 1 /\ 1..0 = {} /\ 0 \in 0..P
      BY <1>1
    <3> HIDE DEF P, N
    <3> QED BY <1>5, <3>1
  <2>2. ASSUME NEW k \in 0..(P - 1), k \in Good PROVE k + 1 \in Good
    <3>1. k + 1 \in 1..P /\ k + 1 \in 0..P /\ 1..(k + 1) = 1..k \cup {k + 1}
      BY <1>1
    <3>2. RestMatches(pattern, name, k + 1, k + 1) /\ \A i \in 1..k : i <= N /\ pattern[i] = name[i]
      BY <2>2
    <3>3. k + 1 \in 1..(N + 1)
      BY <3>2 DEF RestMatches
    <3> HIDE DEF P, N
    <3>4. k + 1 <= N /\ pattern[k + 1] = name[k + 1] /\ RestMatches(pattern, name, (k + 1) + 1, (k + 1) + 1)
      BY <1>4, <3>1, <3>2, <3>3
    <3> QED BY <3>1, <3>2, <3>4
  <2> HIDE DEF Good
  <2>3. P \in Good
    <3> HIDE DEF P
    <3> QED BY <1>1, <2>1, <2>2, NumberInduction
  <2>4. RestMatches(pattern, name, P + 1, P + 1) /\ \A i \in 1..P : pattern[i] = name[i]
    BY <2>3 DEF Good
  <2>5. P + 1 = N + 1
    BY <1>1, <2>4, RestAtEnd
  <2>6. P = N
    <3> HIDE DEF P, N
    <3> QED BY <1>1, <2>5
  <2>7. pattern \in Seq(STRING) /\ name \in Seq(STRING)
    BY DEF Textual
  <2> QED BY <1>1, <2>4, <2>6, <2>7
<1>6. ASSUME pattern = name PROVE RestMatches(pattern, name, 1, 1)
  <2> DEFINE Good == {k \in 0..P : RestMatches(pattern, name, P + 1 - k, P + 1 - k)}
  <2>1. 0 \in Good
    <3>1. P + 1 - 0 = P + 1 /\ 0 \in 0..P /\ P = N
      BY <1>1, <1>6
    <3>2. RestMatches(pattern, name, P + 1, P + 1)
      BY <1>1, <3>1, RestAtEnd
    <3> HIDE DEF P
    <3> QED BY <3>1, <3>2
  <2>2. ASSUME NEW k \in 0..(P - 1), k \in Good PROVE k + 1 \in Good
    <3>1. P + 1 - (k + 1) \in 1..P /\ (P + 1 - (k + 1)) + 1 = P + 1 - k /\ k + 1 \in 0..P
      BY <1>1
    <3>2. RestMatches(pattern, name, P + 1 - k, P + 1 - k)
      BY <2>2
    <3>3. P = N
      BY <1>6
    <3>4. P + 1 - (k + 1) \in 1..(N + 1) /\ P + 1 - (k + 1) <= N
      BY <1>1, <3>1, <3>3
    <3> DEFINE x == P + 1 - (k + 1)
    <3>5. x \in 1..P /\ x \in 1..(N + 1) /\ x <= N /\ RestMatches(pattern, name, x + 1, x + 1) /\ pattern[x] = name[x]
      <4> HIDE DEF P, N
      <4> QED BY <1>6, <3>1, <3>2, <3>4
    <3> HIDE DEF x, P, N
    <3>6. RestMatches(pattern, name, x, x)
      BY <1>4, <3>5
    <3> QED BY <3>1, <3>6 DEF x
  <2> HIDE DEF Good
  <2>3. P \in Good
    <3> HIDE DEF P
    <3> QED BY <1>1, <2>1, <2>2, NumberInduction
  <2>4. P + 1 - P = 1
    BY <1>1
  <2> HIDE DEF P
  <2> QED BY <2>3, <2>4 DEF Good
<1> QED BY <1>3, <1>5, <1>6

\* So an item is taken for the same names by the engine and by an agent.
LEMMA NamesAlike ==
  ASSUME NEW item, Textual(item), NEW name, Textual(name)
  PROVE  /\ (IF ~HasWildcard(item) THEN item = name ELSE namePattern(item, name)) <=> namePattern(item, name)
         /\ PlainName(name) => ((IF ~HasWildcard(item) THEN item = name ELSE globMatch(item, name)) <=> namePattern(item, name))
<1>1. CASE ~HasWildcard(item)
  BY <1>1, PlainPattern
<1>2. CASE HasWildcard(item)
  BY <1>2, GlobIsPattern
<1> QED BY <1>1, <1>2

\* The parts of a text without commas are itself, those of others are texts without commas.
NoComma(x) == \A i \in DOMAIN x : x[i] # ","
\* The parts of a text are texts without commas.
LEMMA PartsAre ==
  ASSUME NEW text, Textual(text), NEW part \in Parts(text)
  PROVE  Textual(part) /\ NoComma(part) /\ part # <<>>
<1>1. PICK b \in Spans(text) : part = SubSeq(text, b[1], b[2])
  BY DEF Parts
<1> DEFINE n == Len(text)  l == b[1]  h == b[2]
<1>2. n \in Nat /\ l \in 1..n /\ h \in 1..n /\ l <= h /\ (\A i \in l..h : text[i] # ",") /\ text \in Seq(STRING) /\ \A i \in 1..n : text[i] # "end"
  BY TextsAre DEF Spans, Textual
<1>2a. n \in Nat /\ l \in 1..n /\ h \in 1..n /\ l <= h
  BY <1>2
<1> HIDE DEF l, h, n
<1>3. part = SubSeq(text, l, h)
  BY <1>1 DEF l, h
<1>4. /\ part \in Seq(STRING) /\ Len(part) = h - l + 1
      /\ \A i \in 1..(h - l + 1) : part[i] = text[l + i - 1]
  <2> DEFINE A == STRING
  <2>1. l \in Int /\ h \in Int /\ \A i \in l..h : text[i] \in A
    <3>1. l \in Int /\ h \in Int /\ l..h \subseteq 1..n
      BY <1>2a
    <3>2. text \in Seq(A)
      BY <1>2
    <3>3. \A i \in 1..n : text[i] \in A
      BY <3>2 DEF n
    <3> QED BY <3>1, <3>3
  <2> HIDE DEF A
  <2>2. part \in Seq(A) /\ Len(part) = (IF l <= h THEN h - l + 1 ELSE 0) /\ \A i \in 1..(h - l + 1) : part[i] = text[l + i - 1]
    BY <1>3, <2>1, SubSeqProperties
  <2> QED BY <1>2a, <2>2 DEF A
<1>5. DOMAIN part = 1..(h - l + 1) /\ h - l + 1 >= 1
  <2>1. h - l + 1 \in Nat /\ h - l + 1 >= 1
    BY <1>2a
  <2>2. part \in Seq(STRING) /\ Len(part) = h - l + 1
    BY <1>4
  <2>3. DOMAIN part = 1..Len(part)
    BY <2>2
  <2> QED BY <2>1, <2>2, <2>3
<1>6. ASSUME NEW i \in DOMAIN part PROVE part[i] # "," /\ part[i] # "end"
  <2>1. i \in 1..(h - l + 1) /\ l + i - 1 \in l..h /\ l + i - 1 \in 1..n
    BY <1>2a, <1>5
  <2>2. part[i] = text[l + i - 1]
    BY <1>4, <2>1
  <2> QED BY <1>2, <2>1, <2>2
<1>7. part # <<>>
  <2>1. Len(part) >= 1
    BY <1>4, <1>5
  <2> QED BY <2>1
<1> QED BY <1>4, <1>6, <1>7 DEF Textual, NoComma

\* A text without commas is its only part.
LEMMA WholePart ==
  ASSUME NEW text, Textual(text), NoComma(text), text # <<>>
  PROVE  Parts(text) = {text}
<1> DEFINE n == Len(text)  all == <<1, n>>
<1>1. n \in Nat /\ DOMAIN text = 1..n /\ n >= 1 /\ text \in Seq(STRING)
  BY TextsAre DEF Textual
<1>2. all \in Spans(text) /\ \A b \in Spans(text) : 1 <= b[1] /\ b[2] <= n
  <2>1. 1 \in 1..n /\ n \in 1..n
    BY <1>1
  <2>2. all \in (1..n) \X (1..n) /\ all[1] = 1 /\ all[2] = n
    BY <2>1
  <2>3. \A i \in 1..n : text[i] # ","
    BY <1>1 DEF NoComma
  <2>4. all \in Spans(text)
    <3> HIDE DEF all
    <3> QED BY <1>1, <2>2, <2>3 DEF Spans
  <2>5. \A b \in Spans(text) : 1 <= b[1] /\ b[2] <= n
    <3> SUFFICES ASSUME NEW b \in Spans(text) PROVE 1 <= b[1] /\ b[2] <= n
      OBVIOUS
    <3>1. b \in (1..n) \X (1..n)
      BY DEF Spans
    <3>2. b[1] \in 1..n /\ b[2] \in 1..n
      BY <3>1
    <3> HIDE DEF n
    <3> QED BY <1>1, <3>2
  <2> QED BY <2>4, <2>5
<1>3. ASSUME NEW b \in Spans(text) PROVE (\A w \in Spans(text) : ~(w[1] <= b[1] /\ b[2] <= w[2] /\ w # b)) <=> b = all
  <2>1. b \in (1..n) \X (1..n) /\ b[1] <= b[2]
    BY DEF Spans
  <2>2. b # all => all[1] <= b[1] /\ b[2] <= all[2] /\ all # b
    BY <1>2
  <2>3. ASSUME b = all, NEW w \in Spans(text), w[1] <= b[1], b[2] <= w[2] PROVE w = b
    <3>1. w \in (1..n) \X (1..n)
      BY DEF Spans
    <3>2. w[1] = 1 /\ w[2] = n
      BY <1>1, <2>3, <3>1
    <3> QED BY <2>3, <3>1, <3>2
  <2> QED BY <1>2, <2>2, <2>3
<1>4. Parts(text) = {SubSeq(text, all[1], all[2])}
  <2> HIDE DEF all
  <2> QED BY <1>2, <1>3 DEF Parts
<1>5. SubSeq(text, 1, n) = text
  BY <1>1
<1> QED BY <1>4, <1>5

\* What an agent makes of items that are texts without commas, or that are not to be split: the same.
LEMMA ItemsStay ==
  ASSUME NEW items, NEW split \in BOOLEAN, \A x \in items : Textual(x) /\ x # <<>> /\ (split => NoComma(x))
  PROVE  excludeItems(items, split) = items
<1>1. CASE ~split
  BY <1>1 DEF excludeItems
<1>2. CASE split
  <2>1. \A x \in items : Parts(x) = {x}
    BY <1>2, WholePart
  <2>2. UNION {Parts(x) : x \in items} = items
    BY <2>1
  <2> QED BY <1>2, <2>2 DEF excludeItems
<1> QED BY <1>1, <1>2

\* Items of a check's own setting are texts, without commas where they are split.
LEMMA OwnItemsAre ==
  ASSUME NEW lines, \A l \in lines : Textual(l), NEW split \in BOOLEAN, NEW x \in excludeItems(lines, split)
  PROVE  Textual(x) /\ x # <<>> /\ (split => NoComma(x))
  BY PartsAre DEF excludeItems

\* The kinds of a check's items: one, but for the event log's; and which are texts.
LEMMA KindsAre ==
  ASSUME NEW c, KindsOf(c) # {}
  PROVE  /\ OwnKind(c) \in KindsOf(c)
         /\ c.type # "agent_eventlog" => KindsOf(c) = {OwnKind(c)}
         /\ c.type = "agent_eventlog" => KindsOf(c) = {"messages", "event_ids"} /\ OwnKind(c) = "messages"
         /\ \A k \in KindsOf(c) : /\ EXCLUSION_KINDS[k].match = IF k = "messages" THEN "text" ELSE "name"
                                  /\ k = "event_ids" => c.type = "agent_eventlog"
<1>0. OwnKind(c) \in KindsOf(c)
  BY DEF OwnKind
<1>1. \A k \in DOMAIN EXCLUSION_KINDS : EXCLUSION_KINDS[k].match = IF k = "messages" THEN "text" ELSE "name"
  BY DEF EXCLUSION_KINDS, ByName
<1>2. CASE c.type = "host_metric"
  <2>1. KindsOf(c) = {METRIC_INSTANCE_KINDS[i] : i \in {c.instance} \cap DOMAIN METRIC_INSTANCE_KINDS}
    BY <1>2 DEF KindsOf
  <2>2. c.instance \in DOMAIN METRIC_INSTANCE_KINDS /\ KindsOf(c) = {METRIC_INSTANCE_KINDS[c.instance]}
    BY <2>1
  <2>3. METRIC_INSTANCE_KINDS[c.instance] \in DOMAIN EXCLUSION_KINDS /\ METRIC_INSTANCE_KINDS[c.instance] # "event_ids"
    BY <2>2 DEF METRIC_INSTANCE_KINDS, EXCLUSION_KINDS
  <2> HIDE DEF METRIC_INSTANCE_KINDS, EXCLUSION_KINDS
  <2> QED BY <1>0, <1>1, <1>2, <2>2, <2>3
<1>3. CASE c.type # "host_metric"
  <2>1. KindsOf(c) = {k \in DOMAIN EXCLUSION_KINDS : c.type \in EXCLUSION_KINDS[k].types}
    BY <1>3 DEF KindsOf
  <2>2. CASE c.type = "agent_eventlog"
    <3>1. KindsOf(c) = {"messages", "event_ids"}
      BY <2>1, <2>2 DEF EXCLUSION_KINDS, ByName
    <3>2. OwnKind(c) = "messages"
      BY <3>1 DEF OwnKind
    <3> QED BY <1>1, <2>1, <2>2, <3>1, <3>2
  <2>3. CASE c.type # "agent_eventlog"
    <3>1. \A k, m \in KindsOf(c) : k = m
      BY <2>1, <2>3, <1>3 DEF EXCLUSION_KINDS, ByName
    <3>2. "event_ids" \notin KindsOf(c)
      BY <2>1, <2>3 DEF EXCLUSION_KINDS, ByName
    <3> QED BY <1>0, <1>1, <2>1, <2>3, <3>1, <3>2
  <2> QED BY <2>2, <2>3
<1> QED BY <1>2, <1>3

-----------------------------------------------------------------------------
(* What a check ignores is what the lists mean. *)

\* What a check is handed of a copy that is up to date: its own items and those of the lists that cover it.
Own(id) == excludeItems(Subjects[id].own, ~IsText(Subjects[id]))
Covering(id) == {r \in EnabledRows : r.kind \in KindsOf(Subjects[id]) /\ Covers(r, exGroups, id)}
Handed(id) == Own(id) \cup UNION {r.items : r \in Covering(id)}
UpToDate == exCopy.rows = EnabledRows /\ exCopy.groupChecks = [g \in DOMAIN exGroups \cap GroupsOfLists(EnabledRows) |-> exGroups[g]]
RowsListed == \A l \in DOMAIN exLists : exLists[l] \in ListRows

\* Names are compared where texts are not.
LEMMA MatchesAre == ASSUME NEW c, KindsOf(c) # {} PROVE (EXCLUSION_KINDS[OwnKind(c)].match = "name") <=> ~IsText(c)
  BY KindsAre DEF IsText

\* Of a copy that is up to date a check is handed just these.
LEMMA ItemsAreHanded ==
  ASSUME UpToDate, NEW id, KindsOf(Subjects[id]) # {}
  PROVE  exclusionsFor(id) = Handed(id)
<1> DEFINE c == Subjects[id]  groups == exCopy.groupChecks
<1>1. \A r \in EnabledRows : Covers(r, groups, id) <=> Covers(r, exGroups, id)
  <2> SUFFICES ASSUME NEW r \in EnabledRows, ~r.applyToAll
               PROVE  (\E g \in r.groupIds \cap DOMAIN groups : id \in groups[g]) <=> \E g \in r.groupIds \cap DOMAIN exGroups : id \in exGroups[g]
    BY DEF Covers
  <2>1. r.groupIds \subseteq GroupsOfLists(EnabledRows)
    BY DEF GroupsOfLists
  <2>2. groups = [g \in DOMAIN exGroups \cap GroupsOfLists(EnabledRows) |-> exGroups[g]]
    BY DEF UpToDate
  <2> QED BY <2>1, <2>2
<1>2. ItemsOf(exCopy.rows, groups, id) = excludeItems(c.own, ~IsText(c)) \cup UNION {r.items : r \in {r \in EnabledRows : r.kind \in KindsOf(c) /\ Covers(r, groups, id)}}
  <2>1. (EXCLUSION_KINDS[OwnKind(c)].match = "name") = ~IsText(c)
    BY MatchesAre DEF IsText
  <2>2. exCopy.rows = EnabledRows
    BY DEF UpToDate
  <2> QED BY <2>1, <2>2 DEF ItemsOf
<1>3. {r \in EnabledRows : r.kind \in KindsOf(c) /\ Covers(r, groups, id)} = Covering(id)
  BY <1>1 DEF Covering
<1>4. exclusionsFor(id) = ItemsOf(exCopy.rows, groups, id)
  BY DEF exclusionsFor
<1> HIDE DEF groups
<1>5. ItemsOf(exCopy.rows, groups, id) = excludeItems(c.own, ~IsText(c)) \cup UNION {r.items : r \in Covering(id)}
  BY <1>2, <1>3, Zenon
<1> QED BY <1>4, <1>5 DEF Handed, Own

\* They are texts, and if the lists are plain and names are compared, without commas.
LEMMA HandedAre ==
  ASSUME ExclusionsAssumption, RowsListed, \A row \in EnabledRows : Plainly(row), NEW id \in DOMAIN Subjects, NEW x \in Handed(id)
  PROVE  Textual(x) /\ x # <<>> /\ (~IsText(Subjects[id]) => NoComma(x))
<1>1. CASE x \in Own(id)
  <2>1. (~IsText(Subjects[id])) \in BOOLEAN
    BY DEF IsText
  <2>2. \A l \in Subjects[id].own : Textual(l)
    BY ExclusionsAssumption
  <2> HIDE DEF IsText
  <2> QED BY <1>1, <2>1, <2>2, OwnItemsAre DEF Own
<1>2. CASE x \notin Own(id)
  <2>1. PICK r \in EnabledRows : x \in r.items
    BY <1>2 DEF Handed, Covering
  <2>2. r \in ListRows
    BY DEF EnabledRows, RowsListed
  <2>3. Textual(x) /\ x # <<>>
    BY <2>1, <2>2, ExclusionsAssumption
  <2>4. NoComma(x)
    BY <2>1 DEF Plainly, NoComma
  <2> QED BY <2>3, <2>4
<1> QED BY <1>1, <1>2

\* What is meant, item by item.
LEMMA MeantIs ==
  ASSUME NEW id, NEW t, KindsOf(Subjects[id]) # {}
  PROVE  Meant(id, t) <=> \/ \E item \in Own(id) : Means(KindOfOwn(Subjects[id], item), item, t)
                          \/ \E row \in Covering(id) : \E item \in row.items : Means(row.kind, item, t)
  BY DEF Meant, Own, Covering

\* If every item is taken as what it means, what is ignored is what is meant.
LEMMA ItemByItem ==
  ASSUME NEW id, NEW t, KindsOf(Subjects[id]) # {}, NEW hits, 
         \A item \in Own(id) : item \in hits <=> Means(KindOfOwn(Subjects[id], item), item, t),
         \A row \in Covering(id) : \A item \in row.items : item \in hits <=> Means(row.kind, item, t)
  PROVE  Meant(id, t) <=> \E item \in Handed(id) : item \in hits
<1>1. (\E item \in Handed(id) : item \in hits) <=> (\E item \in Own(id) : item \in hits) \/ \E row \in Covering(id) : \E item \in row.items : item \in hits
  BY DEF Handed
<1> QED BY <1>1, MeantIs

\* What a list that covers a check says.
LEMMA RowsAre ==
  ASSUME NEW id, \A row \in EnabledRows : Plainly(row), NEW row \in Covering(id)
  PROVE  row.kind \in KindsOf(Subjects[id]) /\ Plainly(row) /\ row \in EnabledRows
  BY DEF Covering

\* Where texts are compared, but not by the event log.
LEMMA TextsAlike ==
  ASSUME NEW id, NEW t, KindsOf(Subjects[id]) # {}, IsText(Subjects[id]), Subjects[id].type # "agent_eventlog"
  PROVE  Meant(id, t) <=> textExcluded(t.text, Handed(id))
<1> DEFINE c == Subjects[id]  hits == {item \in Handed(id) : textExcluded(t.text, {item})}
<1>1. KindsOf(c) = {OwnKind(c)} /\ EXCLUSION_KINDS[OwnKind(c)].match = "text" /\ OwnKind(c) = "messages"
  BY KindsAre DEF IsText
<1>2. ASSUME NEW item PROVE Means("messages", item, t) <=> textExcluded(t.text, {item})
  BY <1>1 DEF Means
<1>3. \A item \in Own(id) : item \in hits <=> Means(KindOfOwn(c, item), item, t)
  <2>1. \A item : KindOfOwn(c, item) = "messages"
    BY <1>1 DEF KindOfOwn
  <2> QED BY <1>2, <2>1 DEF Handed
<1>4. \A row \in Covering(id) : \A item \in row.items : item \in hits <=> Means(row.kind, item, t)
  <2> SUFFICES ASSUME NEW row \in Covering(id), NEW item \in row.items PROVE item \in hits <=> Means(row.kind, item, t)
    OBVIOUS
  <2>1. row.kind = "messages" /\ item \in Handed(id)
    BY <1>1 DEF Covering, Handed
  <2> QED BY <1>2, <2>1
<1>5. (\E item \in Handed(id) : item \in hits) <=> textExcluded(t.text, Handed(id))
  BY DEF textExcluded
<1> HIDE DEF hits
<1> QED BY <1>3, <1>4, <1>5, ItemByItem

\* Where names are compared.
LEMMA NamesMeant ==
  ASSUME NEW id, NEW t, KindsOf(Subjects[id]) # {}, ~IsText(Subjects[id])
  PROVE  Meant(id, t) <=> t.name # <<>> /\ \E item \in Handed(id) : namePattern(item, t.name)
<1> DEFINE c == Subjects[id]  hits == {item \in Handed(id) : t.name # <<>> /\ namePattern(item, t.name)}
<1>1. KindsOf(c) = {OwnKind(c)} /\ EXCLUSION_KINDS[OwnKind(c)].match = "name" /\ OwnKind(c) # "event_ids" /\ OwnKind(c) # "messages" /\ c.type # "agent_eventlog"
  BY KindsAre DEF IsText
<1>2. ASSUME NEW item PROVE Means(OwnKind(c), item, t) <=> t.name # <<>> /\ namePattern(item, t.name)
  BY <1>1 DEF Means
<1>3. \A item \in Own(id) : item \in hits <=> Means(KindOfOwn(c, item), item, t)
  <2>1. \A item : KindOfOwn(c, item) = OwnKind(c)
    BY <1>1 DEF KindOfOwn
  <2> QED BY <1>2, <2>1 DEF Handed
<1>4. \A row \in Covering(id) : \A item \in row.items : item \in hits <=> Means(row.kind, item, t)
  <2> SUFFICES ASSUME NEW row \in Covering(id), NEW item \in row.items PROVE item \in hits <=> Means(row.kind, item, t)
    OBVIOUS
  <2>1. row.kind = OwnKind(c) /\ item \in Handed(id)
    BY <1>1 DEF Covering, Handed
  <2> QED BY <1>2, <2>1
<1>5. (\E item \in Handed(id) : item \in hits) <=> t.name # <<>> /\ \E item \in Handed(id) : namePattern(item, t.name)
  OBVIOUS
<1> HIDE DEF hits
<1> QED BY <1>3, <1>4, <1>5, ItemByItem

\* In the event log's setting, digits are an event's ID and anything else a text.
LEMMA EventsMeant ==
  ASSUME NEW id, NEW t, KindsOf(Subjects[id]) # {}, Subjects[id].type = "agent_eventlog", \A row \in EnabledRows : Plainly(row)
  PROVE  Meant(id, t) <=> \E item \in Handed(id) : IF isDigits(item) THEN item = t.id ELSE textExcluded(t.text, {item})
<1> DEFINE c == Subjects[id]  Hit(item) == IF isDigits(item) THEN item = t.id ELSE textExcluded(t.text, {item})
           hits == {item \in Handed(id) : Hit(item)}
<1>1. KindsOf(c) = {"messages", "event_ids"} /\ OwnKind(c) = "messages" /\ EXCLUSION_KINDS["messages"].match = "text"
  BY KindsAre
<1>2. ASSUME NEW item PROVE /\ isDigits(item) => (Means("event_ids", item, t) <=> Hit(item))
                            /\ ~isDigits(item) => (Means("messages", item, t) <=> Hit(item))
  <2>1. Means("event_ids", item, t) <=> item = t.id
    <3>1. EXCLUSION_KINDS["event_ids"].match # "text"
      BY DEF EXCLUSION_KINDS, ByName
    <3> QED BY <3>1 DEF Means
  <2>2. Means("messages", item, t) <=> textExcluded(t.text, {item})
    <3>1. "messages" # "event_ids" /\ EXCLUSION_KINDS["messages"].match = "text"
      BY <1>1
    <3> QED BY <3>1 DEF Means
  <2>3. Hit(item) <=> IF isDigits(item) THEN item = t.id ELSE textExcluded(t.text, {item})
    OBVIOUS
  <2> HIDE DEF Hit
  <2> QED BY <2>1, <2>2, <2>3, Zenon
<1>3. \A item \in Own(id) : item \in hits <=> Means(KindOfOwn(c, item), item, t)
  <2> SUFFICES ASSUME NEW item \in Own(id) PROVE Hit(item) <=> Means(KindOfOwn(c, item), item, t)
    BY DEF Handed
  <2>1. KindOfOwn(c, item) = IF isDigits(item) THEN "event_ids" ELSE "messages"
    BY <1>1 DEF KindOfOwn
  <2> HIDE DEF Hit
  <2> QED BY <1>2, <2>1
<1>4. \A row \in Covering(id) : \A item \in row.items : item \in hits <=> Means(row.kind, item, t)
  <2> SUFFICES ASSUME NEW row \in Covering(id), NEW item \in row.items PROVE Hit(item) <=> Means(row.kind, item, t)
    BY DEF Handed
  <2>1. row.kind \in {"messages", "event_ids"} /\ Plainly(row)
    BY <1>1, RowsAre
  <2>2. (row.kind = "event_ids" => isDigits(item)) /\ (row.kind = "messages" => ~isDigits(item))
    BY <2>1 DEF Plainly
  <2> HIDE DEF Hit
  <2> QED BY <1>2, <2>1, <2>2
<1>5. (\E item \in Handed(id) : item \in hits) <=> \E item \in Handed(id) : Hit(item)
  OBVIOUS
<1> HIDE DEF hits, Hit
<1>6. Meant(id, t) <=> \E item \in Handed(id) : Hit(item)
  BY <1>3, <1>4, <1>5, ItemByItem
<1> QED BY <1>6 DEF Hit

\* What an agent is handed as text, it takes apart as it was.
LEMMA AgentsGet ==
  ASSUME ExclusionsAssumption, RowsListed, \A row \in EnabledRows : Plainly(row), NEW id \in DOMAIN Subjects
  PROVE  excludeItems(Handed(id), ~IsText(Subjects[id])) = Handed(id)
<1> DEFINE items == Handed(id)  split == ~IsText(Subjects[id])
<1>1. \A x \in items : Textual(x) /\ x # <<>> /\ (split => NoComma(x))
  BY HandedAre
<1>2. split \in BOOLEAN
  BY DEF IsText
<1> HIDE DEF items, split
<1>3. excludeItems(items, split) = items
  BY <1>1, <1>2, ItemsStay
<1> QED BY <1>3 DEF items, split

\* So every check ignores just what the lists mean, whoever runs it.
LEMMA IgnoredIsMeant ==
  ASSUME ExclusionsAssumption, UpToDate, RowsListed, \A row \in EnabledRows : Plainly(row),
         NEW id \in DOMAIN Subjects, NEW t \in Things, PlainThing(t)
  PROVE  Ignores(id, t) <=> Meant(id, t)
<1> DEFINE c == Subjects[id]  items == Handed(id)
<1>1. CASE KindsOf(c) = {}
  BY <1>1 DEF Ignores, Meant
<1>2. CASE KindsOf(c) # {}
  <2>0. exclusionsFor(id) = items /\ excludeItems(items, ~IsText(c)) = items
    BY <1>2, ItemsAreHanded, AgentsGet
  <2>1. \A x \in items : Textual(x) /\ x # <<>>
    BY HandedAre
  <2>2. Textual(t.name) /\ PlainName(t.name)
    BY ExclusionsAssumption DEF PlainThing, PlainName
  <2>3. CASE ~IsText(c)
    <3>1. Meant(id, t) <=> t.name # <<>> /\ \E item \in items : namePattern(item, t.name)
      BY <1>2, <2>3, NamesMeant
    <3>2. ASSUME NEW item \in items
          PROVE  /\ (IF ~HasWildcard(item) THEN item = t.name ELSE globMatch(item, t.name)) <=> namePattern(item, t.name)
                 /\ (IF ~HasWildcard(item) THEN item = t.name ELSE namePattern(item, t.name)) <=> namePattern(item, t.name)
      BY <2>1, <2>2, NamesAlike
    <3> HIDE DEF items
    <3>3. nameExcluded(t.name, items, "engine") <=> t.name # <<>> /\ \E item \in items : namePattern(item, t.name)
      BY <3>2 DEF nameExcluded
    <3>4. nameExcluded(t.name, items, "agent") <=> t.name # <<>> /\ \E item \in items : namePattern(item, t.name)
      BY <3>2 DEF nameExcluded
    <3>5. ByEngine(c, items, t) <=> nameExcluded(t.name, items, "engine")
      BY <2>3 DEF ByEngine
    <3>6. ByAgent(c, items, t) <=> nameExcluded(t.name, items, "agent")
      BY <2>0, <2>3 DEF ByAgent
    <3>7. Ignores(id, t) <=> IF c.type \in RunsAtAgent THEN ByAgent(c, items, t) ELSE ByEngine(c, items, t)
      BY <1>2, <2>0 DEF Ignores
    <3> QED BY <3>1, <3>3, <3>4, <3>5, <3>6, <3>7
  <2>4. CASE IsText(c) /\ c.type # "agent_eventlog"
    <3>1. Meant(id, t) <=> textExcluded(t.text, items)
      BY <1>2, <2>4, TextsAlike
    <3> HIDE DEF items
    <3>2. ByEngine(c, items, t) <=> textExcluded(t.text, items)
      BY <2>4 DEF ByEngine
    <3>3. ByAgent(c, items, t) <=> textExcluded(t.text, items)
      <4> DEFINE got == excludeItems(items, ~IsText(c))  ids == {i \in got : c.type = "agent_eventlog" /\ isDigits(i)}
      <4>1. ByAgent(c, items, t) <=> textExcluded(t.text, got \ ids) \/ nameExcluded(t.id, ids, "agent")
        BY <2>4 DEF ByAgent
      <4>2. ids = {} /\ got \ ids = items
        BY <2>0, <2>4
      <4> HIDE DEF got, ids
      <4>3. ~nameExcluded(t.id, ids, "agent")
        BY <4>2 DEF nameExcluded
      <4> QED BY <4>1, <4>2, <4>3
    <3>4. Ignores(id, t) <=> IF c.type \in RunsAtAgent THEN ByAgent(c, items, t) ELSE ByEngine(c, items, t)
      BY <1>2, <2>0 DEF Ignores
    <3> QED BY <3>1, <3>2, <3>3, <3>4
  <2>5. CASE c.type = "agent_eventlog"
    <3>0. IsText(c) /\ c.type \in RunsAtAgent
      BY <1>2, <2>5, KindsAre DEF IsText, RunsAtAgent
    <3>1. Meant(id, t) <=> \E item \in items : IF isDigits(item) THEN item = t.id ELSE textExcluded(t.text, {item})
      BY <1>2, <2>5, EventsMeant
    <3> HIDE DEF items
    <3> DEFINE got == excludeItems(items, ~IsText(c))  ids == {i \in got : c.type = "agent_eventlog" /\ isDigits(i)}
    <3>2. ByAgent(c, items, t) <=> textExcluded(t.text, got \ ids) \/ nameExcluded(t.id, ids, "agent")
      BY <3>0 DEF ByAgent
    <3>3. ids = {i \in items : isDigits(i)} /\ got \ ids = {i \in items : ~isDigits(i)}
      BY <2>0, <2>5
    <3> HIDE DEF got, ids
    <3>4. \A i \in ids : ~HasWildcard(i) /\ i # <<>>
      BY <2>1, <3>3 DEF HasWildcard, isDigits
    <3>5. nameExcluded(t.id, ids, "agent") <=> \E i \in ids : i = t.id
      BY <3>4 DEF nameExcluded
    <3>6. textExcluded(t.text, got \ ids) <=> \E i \in got \ ids : textExcluded(t.text, {i})
      BY DEF textExcluded
    <3>7. Ignores(id, t) <=> ByAgent(c, items, t)
      BY <1>2, <2>0, <3>0 DEF Ignores
    <3>8. (\E item \in items : IF isDigits(item) THEN item = t.id ELSE textExcluded(t.text, {item}))
          <=> (\E i \in ids : i = t.id) \/ \E i \in got \ ids : textExcluded(t.text, {i})
      BY <3>3
    <3> QED BY <3>1, <3>2, <3>5, <3>6, <3>7, <3>8
  <2> QED BY <2>3, <2>4, <2>5
<1> QED BY <1>1, <1>2

\* No step makes a list of anything but what a request may say.
LEMMA RowsStayListed == RowsListed /\ [ExclusionsNext]_exvars => RowsListed'
<1> SUFFICES ASSUME RowsListed, [ExclusionsNext]_exvars PROVE RowsListed'
  OBVIOUS
<1>1. CASE UNCHANGED exLists
  BY <1>1 DEF RowsListed
<1>2. ASSUME NEW l \in ListIds, NEW row \in ListRows, CreateList(l, row) PROVE RowsListed'
  <2>1. exLists' = With(exLists, l, row)
    BY <1>2 DEF CreateList, WriteLists
  <2> QED BY <2>1 DEF With, RowsListed
<1>3. ASSUME NEW l \in DOMAIN exLists, NEW row \in ListRows, PatchList(l, row) PROVE RowsListed'
  BY <1>3 DEF PatchList, WriteLists, RowsListed
<1>4. ASSUME NEW l \in ListIds, DeleteList(l) PROVE RowsListed'
  BY <1>4 DEF DeleteList, WriteLists, RowsListed
<1>5. CASE enabledLists \/ ListsAreRead \/ ReadingFails \/ CopyExpires \/ \E m \in Memberships : Regroup(m)
  BY <1>1, <1>5 DEF enabledLists, ListsAreRead, ReadingFails, CopyExpires, Regroup
<1> QED BY <1>1, <1>2, <1>3, <1>4, <1>5 DEF ExclusionsNext, exvars

(* A change of a list applies, once the copy is read again, and an item      *)
(* means the same to the engine's pattern loop and to an agent's regular     *)
(* expression, for every pattern, name and list (exclusions.ts, exclude.ts,  *)
(* exclude.go).                                                              *)
THEOREM ListsDoApply == ExclusionsInit /\ [][ExclusionsNext]_exvars => []ListsApply
<1> DEFINE I == ListsInv /\ RowsListed
<1>1. ExclusionsInit => I
  BY ListsStart DEF ExclusionsInit, RowsListed
<1>2. I /\ [ExclusionsNext]_exvars => I'
  BY ListsStep, RowsStayListed
<1>3. I => ListsApply
  <2> SUFFICES ASSUME I PROVE ListsApply
    OBVIOUS
  <2>1. CopyIsCurrent
    BY DEF ListsInv, CopyIsCurrent
  <2>2. ASSUME exCopy # None, exCopy.asOf = exEdits PROVE UpToDate
    BY <2>1, <2>2 DEF CopyIsCurrent, UpToDate
  <2>3. SameEverywhere
    BY <2>2, ExclusionsAssumption, IgnoredIsMeant DEF SameEverywhere
  <2> QED BY <2>1, <2>3 DEF ListsApply
<1> HIDE DEF I
<1> QED BY <1>1, <1>2, <1>3, PTL
=============================================================================
