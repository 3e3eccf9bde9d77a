-------------------------------- MODULE Sums ---------------------------------
(***************************************************************************)
(* What a sum over a finite set of rows is, whatever order it is added in:  *)
(* the facts the accounts of a bill, a branch and a transfer rest on.       *)
(***************************************************************************)
EXTENDS Integers, FiniteSets, Functions, FiniteSetTheorems, WellFoundedInduction, TLAPS

------------------------------------------------------------------------------
(* Induction on finite sets, with a set for the predicate *)

LEMMA SetInduction ==
  ASSUME NEW S, IsFiniteSet(S), NEW G,
         \A T \in SUBSET S : (\A x \in T : T \ {x} \in G) => T \in G
  PROVE  S \in G
<1> DEFINE Bad == (SUBSET S) \ G
           R == StrictSubsetOrdering(S)
<1> SUFFICES ASSUME S \notin G PROVE FALSE
  OBVIOUS
<1>0. FiniteSubsetsOf(S) = SUBSET S
  BY FS_FiniteSubsetsOfFinite
<1>1. IsWellFoundedOn(R, SUBSET S)
  BY ONLY <1>0, FS_StrictSubsetOrderingWellFounded
<1>2. Bad \subseteq SUBSET S /\ Bad # {}
  OBVIOUS
<1> HIDE DEF Bad
<1>3. PICK T \in Bad : \A U \in Bad : <<U, T>> \notin R
  BY <1>1, <1>2, WFMin
<1> USE DEF Bad
<1>4. ASSUME NEW x \in T PROVE T \ {x} \in G
  <2>1. <<T \ {x}, T>> \in R
    BY DEF StrictSubsetOrdering
  <2> QED
    BY <1>3, <2>1
<1> QED
  BY <1>4

------------------------------------------------------------------------------
(* The walk that adds the rows up *)

First(U) == CHOOSE y \in U : TRUE
Walks(f, S, g) ==
  g = [U \in SUBSET S |-> IF U = {} THEN 0 ELSE f[First(U)] + g[U \ {First(U)}]]

LEMMA FirstIn == ASSUME NEW U, U # {} PROVE First(U) \in U
BY DEF First

\* Two walks that cross agree.
LEMMA WalksAgree ==
  ASSUME NEW f, NEW A, NEW B, NEW g, NEW h, Walks(f, A, g), Walks(f, B, h),
         NEW S \in SUBSET (A \cap B), IsFiniteSet(S)
  PROVE  g[S] = h[S]
<1> DEFINE G == {T \in SUBSET S : g[T] = h[T]}
<1>1. ASSUME NEW T \in SUBSET S, \A x \in T : T \ {x} \in G
      PROVE  T \in G
  <2>1. CASE T = {}
    BY <2>1 DEF Walks
  <2>2. CASE T # {}
    <3> DEFINE x == First(T)
    <3>1. x \in T
      BY <2>2, FirstIn
    <3>2. T \in SUBSET A /\ T \in SUBSET B /\ T \ {x} \in SUBSET A /\ T \ {x} \in SUBSET B
      OBVIOUS
    <3>3. g[T] = f[x] + g[T \ {x}]
      BY <2>2, <3>2 DEF Walks
    <3>4. h[T] = f[x] + h[T \ {x}]
      BY <2>2, <3>2 DEF Walks
    <3>5. g[T \ {x}] = h[T \ {x}]
      BY <1>1, <3>1
    <3> QED
      BY <3>3, <3>4, <3>5
  <2> QED
    BY <2>1, <2>2
<1> HIDE DEF G
<1>2. S \in G
  BY <1>1, SetInduction
<1> QED
  BY <1>2 DEF G

\* There is a walk of every finite set.
LEMMA WalkExists ==
  ASSUME NEW f, NEW S, IsFiniteSet(S)
  PROVE  \E g : Walks(f, S, g)
<1> DEFINE G == {T \in SUBSET S : \E g : Walks(f, T, g)}
<1>1. ASSUME NEW T \in SUBSET S, \A x \in T : T \ {x} \in G
      PROVE  T \in G
  <2> DEFINE Sub(x) == CHOOSE g : Walks(f, T \ {x}, g)
             Out(U) == First(T \ U)
             g == [U \in SUBSET T |->
                    IF U # T THEN Sub(Out(U))[U]
                    ELSE IF T = {} THEN 0 ELSE f[First(T)] + Sub(First(T))[T \ {First(T)}]]
  <2>1. ASSUME NEW x \in T PROVE Walks(f, T \ {x}, Sub(x))
    BY <1>1
  <2> HIDE DEF Sub
  <2>2. ASSUME NEW U \in SUBSET T, NEW x \in T \ U
        PROVE  g[U] = Sub(x)[U]
    <3>1. U # T /\ Out(U) \in T \ U
      BY FirstIn
    <3>2. Walks(f, T \ {x}, Sub(x)) /\ Walks(f, T \ {Out(U)}, Sub(Out(U)))
      BY <2>1, <3>1
    <3>3. U \in SUBSET ((T \ {x}) \cap (T \ {Out(U)}))
      BY <3>1
    <3>4. IsFiniteSet(U)
      BY FS_Subset
    <3> HIDE DEF Out
    <3>5. Sub(Out(U))[U] = Sub(x)[U]
      BY <3>2, <3>3, <3>4, WalksAgree
    <3> QED
      BY <3>1, <3>5
  <2>3. ASSUME NEW U \in SUBSET T
        PROVE  g[U] = IF U = {} THEN 0 ELSE f[First(U)] + g[U \ {First(U)}]
    <3> HIDE DEF g
    <3>1. CASE U # T
      <4>1. PICK x \in T : x \notin U
        BY <3>1
      <4>2. g[U] = Sub(x)[U]
        BY <2>2, <4>1
      <4>3. Walks(f, T \ {x}, Sub(x)) /\ U \in SUBSET (T \ {x})
        BY <2>1, <4>1
      <4>4. CASE U = {}
        BY <4>2, <4>3, <4>4 DEF Walks
      <4>5. CASE U # {}
        <5> DEFINE y == First(U)
        <5>1. y \in U /\ U \ {y} \in SUBSET T /\ x \in T \ (U \ {y})
          BY <4>1, <4>5, FirstIn
        <5>2. Sub(x)[U] = f[y] + Sub(x)[U \ {y}]
          BY <4>3, <4>5 DEF Walks
        <5>3. g[U \ {y}] = Sub(x)[U \ {y}]
          BY <2>2, <5>1
        <5> QED
          BY <4>2, <4>5, <5>2, <5>3
      <4> QED
        BY <4>4, <4>5
    <3>2. CASE U = T /\ T = {}
      BY <3>2 DEF g
    <3>3. CASE U = T /\ T # {}
      <4> DEFINE y == First(T)
      <4>1. y \in T /\ T \ {y} \in SUBSET T /\ y \in T \ (T \ {y})
        BY <3>3, FirstIn
      <4>2. g[T \ {y}] = Sub(y)[T \ {y}]
        BY <2>2, <4>1
      <4>3. g[T] = f[y] + Sub(y)[T \ {y}]
        BY <3>3 DEF g
      <4> QED
        BY <3>3, <4>2, <4>3
    <3> QED
      BY <3>1, <3>2, <3>3
  <2>4. g = [U \in SUBSET T |-> g[U]]
    OBVIOUS
  <2> HIDE DEF g
  <2>5. Walks(f, T, g)
    BY <2>3, <2>4 DEF Walks
  <2> QED
    BY <2>5
<1> HIDE DEF G
<1>2. S \in G
  BY <1>1, SetInduction
<1> QED
  BY <1>2 DEF G

\* The sum of the community modules is such a walk.
LEMMA SumWalks ==
  ASSUME NEW f, NEW S, IsFiniteSet(S)
  PROVE  \E g : Walks(f, S, g) /\ SumFunctionOnSet(f, S) = g[S]
<1> DEFINE g == CHOOSE g : Walks(f, S, g)
<1>1. Walks(f, S, g)
  BY WalkExists
<1>2. SumFunctionOnSet(f, S) = g[S]
  BY DEF SumFunctionOnSet, FoldFunctionOnSet, MapThenFoldSet, Walks, First
<1> QED
  BY <1>1, <1>2

------------------------------------------------------------------------------
(* What a sum comes to *)

LEMMA SumOfNone == ASSUME NEW f PROVE SumFunctionOnSet(f, {}) = 0
<1>1. PICK g : Walks(f, {}, g) /\ SumFunctionOnSet(f, {}) = g[{}]
  BY SumWalks, FS_EmptySet
<1>2. {} \in SUBSET {}
  OBVIOUS
<1> QED
  BY <1>1, <1>2 DEF Walks

LEMMA SumFirst ==
  ASSUME NEW f, NEW S, IsFiniteSet(S), S # {}
  PROVE  SumFunctionOnSet(f, S) = f[First(S)] + SumFunctionOnSet(f, S \ {First(S)})
<1> DEFINE x == First(S)
<1>1. IsFiniteSet(S \ {x}) /\ S \ {x} \in SUBSET S
  BY FS_Subset
<1>2. PICK g : Walks(f, S, g) /\ SumFunctionOnSet(f, S) = g[S]
  BY SumWalks
<1>3. PICK h : Walks(f, S \ {x}, h) /\ SumFunctionOnSet(f, S \ {x}) = h[S \ {x}]
  BY <1>1, SumWalks
<1>4. g[S] = f[x] + g[S \ {x}]
  BY <1>2 DEF Walks
<1> HIDE DEF x
<1>5. S \ {x} \in SUBSET (S \cap (S \ {x}))
  OBVIOUS
<1>6. g[S \ {x}] = h[S \ {x}]
  BY <1>1, <1>2, <1>3, <1>5, WalksAgree
<1> QED
  BY <1>2, <1>3, <1>4, <1>6 DEF x

LEMMA SumTyped ==
  ASSUME NEW f, NEW S, IsFiniteSet(S), \A x \in S : f[x] \in Int
  PROVE  SumFunctionOnSet(f, S) \in Int
<1> DEFINE G == {T \in SUBSET S : SumFunctionOnSet(f, T) \in Int}
<1>1. ASSUME NEW T \in SUBSET S, \A x \in T : T \ {x} \in G
      PROVE  T \in G
  <2>1. CASE T = {}
    BY <2>1, SumOfNone
  <2>2. CASE T # {}
    <3> DEFINE x == First(T)
    <3>1. x \in T
      BY <2>2, FirstIn
    <3>2. SumFunctionOnSet(f, T) = f[x] + SumFunctionOnSet(f, T \ {x})
      BY <2>2, FS_Subset, SumFirst
    <3>3. SumFunctionOnSet(f, T \ {x}) \in Int /\ f[x] \in Int
      BY <1>1, <3>1
    <3> HIDE DEF x
    <3> QED
      BY <3>2, <3>3
  <2> QED
    BY <2>1, <2>2
<1> HIDE DEF G
<1>2. S \in G
  BY <1>1, SetInduction
<1> QED
  BY <1>2 DEF G

\* Any row may be added last.
LEMMA SumTake ==
  ASSUME NEW f, NEW S, IsFiniteSet(S), \A x \in S : f[x] \in Int, NEW y \in S
  PROVE  SumFunctionOnSet(f, S) = f[y] + SumFunctionOnSet(f, S \ {y})
<1> DEFINE Takes(T, z) == SumFunctionOnSet(f, T) = f[z] + SumFunctionOnSet(f, T \ {z})
           G == {T \in SUBSET S : \A z \in T : Takes(T, z)}
<1>1. ASSUME NEW T \in SUBSET S, \A x \in T : T \ {x} \in G
      PROVE  T \in G
  <2> SUFFICES ASSUME NEW z \in T PROVE Takes(T, z)
    OBVIOUS
  <2> DEFINE x == First(T)
  <2>1. x \in T /\ IsFiniteSet(T)
    BY FirstIn, FS_Subset
  <2>2. Takes(T, x)
    BY <2>1, SumFirst
  <2> HIDE DEF x
  <2>3. CASE x = z
    BY <2>2, <2>3
  <2>4. CASE x # z
    <3> DEFINE R == (T \ {x}) \ {z}
    <3>1. (T \ {z}) \ {x} = R /\ R \in SUBSET S /\ IsFiniteSet(R)
      BY <2>1, FS_Subset
    <3>2. T \ {x} \in G /\ z \in T \ {x} /\ T \ {z} \in G /\ x \in T \ {z}
      BY <1>1, <2>1, <2>4
    <3>3. /\ SumFunctionOnSet(f, T \ {x}) = f[z] + SumFunctionOnSet(f, R)
          /\ SumFunctionOnSet(f, T \ {z}) = f[x] + SumFunctionOnSet(f, R)
      BY <3>1, <3>2
    <3>4. f[x] \in Int /\ f[z] \in Int /\ SumFunctionOnSet(f, R) \in Int
      BY <2>1, <3>1, SumTyped
    <3> HIDE DEF R
    <3> QED
      BY <2>2, <3>3, <3>4
  <2> QED
    BY <2>3, <2>4
<1> HIDE DEF G
<1>2. S \in G
  BY <1>1, SetInduction
<1> QED
  BY <1>2 DEF G

LEMMA SumWith ==
  ASSUME NEW f, NEW S, IsFiniteSet(S), NEW y, y \notin S, f[y] \in Int, \A x \in S : f[x] \in Int
  PROVE  SumFunctionOnSet(f, S \cup {y}) = f[y] + SumFunctionOnSet(f, S)
<1>1. IsFiniteSet(S \cup {y}) /\ (S \cup {y}) \ {y} = S /\ y \in S \cup {y}
  BY FS_AddElement
<1>2. \A x \in S \cup {y} : f[x] \in Int
  OBVIOUS
<1>3. SumFunctionOnSet(f, S \cup {y}) = f[y] + SumFunctionOnSet(f, (S \cup {y}) \ {y})
  BY ONLY <1>1, <1>2, SumTake
<1> QED
  BY <1>1, <1>3

\* Only the rows added count.
LEMMA SumSame ==
  ASSUME NEW f, NEW h, NEW S, IsFiniteSet(S), \A x \in S : f[x] = h[x]
  PROVE  SumFunctionOnSet(f, S) = SumFunctionOnSet(h, S)
<1> DEFINE G == {T \in SUBSET S : SumFunctionOnSet(f, T) = SumFunctionOnSet(h, T)}
<1>1. ASSUME NEW T \in SUBSET S, \A x \in T : T \ {x} \in G
      PROVE  T \in G
  <2>1. CASE T = {}
    BY <2>1, SumOfNone
  <2>2. CASE T # {}
    <3> DEFINE x == First(T)
    <3>1. x \in T /\ IsFiniteSet(T)
      BY <2>2, FirstIn, FS_Subset
    <3>2. /\ SumFunctionOnSet(f, T) = f[x] + SumFunctionOnSet(f, T \ {x})
          /\ SumFunctionOnSet(h, T) = h[x] + SumFunctionOnSet(h, T \ {x})
      BY <2>2, <3>1, SumFirst
    <3>3. SumFunctionOnSet(f, T \ {x}) = SumFunctionOnSet(h, T \ {x}) /\ f[x] = h[x]
      BY <1>1, <3>1
    <3> QED
      BY <3>2, <3>3
  <2> QED
    BY <2>1, <2>2
<1> HIDE DEF G
<1>2. S \in G
  BY <1>1, SetInduction
<1> QED
  BY <1>2 DEF G

\* Where each row is at most the other's, the sum is.
LEMMA SumAtMost ==
  ASSUME NEW f, NEW h, NEW S, IsFiniteSet(S),
         \A x \in S : f[x] \in Int /\ h[x] \in Int /\ f[x] <= h[x]
  PROVE  SumFunctionOnSet(f, S) <= SumFunctionOnSet(h, S)
<1> DEFINE G == {T \in SUBSET S : SumFunctionOnSet(f, T) <= SumFunctionOnSet(h, T)}
<1>1. ASSUME NEW T \in SUBSET S, \A x \in T : T \ {x} \in G
      PROVE  T \in G
  <2>1. CASE T = {}
    BY <2>1, SumOfNone
  <2>2. CASE T # {}
    <3> DEFINE x == First(T)
    <3>1. x \in T /\ IsFiniteSet(T) /\ IsFiniteSet(T \ {x})
      BY <2>2, FirstIn, FS_Subset
    <3>2. /\ SumFunctionOnSet(f, T) = f[x] + SumFunctionOnSet(f, T \ {x})
          /\ SumFunctionOnSet(h, T) = h[x] + SumFunctionOnSet(h, T \ {x})
      BY <2>2, <3>1, SumFirst
    <3>3. SumFunctionOnSet(f, T \ {x}) <= SumFunctionOnSet(h, T \ {x})
      BY <1>1, <3>1
    <3>4. /\ SumFunctionOnSet(f, T \ {x}) \in Int /\ SumFunctionOnSet(h, T \ {x}) \in Int
          /\ f[x] \in Int /\ h[x] \in Int /\ f[x] <= h[x]
      BY <3>1, SumTyped
    <3> HIDE DEF x
    <3> QED
      BY <3>2, <3>3, <3>4
  <2> QED
    BY <2>1, <2>2
<1> HIDE DEF G
<1>2. S \in G
  BY <1>1, SetInduction
<1> QED
  BY <1>2 DEF G

\* One row is rewritten.
LEMMA SumMoved ==
  ASSUME NEW f, NEW h, NEW S, IsFiniteSet(S), \A x \in S : f[x] \in Int, NEW y \in S,
         h[y] \in Int, \A x \in S \ {y} : h[x] = f[x]
  PROVE  SumFunctionOnSet(h, S) = SumFunctionOnSet(f, S) + (h[y] - f[y])
<1> DEFINE R == S \ {y}
<1>1. IsFiniteSet(R)
  BY FS_Subset
<1>2. SumFunctionOnSet(h, R) = SumFunctionOnSet(f, R)
  BY <1>1, SumSame
<1>3. SumFunctionOnSet(f, S) = f[y] + SumFunctionOnSet(f, R)
  BY SumTake
<1>4. \A x \in S : h[x] \in Int
  OBVIOUS
<1>5. SumFunctionOnSet(h, S) = h[y] + SumFunctionOnSet(h, R)
  BY <1>4, SumTake
<1>6. SumFunctionOnSet(f, R) \in Int
  BY <1>1, SumTyped
<1> HIDE DEF R
<1> QED
  BY <1>2, <1>3, <1>5, <1>6
\* Two sets of rows that share none are added up apart.
LEMMA SumUnion ==
  ASSUME NEW f, NEW A, NEW B, IsFiniteSet(A), IsFiniteSet(B), A \cap B = {},
         \A x \in A \cup B : f[x] \in Int
  PROVE  SumFunctionOnSet(f, A \cup B) = SumFunctionOnSet(f, A) + SumFunctionOnSet(f, B)
<1> DEFINE Joins(T) == SumFunctionOnSet(f, A \cup T)
                         = SumFunctionOnSet(f, A) + SumFunctionOnSet(f, T)
           G == {T \in SUBSET B : Joins(T)}
<1>1. ASSUME NEW T \in SUBSET B, \A x \in T : T \ {x} \in G
      PROVE  T \in G
  <2> SUFFICES Joins(T)
    OBVIOUS
  <2>1. CASE T = {}
    <3>1. SumFunctionOnSet(f, A) \in Int
      BY SumTyped
    <3>2. A \cup T = A
      BY <2>1
    <3>3. /\ SumFunctionOnSet(f, A \cup T) = SumFunctionOnSet(f, A)
          /\ SumFunctionOnSet(f, T) = SumFunctionOnSet(f, {})
      BY <2>1, <3>2, Zenon
    <3> QED
      BY <3>1, <3>3, SumOfNone
  <2>2. CASE T # {}
    <3> DEFINE x == First(T)
    <3>1. x \in T
      BY <2>2, FirstIn
    <3> HIDE DEF x
    <3>2. IsFiniteSet(T) /\ IsFiniteSet(A \cup T) /\ IsFiniteSet(T \ {x}) /\ x \in A \cup T
      BY <3>1, FS_Subset, FS_Union
    <3>3. \A y \in A \cup T : f[y] \in Int
      OBVIOUS
    <3>4. SumFunctionOnSet(f, A \cup T) = f[x] + SumFunctionOnSet(f, (A \cup T) \ {x})
      BY ONLY <3>2, <3>3, SumTake
    <3>5. SumFunctionOnSet(f, T) = f[x] + SumFunctionOnSet(f, T \ {x})
      BY ONLY <3>1, <3>2, <3>3, SumTake
    <3>6. (A \cup T) \ {x} = A \cup (T \ {x})
      BY <3>1
    <3>7. Joins(T \ {x})
      BY <1>1, <3>1
    <3>8. f[x] \in Int /\ SumFunctionOnSet(f, A) \in Int /\ SumFunctionOnSet(f, T \ {x}) \in Int
      BY <3>1, <3>2, <3>3, SumTyped
    <3>9. SumFunctionOnSet(f, (A \cup T) \ {x}) = SumFunctionOnSet(f, A \cup (T \ {x}))
      BY <3>6, Zenon
    <3> QED
      BY <3>4, <3>5, <3>7, <3>8, <3>9
  <2> QED
    BY <2>1, <2>2
<1> HIDE DEF G
<1>2. B \in G
  BY <1>1, SetInduction
<1> QED
  BY <1>2 DEF G

LEMMA SumZero ==
  ASSUME NEW f, NEW S, IsFiniteSet(S), \A x \in S : f[x] = 0
  PROVE  SumFunctionOnSet(f, S) = 0
<1> DEFINE G == {T \in SUBSET S : SumFunctionOnSet(f, T) = 0}
<1>1. ASSUME NEW T \in SUBSET S, \A x \in T : T \ {x} \in G
      PROVE  T \in G
  <2>1. CASE T = {}
    BY <2>1, SumOfNone
  <2>2. CASE T # {}
    <3> DEFINE x == First(T)
    <3>1. x \in T /\ IsFiniteSet(T)
      BY <2>2, FirstIn, FS_Subset
    <3>2. SumFunctionOnSet(f, T) = f[x] + SumFunctionOnSet(f, T \ {x})
      BY <2>2, <3>1, SumFirst
    <3>3. SumFunctionOnSet(f, T \ {x}) = 0 /\ f[x] = 0
      BY <1>1, <3>1
    <3> HIDE DEF x
    <3> QED
      BY <3>2, <3>3
  <2> QED
    BY <2>1, <2>2
<1> HIDE DEF G
<1>2. S \in G
  BY <1>1, SetInduction
<1> QED
  BY <1>2 DEF G

\* Rows that are zero may be left out.
LEMMA SumWithin ==
  ASSUME NEW f, NEW S, IsFiniteSet(S), NEW T \in SUBSET S, \A x \in S : f[x] \in Int,
         \A x \in S \ T : f[x] = 0
  PROVE  SumFunctionOnSet(f, S) = SumFunctionOnSet(f, T)
<1> DEFINE R == S \ T
<1>1. IsFiniteSet(T) /\ IsFiniteSet(R) /\ T \cup R = S /\ T \cap R = {}
  BY FS_Subset
<1>2. SumFunctionOnSet(f, R) = 0 /\ SumFunctionOnSet(f, T) \in Int
  BY <1>1, SumZero, SumTyped
<1>3. \A x \in T \cup R : f[x] \in Int
  OBVIOUS
<1> HIDE DEF R
<1>4. SumFunctionOnSet(f, T \cup R) = SumFunctionOnSet(f, T) + SumFunctionOnSet(f, R)
  BY ONLY <1>1, <1>3, SumUnion
<1>5. SumFunctionOnSet(f, T \cup R) = SumFunctionOnSet(f, S)
  BY <1>1, Zenon
<1> QED
  BY <1>2, <1>4, <1>5

\* A sum of sums.
LEMMA SumPlus ==
  ASSUME NEW f, NEW g, NEW h, NEW S, IsFiniteSet(S),
         \A x \in S : f[x] \in Int /\ g[x] \in Int /\ h[x] = f[x] + g[x]
  PROVE  SumFunctionOnSet(h, S) = SumFunctionOnSet(f, S) + SumFunctionOnSet(g, S)
<1> DEFINE Adds(T) == SumFunctionOnSet(h, T) = SumFunctionOnSet(f, T) + SumFunctionOnSet(g, T)
           G == {T \in SUBSET S : Adds(T)}
<1>1. ASSUME NEW T \in SUBSET S, \A x \in T : T \ {x} \in G
      PROVE  T \in G
  <2> SUFFICES Adds(T)
    OBVIOUS
  <2>1. CASE T = {}
    BY <2>1, SumOfNone
  <2>2. CASE T # {}
    <3> DEFINE x == First(T)
               R == T \ {x}
    <3>1. x \in T /\ IsFiniteSet(T) /\ IsFiniteSet(R)
      BY <2>2, FirstIn, FS_Subset
    <3>2. /\ SumFunctionOnSet(f, T) = f[x] + SumFunctionOnSet(f, R)
          /\ SumFunctionOnSet(g, T) = g[x] + SumFunctionOnSet(g, R)
          /\ SumFunctionOnSet(h, T) = h[x] + SumFunctionOnSet(h, R)
      BY <2>2, <3>1, SumFirst
    <3>3. Adds(R)
      BY <1>1, <3>1
    <3>4. /\ SumFunctionOnSet(f, R) \in Int /\ SumFunctionOnSet(g, R) \in Int
          /\ f[x] \in Int /\ g[x] \in Int /\ h[x] = f[x] + g[x]
      BY <3>1, SumTyped
    <3> HIDE DEF x, R
    <3> QED
      BY <3>2, <3>3, <3>4
  <2> QED
    BY <2>1, <2>2
<1> HIDE DEF G
<1>2. S \in G
  BY <1>1, SetInduction
<1> QED
  BY <1>2 DEF G

LEMMA SumNat ==
  ASSUME NEW f, NEW S, IsFiniteSet(S), \A x \in S : f[x] \in Nat
  PROVE  SumFunctionOnSet(f, S) \in Nat
<1> DEFINE z == [x \in S |-> 0]
<1>1. SumFunctionOnSet(z, S) = 0
  BY SumZero
<1>2. \A x \in S : z[x] \in Int /\ f[x] \in Int /\ z[x] <= f[x]
  OBVIOUS
<1>3. SumFunctionOnSet(z, S) <= SumFunctionOnSet(f, S)
  BY ONLY <1>2, IsFiniteSet(S), SumAtMost
<1>4. SumFunctionOnSet(f, S) \in Int
  BY SumTyped
<1> HIDE DEF z
<1> QED
  BY <1>1, <1>3, <1>4

\* A part of the rows comes to no more than all.
LEMMA SumPart ==
  ASSUME NEW f, NEW S, IsFiniteSet(S), NEW T \in SUBSET S, \A x \in S : f[x] \in Nat
  PROVE  SumFunctionOnSet(f, T) <= SumFunctionOnSet(f, S)
<1> DEFINE R == S \ T
<1>1. IsFiniteSet(T) /\ IsFiniteSet(R) /\ T \cup R = S /\ T \cap R = {}
  BY FS_Subset
<1>2. \A x \in T \cup R : f[x] \in Int
  OBVIOUS
<1>3. SumFunctionOnSet(f, R) \in Nat /\ SumFunctionOnSet(f, T) \in Nat
  BY <1>1, SumNat
<1> HIDE DEF R
<1>4. SumFunctionOnSet(f, T \cup R) = SumFunctionOnSet(f, T) + SumFunctionOnSet(f, R)
  BY ONLY <1>1, <1>2, SumUnion
<1>5. SumFunctionOnSet(f, T \cup R) = SumFunctionOnSet(f, S)
  BY <1>1, Zenon
<1> QED
  BY <1>3, <1>4, <1>5
\* Rows may be given other names.
LEMMA SumAlong ==
  ASSUME NEW f, NEW g, NEW S, IsFiniteSet(S), NEW r,
         \A x \in S : g[x] \in Int /\ f[r[x]] = g[x],
         \A x, y \in S : r[x] = r[y] => x = y
  PROVE  SumFunctionOnSet(f, {r[x] : x \in S}) = SumFunctionOnSet(g, S)
<1> DEFINE Image(T) == {r[x] : x \in T}
           Same(T) == /\ IsFiniteSet(Image(T))
                      /\ SumFunctionOnSet(f, Image(T)) = SumFunctionOnSet(g, T)
           G == {T \in SUBSET S : Same(T)}
<1>1. ASSUME NEW T \in SUBSET S, \A x \in T : T \ {x} \in G
      PROVE  T \in G
  <2> SUFFICES Same(T)
    OBVIOUS
  <2>1. CASE T = {}
    <3>1. Image(T) = {}
      BY <2>1
    <3>2. SumFunctionOnSet(f, Image(T)) = SumFunctionOnSet(f, {})
      BY <3>1, Zenon
    <3>3. IsFiniteSet(Image(T))
      BY <3>1, FS_EmptySet, Zenon
    <3> QED
      BY <2>1, <3>2, <3>3, SumOfNone
  <2>2. CASE T # {}
    <3> DEFINE x == First(T)
               R == T \ {x}
    <3>1. x \in T /\ IsFiniteSet(T) /\ IsFiniteSet(R)
      BY <2>2, FirstIn, FS_Subset
    <3>2. SumFunctionOnSet(g, T) = g[x] + SumFunctionOnSet(g, R)
      BY <2>2, <3>1, SumFirst
    <3>3. Same(R)
      BY <1>1, <3>1
    <3> HIDE DEF x
    <3>4. IsFiniteSet(Image(R))
      BY <3>3
    <3>5. r[x] \notin Image(R) /\ Image(T) = Image(R) \cup {r[x]}
      BY <3>1
    <3>6. f[r[x]] \in Int /\ \A y \in Image(R) : f[y] \in Int
      BY <3>1
    <3> HIDE DEF Image
    <3>7. SumFunctionOnSet(f, Image(R) \cup {r[x]}) = f[r[x]] + SumFunctionOnSet(f, Image(R))
      BY ONLY <3>4, <3>5, <3>6, SumWith
    <3>8. SumFunctionOnSet(f, Image(T)) = SumFunctionOnSet(f, Image(R) \cup {r[x]})
      BY <3>5, Zenon
    <3>9. f[r[x]] = g[x]
      BY <3>1
    <3>10. IsFiniteSet(Image(R) \cup {r[x]})
      BY ONLY <3>4, FS_AddElement
    <3>11. IsFiniteSet(Image(T))
      BY <3>5, <3>10, Zenon
    <3> QED
      BY <3>2, <3>3, <3>7, <3>8, <3>9, <3>11
  <2> QED
    BY <2>1, <2>2
<1> HIDE DEF G
<1>2. S \in G
  BY <1>1, SetInduction
<1> QED
  BY <1>2 DEF G
==============================================================================
