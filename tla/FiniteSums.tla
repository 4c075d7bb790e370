------------------------------ MODULE FiniteSums ------------------------------
(***************************************************************************)
(* Lemmas about SumFunctionOnSet, the sum of a function over a finite set: *)
(* what adding, removing and changing one element does to it; and about    *)
(* least numbers.                                                          *)
(*                                                                         *)
(* The library's induction theorems take operators, which the provers do   *)
(* not instantiate.  SmallerSets and SetInduction take a set in place of   *)
(* the predicate; they rest on the least number of a set of cardinalities. *)
(***************************************************************************)
EXTENDS Integers, FiniteSets, FiniteSetsExt, FiniteSetTheorems, WellFoundedInduction, TLAPS

-----------------------------------------------------------------------------
(* Least numbers, and induction over finite sets                           *)

LEMMA LeastNumber ==
    ASSUME NEW N \in SUBSET Nat, N # {}
    PROVE  \E n \in N : \A m \in N : n <= m
<1> DEFINE R == {p \in Nat \X Nat : p[1] < p[2]}
<1>1. IsWellFoundedOn(R, Nat)
  BY NatLessThanWellFounded DEF OpToRel
<1>2. PICK n \in N : \A m \in N : ~ (<<m, n>> \in R)
  <2> HIDE DEF R
  <2>1. QED  BY <1>1, WFMin
<1>3. \A m \in N : n <= m
  <2> TAKE m \in N
  <2>1. ~(m < n)
    BY <1>2
  <2>2. QED  BY <2>1
<1>4. QED  BY <1>3

LEMMA LeastIsMin ==
    ASSUME NEW N \in SUBSET Nat, N # {}
    PROVE  Min(N) \in N /\ \A n \in N : Min(N) <= n
  BY LeastNumber DEF Min

\* What holds of a set when it holds of all smaller ones holds of every finite
\* set.
LEMMA SmallerSets ==
    ASSUME NEW S, IsFiniteSet(S), NEW P,
           \A T \in SUBSET S : (\A U \in SUBSET T : U # T => U \in P) => T \in P
    PROVE  \A T \in SUBSET S : T \in P
<1> SUFFICES ASSUME NEW Q \in SUBSET S, Q \notin P PROVE FALSE
  OBVIOUS
<1> DEFINE N == {n \in Nat : \E T \in SUBSET S : Cardinality(T) = n /\ T \notin P}
<1>1. N \in SUBSET Nat /\ N # {}
  <2>1. IsFiniteSet(Q)
    BY FS_Subset
  <2>2. Cardinality(Q) \in N
    BY <2>1, FS_CardinalityType
  <2>3. QED  BY <2>2
<1>4. PICK n \in N : \A m \in N : n <= m
  <2> HIDE DEF N
  <2>1. QED  BY <1>1, LeastNumber
<1>5. PICK T \in SUBSET S : Cardinality(T) = n /\ T \notin P
  OBVIOUS
<1>6. PICK U \in SUBSET T : U # T /\ U \notin P
  BY <1>5
<1>7. IsFiniteSet(T) /\ n \in Nat
  BY FS_Subset, <1>1
<1>8. Cardinality(U) \in Nat /\ Cardinality(U) < n
  BY <1>5, <1>6, <1>7, FS_Subset, FS_CardinalityType
<1>9. Cardinality(U) \in N
  BY <1>6, <1>8
<1>10. QED  BY <1>4, <1>7, <1>8, <1>9

-----------------------------------------------------------------------------
(* Sums                                                                    *)

Pick(s) == CHOOSE x \in s : TRUE

\* f[s] is the sum of F over s, for every subset of S.
SumsUp(f, F, S) ==
    \A s \in SUBSET S : f[s] = IF s = {} THEN 0 ELSE F[Pick(s)] + f[s \ {Pick(s)}]

LEMMA PickIs == ASSUME NEW s, s # {}  PROVE  Pick(s) \in s
  BY DEF Pick

LEMMA SumsAreOne ==
    ASSUME NEW S, IsFiniteSet(S), NEW F, NEW f, NEW g, SumsUp(f, F, S), SumsUp(g, F, S)
    PROVE  \A s \in SUBSET S : f[s] = g[s]
<1> DEFINE P == {T \in SUBSET S : f[T] = g[T]}
<1>1. ASSUME NEW T \in SUBSET S, \A U \in SUBSET T : U # T => U \in P
      PROVE  T \in P
  <2>1. CASE T = {}
    BY <2>1 DEF SumsUp
  <2>2. CASE T # {}
    <3> DEFINE U == T \ {Pick(T)}
    <3>1. U \in SUBSET T /\ U # T
      BY <2>2, PickIs
    <3>2. f[U] = g[U]
      BY <1>1, <3>1
    <3>3. f[T] = F[Pick(T)] + f[U] /\ g[T] = F[Pick(T)] + g[U]
      BY <2>2 DEF SumsUp
    <3>4. QED  BY <3>2, <3>3
  <2>3. QED  BY <2>1, <2>2
<1>2. \A T \in SUBSET S : T \in P
  <2> HIDE DEF P
  <2>1. QED  BY <1>1, SmallerSets
<1>3. QED  BY <1>2

IsSums(f, F, S) == f \in [SUBSET S -> Int] /\ SumsUp(f, F, S)

\* There is such a function: it is built for one more element at a time.
LEMMA SumsExist ==
    ASSUME NEW S, IsFiniteSet(S), NEW F, \A x \in S : F[x] \in Int
    PROVE  \E f : IsSums(f, F, S)
<1> DEFINE P == {T \in SUBSET S : \E f : IsSums(f, F, T)}
<1>1. ASSUME NEW T \in SUBSET S, \A U \in SUBSET T : U # T => U \in P
      PROVE  T \in P
  <2>1. CASE T = {}
    <3> DEFINE f == [s \in SUBSET T |-> 0]
    <3>1. IsSums(f, F, T)
      BY <2>1 DEF IsSums, SumsUp
    <3>2. QED  BY <3>1
  <2>2. CASE T # {}
    <3> DEFINE G == [U \in (SUBSET T) \ {T} |-> CHOOSE g : IsSums(g, F, U)]
               below == [U \in (SUBSET T) \ {T} |-> G[U][U]]
               last == F[Pick(T)] + below[T \ {Pick(T)}]
               f == [s \in SUBSET T |-> IF s = T THEN last ELSE below[s]]
    <3>1. \A U \in (SUBSET T) \ {T} : IsSums(G[U], F, U)
      <4> TAKE U \in (SUBSET T) \ {T}
      <4>1. \E g : IsSums(g, F, U)
        BY <1>1
      <4>2. QED  BY <4>1
    <3> HIDE DEF G
    <3>2. \A U \in (SUBSET T) \ {T} : \A s \in SUBSET U : G[U][s] = below[s]
      <4> TAKE U \in (SUBSET T) \ {T}
      <4> TAKE s \in SUBSET U
      <4>1. s \in (SUBSET T) \ {T} /\ IsFiniteSet(s)
        BY FS_Subset
      <4>2. SumsUp(G[U], F, s) /\ SumsUp(G[s], F, s)
        BY <3>1, <4>1 DEF IsSums, SumsUp
      <4>3. G[U][s] = G[s][s]
        BY <4>1, <4>2, SumsAreOne
      <4>4. QED  BY <4>1, <4>3
    <3>3. \A s \in (SUBSET T) \ {T} :
             /\ below[s] \in Int
             /\ below[s] = IF s = {} THEN 0 ELSE F[Pick(s)] + below[s \ {Pick(s)}]
      <4> TAKE s \in (SUBSET T) \ {T}
      <4>1. IsSums(G[s], F, s) /\ below[s] = G[s][s]
        BY <3>1
      <4>2. G[s][s] \in Int /\ G[s][s] = IF s = {} THEN 0 ELSE F[Pick(s)] + G[s][s \ {Pick(s)}]
        BY <4>1 DEF IsSums, SumsUp
      <4>3. G[s][s \ {Pick(s)}] = below[s \ {Pick(s)}]
        BY <3>2
      <4> HIDE DEF below
      <4>4. QED  BY <4>1, <4>2, <4>3
    <3> HIDE DEF below
    <3>4. Pick(T) \in T /\ T \ {Pick(T)} \in (SUBSET T) \ {T}
      BY <2>2, PickIs
    <3>5. last \in Int
      <4>1. below[T \ {Pick(T)}] \in Int /\ F[Pick(T)] \in Int
        BY <3>3, <3>4
      <4>2. QED  BY <4>1
    <3> HIDE DEF last
    <3>6. f \in [SUBSET T -> Int]
      BY <3>3, <3>5
    <3>7. ASSUME NEW s \in SUBSET T
          PROVE  f[s] = IF s = {} THEN 0 ELSE F[Pick(s)] + f[s \ {Pick(s)}]
      <4>1. CASE s = T
        BY <2>2, <3>4, <4>1 DEF last
      <4>2. CASE s # T
        <5>1. s \ {Pick(s)} \in (SUBSET T) \ {T}
          BY <4>2
        <5>2. f[s] = below[s] /\ f[s \ {Pick(s)}] = below[s \ {Pick(s)}]
          BY <4>2, <5>1
        <5>3. QED  BY <3>3, <4>2, <5>2
      <4>3. QED  BY <4>1, <4>2
    <3>8. IsSums(f, F, T)
      BY <3>6, <3>7 DEF IsSums, SumsUp
    <3>9. QED  BY <3>8
  <2>3. QED  BY <2>1, <2>2
<1>2. \A T \in SUBSET S : T \in P
  <2> HIDE DEF P
  <2>1. QED  BY <1>1, SmallerSets
<1>3. QED  BY <1>2

\* SumFunctionOnSet is that function, of which the library says only how it is
\* computed.
LEMMA SumIs ==
    ASSUME NEW S, IsFiniteSet(S), NEW F, \A x \in S : F[x] \in Int
    PROVE  \E f : IsSums(f, F, S) /\ \A T \in SUBSET S : SumFunctionOnSet(F, T) = f[T]
<1> DEFINE It(T) == CHOOSE it : it = [s \in SUBSET T |->
                        IF s = {} THEN 0
                        ELSE F[CHOOSE x \in s : TRUE] + it[s \ {CHOOSE x \in s : TRUE}]]
<1>1. \A T : SumFunctionOnSet(F, T) = It(T)[T]
  BY DEF SumFunctionOnSet, FoldFunctionOnSet, MapThenFoldSet
<1>2. PICK f : IsSums(f, F, S)
  BY SumsExist
<1>3. ASSUME NEW T \in SUBSET S
      PROVE  It(T)[T] = f[T]
  <2> DEFINE Fits(it) == it = [s \in SUBSET T |->
                IF s = {} THEN 0 ELSE F[Pick(s)] + it[s \ {Pick(s)}]]
             g == [s \in SUBSET T |-> f[s]]
  <2>1. It(T) = CHOOSE it : Fits(it)
    BY DEF Pick
  <2>2. Fits(g)
    BY <1>2 DEF IsSums, SumsUp
  <2>3. Fits(It(T))
    <3> HIDE DEF Fits, It, g
    <3>1. QED  BY <2>1, <2>2
  <2> HIDE DEF It
  <2>4. SumsUp(It(T), F, T)
    BY <2>3 DEF SumsUp
  <2>5. SumsUp(f, F, T)
    BY <1>2 DEF IsSums, SumsUp
  <2>6. IsFiniteSet(T)
    BY FS_Subset
  <2>7. QED  BY <2>4, <2>5, <2>6, SumsAreOne
<1>4. QED  BY <1>1, <1>2, <1>3

\* What holds of the empty set, and of a set with one more element, holds of
\* every finite set.
LEMMA SetInduction ==
    ASSUME NEW S, IsFiniteSet(S), NEW P, {} \in P,
           \A T \in SUBSET S : \A x \in S \ T : T \in P => T \cup {x} \in P
    PROVE  S \in P
<1>1. ASSUME NEW T \in SUBSET S, \A U \in SUBSET T : U # T => U \in P
      PROVE  T \in P
  <2>1. CASE T = {}
    BY <2>1
  <2>2. CASE T # {}
    <3>1. PICK x \in T : TRUE
      BY <2>2
    <3>2. T \ {x} \in SUBSET T /\ T \ {x} # T
      BY <3>1
    <3>3. T \ {x} \in P
      BY <1>1, <3>2
    <3>4. T = (T \ {x}) \cup {x} /\ x \in S \ (T \ {x}) /\ T \ {x} \in SUBSET S
      BY <3>1
    <3>5. QED  BY <3>3, <3>4
  <2>3. QED  BY <2>1, <2>2
<1>2. QED  BY <1>1, SmallerSets

LEMMA SumInsert ==
    ASSUME NEW S, IsFiniteSet(S), NEW x, x \notin S, NEW F, F[x] \in Int,
           \A y \in S : F[y] \in Int
    PROVE  /\ SumFunctionOnSet(F, S) \in Int
           /\ SumFunctionOnSet(F, S \cup {x}) = SumFunctionOnSet(F, S) + F[x]
<1> DEFINE D == S \cup {x}
<1>1. IsFiniteSet(D) /\ \A y \in D : F[y] \in Int
  BY FS_AddElement
<1>2. PICK f : IsSums(f, F, D) /\ \A T \in SUBSET D : SumFunctionOnSet(F, T) = f[T]
  BY <1>1, SumIs
<1> DEFINE P == {T \in SUBSET D : \A y \in T : f[T] = f[T \ {y}] + F[y]}
<1>3. \A T \in SUBSET D : f[T] \in Int
  BY <1>2 DEF IsSums
<1>4. ASSUME NEW T \in SUBSET D, \A U \in SUBSET T : U # T => U \in P
      PROVE  T \in P
  <2> SUFFICES ASSUME NEW y \in T PROVE f[T] = f[T \ {y}] + F[y]
    OBVIOUS
  <2> DEFINE p == Pick(T)
  <2>1. p \in T
    BY PickIs
  <2>2. f[T] = F[p] + f[T \ {p}]
    BY <1>2 DEF IsSums, SumsUp
  <2>3. CASE p = y
    <3>1. f[T \ {p}] \in Int /\ F[p] \in Int
      BY <1>1, <1>3, <2>1
    <3>2. QED  BY <2>2, <2>3, <3>1
  <2>4. CASE p # y
    <3> HIDE DEF p
    <3>1. T \ {p} \in P /\ T \ {y} \in P
      BY <1>4, <2>1
    <3>2. y \in T \ {p} /\ p \in T \ {y}
      BY <2>1, <2>4
    <3>3. f[T \ {p}] = f[(T \ {p}) \ {y}] + F[y] /\ f[T \ {y}] = f[(T \ {y}) \ {p}] + F[p]
      BY <3>1, <3>2
    <3>4. (T \ {p}) \ {y} = (T \ {y}) \ {p}
      OBVIOUS
    <3>5. F[p] \in Int /\ F[y] \in Int /\ f[(T \ {p}) \ {y}] \in Int
      BY <1>1, <1>3, <2>1
    <3>6. f[T] = F[p] + (f[(T \ {p}) \ {y}] + F[y])
      BY <2>2, <3>3 DEF p
    <3>7. f[T \ {y}] + F[y] = (f[(T \ {p}) \ {y}] + F[p]) + F[y]
      BY <3>3, <3>4
    <3>8. \A a, b, c \in Int : a + (b + c) = (b + a) + c
      OBVIOUS
    <3>9. F[p] + (f[(T \ {p}) \ {y}] + F[y]) = (f[(T \ {p}) \ {y}] + F[p]) + F[y]
      BY <3>5, <3>8
    <3>10. QED  BY <3>6, <3>7, <3>9
  <2>5. QED  BY <2>3, <2>4
<1>5. D \in P
  <2> HIDE DEF P, D
  <2>1. \A T \in SUBSET D : T \in P
    BY <1>1, <1>4, SmallerSets
  <2>2. QED  BY <2>1
<1>6. f[D] = f[D \ {x}] + F[x] /\ D \ {x} = S
  BY <1>5
<1>7. QED  BY <1>2, <1>3, <1>6

LEMMA SumEmpty == ASSUME NEW F  PROVE  SumFunctionOnSet(F, {}) = 0
<1>1. PICK f : IsSums(f, F, {}) /\ \A T \in SUBSET {} : SumFunctionOnSet(F, T) = f[T]
  BY FS_EmptySet, SumIs
<1>2. QED  BY <1>1 DEF IsSums, SumsUp

LEMMA SumIsInt ==
    ASSUME NEW S, IsFiniteSet(S), NEW F, \A x \in S : F[x] \in Int
    PROVE  SumFunctionOnSet(F, S) \in Int
<1>1. PICK f : IsSums(f, F, S) /\ \A T \in SUBSET S : SumFunctionOnSet(F, T) = f[T]
  BY SumIs
<1>2. QED  BY <1>1 DEF IsSums

LEMMA SumCompare ==
    ASSUME NEW S, IsFiniteSet(S), NEW F, NEW G,
           \A x \in S : F[x] \in Int /\ G[x] \in Int /\ F[x] <= G[x]
    PROVE  SumFunctionOnSet(F, S) <= SumFunctionOnSet(G, S)
<1> DEFINE P == {T \in SUBSET S : SumFunctionOnSet(F, T) <= SumFunctionOnSet(G, T)}
<1>1. {} \in P
  BY SumEmpty
<1>2. ASSUME NEW T \in SUBSET S, NEW x \in S \ T, T \in P
      PROVE  T \cup {x} \in P
  <2>1. IsFiniteSet(T)
    BY FS_Subset
  <2>2. /\ SumFunctionOnSet(F, T) \in Int
        /\ SumFunctionOnSet(F, T \cup {x}) = SumFunctionOnSet(F, T) + F[x]
    BY <2>1, SumInsert
  <2>3. /\ SumFunctionOnSet(G, T) \in Int
        /\ SumFunctionOnSet(G, T \cup {x}) = SumFunctionOnSet(G, T) + G[x]
    BY <2>1, SumInsert
  <2>4. SumFunctionOnSet(F, T) <= SumFunctionOnSet(G, T)
    BY <1>2
  <2>5. QED  BY <2>2, <2>3, <2>4
<1>3. S \in P
  <2> HIDE DEF P
  <2>1. QED  BY <1>1, <1>2, SetInduction
<1>4. QED  BY <1>3

LEMMA SumSame ==
    ASSUME NEW S, IsFiniteSet(S), NEW F, NEW G,
           \A x \in S : F[x] \in Int /\ F[x] = G[x]
    PROVE  SumFunctionOnSet(F, S) = SumFunctionOnSet(G, S)
<1>1. SumFunctionOnSet(F, S) \in Int /\ SumFunctionOnSet(G, S) \in Int
  BY SumIsInt
<1>2. SumFunctionOnSet(F, S) <= SumFunctionOnSet(G, S)
  BY SumCompare
<1>3. SumFunctionOnSet(G, S) <= SumFunctionOnSet(F, S)
  BY SumCompare
<1>4. QED  BY <1>1, <1>2, <1>3

LEMMA SumChange ==
    ASSUME NEW S, IsFiniteSet(S), NEW F, NEW G, NEW x \in S,
           F[x] \in Int, G[x] \in Int,
           \A y \in S \ {x} : F[y] \in Int /\ F[y] = G[y]
    PROVE  SumFunctionOnSet(G, S) = SumFunctionOnSet(F, S) - F[x] + G[x]
<1> DEFINE T == S \ {x}
<1>1. IsFiniteSet(T) /\ x \notin T /\ S = T \cup {x}
  BY FS_RemoveElement
<1>2. SumFunctionOnSet(F, T) \in Int
      /\ SumFunctionOnSet(F, T \cup {x}) = SumFunctionOnSet(F, T) + F[x]
  BY <1>1, SumInsert
<1>3. SumFunctionOnSet(G, T) \in Int
      /\ SumFunctionOnSet(G, T \cup {x}) = SumFunctionOnSet(G, T) + G[x]
  BY <1>1, SumInsert
<1>4. SumFunctionOnSet(F, T) = SumFunctionOnSet(G, T)
  BY <1>1, SumSame
<1> HIDE DEF T
<1>5. QED  BY <1>1, <1>2, <1>3, <1>4

LEMMA SumAdds ==
    ASSUME NEW S, IsFiniteSet(S), NEW F, NEW G, NEW H,
           \A x \in S : F[x] \in Int /\ G[x] \in Int /\ H[x] = F[x] + G[x]
    PROVE  SumFunctionOnSet(H, S) = SumFunctionOnSet(F, S) + SumFunctionOnSet(G, S)
<1> DEFINE P == {T \in SUBSET S : SumFunctionOnSet(H, T)
                                    = SumFunctionOnSet(F, T) + SumFunctionOnSet(G, T)}
<1>1. {} \in P
  BY SumEmpty
<1>2. ASSUME NEW T \in SUBSET S, NEW x \in S \ T, T \in P
      PROVE  T \cup {x} \in P
  <2>1. IsFiniteSet(T)
    BY FS_Subset
  <2>2. /\ SumFunctionOnSet(F, T) \in Int
        /\ SumFunctionOnSet(F, T \cup {x}) = SumFunctionOnSet(F, T) + F[x]
    BY <2>1, SumInsert
  <2>3. /\ SumFunctionOnSet(G, T) \in Int
        /\ SumFunctionOnSet(G, T \cup {x}) = SumFunctionOnSet(G, T) + G[x]
    BY <2>1, SumInsert
  <2>4. \A y \in S : H[y] \in Int
    OBVIOUS
  <2>5. /\ SumFunctionOnSet(H, T) \in Int
        /\ SumFunctionOnSet(H, T \cup {x}) = SumFunctionOnSet(H, T) + H[x]
    BY <2>1, <2>4, SumInsert
  <2>6. SumFunctionOnSet(H, T) = SumFunctionOnSet(F, T) + SumFunctionOnSet(G, T)
    BY <1>2
  <2>7. F[x] \in Int /\ G[x] \in Int /\ H[x] = F[x] + G[x]
    OBVIOUS
  <2>8. QED  BY <2>2, <2>3, <2>5, <2>6, <2>7
<1>3. S \in P
  <2> HIDE DEF P
  <2>1. QED  BY <1>1, <1>2, SetInduction
<1>4. QED  BY <1>3

LEMMA SumUnion ==
    ASSUME NEW S, IsFiniteSet(S), NEW T, IsFiniteSet(T), S \cap T = {}, NEW F,
           \A x \in S \cup T : F[x] \in Int
    PROVE  SumFunctionOnSet(F, S \cup T) = SumFunctionOnSet(F, S) + SumFunctionOnSet(F, T)
<1> DEFINE P == {U \in SUBSET T : SumFunctionOnSet(F, S \cup U)
                                    = SumFunctionOnSet(F, S) + SumFunctionOnSet(F, U)}
<1>1. {} \in P
  <2>1. SumFunctionOnSet(F, S) \in Int
    BY SumIsInt
  <2>2. S \cup {} = S
    OBVIOUS
  <2>3. QED  BY <2>1, <2>2, SumEmpty
<1>2. ASSUME NEW U \in SUBSET T, NEW x \in T \ U, U \in P
      PROVE  U \cup {x} \in P
  <2>1. IsFiniteSet(U) /\ IsFiniteSet(S \cup U) /\ x \notin S \cup U
    BY FS_Subset, FS_Union
  <2>2. /\ SumFunctionOnSet(F, U) \in Int
        /\ SumFunctionOnSet(F, U \cup {x}) = SumFunctionOnSet(F, U) + F[x]
    BY <2>1, SumInsert
  <2>3. /\ SumFunctionOnSet(F, S \cup U) \in Int
        /\ SumFunctionOnSet(F, (S \cup U) \cup {x}) = SumFunctionOnSet(F, S \cup U) + F[x]
    BY <2>1, SumInsert
  <2>4. (S \cup U) \cup {x} = S \cup (U \cup {x})
    OBVIOUS
  <2>5. SumFunctionOnSet(F, S) \in Int /\ F[x] \in Int
    BY SumIsInt
  <2>6. SumFunctionOnSet(F, S \cup U) = SumFunctionOnSet(F, S) + SumFunctionOnSet(F, U)
    BY <1>2
  <2>7. SumFunctionOnSet(F, S \cup (U \cup {x}))
          = SumFunctionOnSet(F, S) + SumFunctionOnSet(F, U \cup {x})
    <3>1. \A a, b, c, d, e, x1 \in Int : a = b + c /\ d = a + x1 /\ e = c + x1 => d = b + e
      OBVIOUS
    <3>2. SumFunctionOnSet(F, S \cup (U \cup {x})) = SumFunctionOnSet(F, S \cup U) + F[x]
      BY <2>3, <2>4
    <3>3. SumFunctionOnSet(F, S \cup (U \cup {x})) \in Int
          /\ SumFunctionOnSet(F, U \cup {x}) \in Int
      BY <2>2, <2>3, <2>5, <3>2
    <3>4. QED  BY <2>2, <2>3, <2>5, <2>6, <3>1, <3>2, <3>3
  <2>8. QED  BY <2>7
<1>3. T \in P
  <2> HIDE DEF P
  <2>1. QED  BY <1>1, <1>2, SetInduction
<1>4. QED  BY <1>3

LEMMA SumNatural ==
    ASSUME NEW S, IsFiniteSet(S), NEW F, \A x \in S : F[x] \in Nat
    PROVE  /\ SumFunctionOnSet(F, S) \in Nat
           /\ SumFunctionOnSet(F, S) > 0 <=> \E x \in S : F[x] > 0
<1> DEFINE P == {T \in SUBSET S : /\ SumFunctionOnSet(F, T) \in Nat
                                  /\ SumFunctionOnSet(F, T) > 0 <=> \E x \in T : F[x] > 0}
<1>1. {} \in P
  BY SumEmpty
<1>2. ASSUME NEW T \in SUBSET S, NEW x \in S \ T, T \in P
      PROVE  T \cup {x} \in P
  <2>1. IsFiniteSet(T) /\ (\A y \in T : F[y] \in Int) /\ F[x] \in Nat
    BY FS_Subset
  <2>2. SumFunctionOnSet(F, T \cup {x}) = SumFunctionOnSet(F, T) + F[x]
    BY <2>1, SumInsert
  <2>3. /\ SumFunctionOnSet(F, T) \in Nat
        /\ SumFunctionOnSet(F, T) > 0 <=> \E y \in T : F[y] > 0
    BY <1>2
  <2>4. \A a, c \in Nat : a + c \in Nat /\ (a + c > 0 <=> a > 0 \/ c > 0)
    OBVIOUS
  <2>5. /\ SumFunctionOnSet(F, T \cup {x}) \in Nat
        /\ SumFunctionOnSet(F, T \cup {x}) > 0 <=> SumFunctionOnSet(F, T) > 0 \/ F[x] > 0
    BY <2>1, <2>2, <2>3, <2>4
  <2>6. QED  BY <2>3, <2>5
<1>3. S \in P
  <2> HIDE DEF P
  <2>1. QED  BY <1>1, <1>2, SetInduction
<1>4. QED  BY <1>3

\* A set has as many members as a sum has ones.
LEMMA SumCounts ==
    ASSUME NEW S, IsFiniteSet(S), NEW A, NEW F, \A x \in S : F[x] = IF x \in A THEN 1 ELSE 0
    PROVE  SumFunctionOnSet(F, S) = Cardinality({x \in S : x \in A})
<1> DEFINE C(T) == {x \in T : x \in A}
           P == {T \in SUBSET S : SumFunctionOnSet(F, T) = Cardinality(C(T))}
<1>1. {} \in P
  <2>1. C({}) = {}
    OBVIOUS
  <2>2. QED  BY <2>1, SumEmpty, FS_EmptySet
<1>2. ASSUME NEW T \in SUBSET S, NEW x \in S \ T, T \in P
      PROVE  T \cup {x} \in P
  <2>1. IsFiniteSet(T) /\ (\A y \in T : F[y] \in Int) /\ F[x] \in Int
    BY FS_Subset
  <2>2. SumFunctionOnSet(F, T \cup {x}) = SumFunctionOnSet(F, T) + F[x]
    BY <2>1, SumInsert
  <2>3. SumFunctionOnSet(F, T) = Cardinality(C(T))
    BY <1>2
  <2>4. IsFiniteSet(C(T)) /\ x \notin C(T) /\ Cardinality(C(T)) \in Nat
    BY <2>1, FS_Subset, FS_CardinalityType
  <2>5. Cardinality(C(T) \cup {x}) = Cardinality(C(T)) + 1
    <3> HIDE DEF C
    <3>1. QED  BY <2>4, FS_AddElement
  <2>6. SumFunctionOnSet(F, T \cup {x}) = Cardinality(C(T \cup {x}))
    <3>1. CASE x \in A
      <4>1. C(T \cup {x}) = C(T) \cup {x} /\ F[x] = 1
        BY <3>1
      <4> HIDE DEF C
      <4>2. QED  BY <2>2, <2>3, <2>5, <4>1
    <3>2. CASE x \notin A
      <4>1. C(T \cup {x}) = C(T) /\ F[x] = 0
        BY <3>2
      <4> HIDE DEF C
      <4>2. QED  BY <2>2, <2>3, <2>4, <4>1
    <3>3. QED  BY <3>1, <3>2
  <2> HIDE DEF C
  <2>7. QED  BY <2>6
<1>3. S \in P
  <2> HIDE DEF P
  <2>1. QED  BY <1>1, <1>2, SetInduction
<1>4. QED  BY <1>3
=============================================================================
