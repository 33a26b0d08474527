------------------------------- MODULE SumProofs -------------------------------
(***************************************************************************)
(* What the proofs about amounts need of sums (SumFunctionOnSet of the     *)
(* community modules) and of finite sets.                                  *)
(*                                                                         *)
(* Induction is stated with the set P of what a fact holds of: that the    *)
(* strict subsets of a finite set are well-founded is a theorem of         *)
(* FiniteSetTheorems that takes no operator, and all induction rests on    *)
(* it.                                                                     *)
(***************************************************************************)
EXTENDS Integers, Functions, FiniteSetTheorems, TLAPS

-------------------------------------------------------------------------------
(* Induction.                                                               *)

\* Of some subsets of a finite set one contains no other.
LEMMA MinimalSubset ==
    ASSUME NEW S, IsFiniteSet(S), NEW T \in SUBSET SUBSET S, T # {}
    PROVE  \E U \in T : \A V \in T : V \subseteq U => V = U
  <1>1. T \subseteq FiniteSubsetsOf(S)
    BY FS_FiniteSubsetsOfFinite
  <1>2. \E U \in T : \A V \in T : <<V, U>> \notin StrictSubsetOrdering(S)
    BY <1>1, FS_StrictSubsetOrderingWellFounded, WFMin
  <1> QED BY <1>2 DEF StrictSubsetOrdering

\* What holds of a set if it holds of all smaller ones holds of a finite set.
LEMMA SmallerSubsets ==
    ASSUME NEW S, IsFiniteSet(S), NEW P,
           \A T \in SUBSET S : (\A U \in SUBSET T : U # T => U \in P) => T \in P
    PROVE  SUBSET S \subseteq P
  <1> DEFINE B == (SUBSET S) \ P
  <1> SUFFICES ASSUME B # {} PROVE FALSE
    OBVIOUS
  <1>1. PICK T \in B : \A V \in B : V \subseteq T => V = T
    <2>1. B \in SUBSET SUBSET S
      OBVIOUS
    <2> HIDE DEF B
    <2> QED BY <2>1, MinimalSubset
  <1>2. \A U \in SUBSET T : U # T => U \in P
    BY <1>1
  <1> QED BY <1>1, <1>2

\* What holds of the empty set, and of a set if it holds without one of its elements.
LEMMA OneByOne ==
    ASSUME NEW S, IsFiniteSet(S), NEW P,
           {} \in P,
           \A T \in SUBSET S : \A x \in T : T \ {x} \in P => T \in P
    PROVE  SUBSET S \subseteq P
  <1>1. ASSUME NEW T \in SUBSET S, \A U \in SUBSET T : U # T => U \in P
        PROVE  T \in P
    <2>1. CASE T = {}
      BY <2>1
    <2>2. CASE T # {}
      <3>1. PICK x \in T : TRUE
        BY <2>2
      <3>2. T \ {x} \in P
        BY <1>1, <3>1
      <3> QED BY <3>1, <3>2
    <2> QED BY <2>1, <2>2
  <1> QED BY <1>1, SmallerSubsets

\* What holds of 0, and of n + 1 if of n, holds of every natural number.
LEMMA EveryNatural ==
    ASSUME NEW P, 0 \in P, \A n \in Nat : n \in P => n + 1 \in P
    PROVE  Nat \subseteq P
  <1> SUFFICES ASSUME NEW m \in Nat, m \notin P PROVE FALSE
    OBVIOUS
  <1> DEFINE M == 0..m
             B == {i \in M : i \notin P}
             T == {0..i : i \in B}
  <1>1. PICK U \in T : \A V \in T : V \subseteq U => V = U
    <2>1. IsFiniteSet(M)
      BY FS_Interval
    <2>2. T \in SUBSET SUBSET M
      OBVIOUS
    <2>3. T # {}
      OBVIOUS
    <2> HIDE DEF T, M
    <2> QED BY <2>1, <2>2, <2>3, MinimalSubset
  <1>2. PICK i \in B : U = 0..i
    BY <1>1
  <1>3. i # 0 /\ i \in Nat
    BY <1>2
  <1>4. i - 1 \in 0..m /\ i - 1 \notin P
    BY <1>2, <1>3
  <1>5. 0..(i - 1) \in T /\ 0..(i - 1) \subseteq 0..i
    BY <1>3, <1>4
  <1>6. 0..(i - 1) = 0..i
    BY <1>1, <1>2, <1>5
  <1>7. i \in 0..i /\ i \notin 0..(i - 1)
    BY <1>3
  <1> QED BY <1>6, <1>7

-------------------------------------------------------------------------------
(* Finite sets.                                                             *)

\* A function of a finite set has finitely many values.
LEMMA ImageIsFinite ==
    ASSUME NEW f, IsFiniteSet(DOMAIN f)
    PROVE  IsFiniteSet({f[x] : x \in DOMAIN f})
  <1> DEFINE T == {f[x] : x \in DOMAIN f}
             g == [x \in DOMAIN f |-> f[x]]
  <1>1. g \in Surjection(DOMAIN f, T)
    BY DEF Surjection
  <1> QED BY <1>1, FS_Surjection

\* Different things of different things are as many.
LEMMA ImagesCount ==
    ASSUME NEW S, IsFiniteSet(S), NEW f, \A x, y \in S : f[x] = f[y] => x = y
    PROVE  /\ IsFiniteSet({f[x] : x \in S})
           /\ Cardinality({f[x] : x \in S}) = Cardinality(S)
  <1> DEFINE T == {f[x] : x \in S}
             g == [x \in S |-> f[x]]
  <1>1. g \in Bijection(S, T)
    <2>1. g \in [S -> T] /\ \A y \in T : \E x \in S : g[x] = y
      OBVIOUS
    <2>2. \A x, y \in S : g[x] = g[y] => x = y
      OBVIOUS
    <2> QED BY <2>1, <2>2 DEF Bijection, Injection, Surjection, IsInjective
  <1>2. ExistsBijection(S, T)
    BY <1>1 DEF ExistsBijection
  <1> HIDE DEF T
  <1>3. IsFiniteSet(T) /\ Cardinality(T) = Cardinality(S)
    BY <1>2, FS_Bijection
  <1> QED BY <1>3 DEF T

-------------------------------------------------------------------------------
(* Sums.                                                                    *)

Pick(s) == CHOOSE x \in s : TRUE
SumStep(f, g, s) == IF s = {} THEN 0 ELSE f[Pick(s)] + g[s \ {Pick(s)}]
IsSum(f, g, S) == g = [s \in SUBSET S |-> SumStep(f, g, s)]

\* A sum is what a function that sums every subset makes of the whole set.
LEMMA SumIsOneOf ==
    ASSUME NEW f, NEW S, \E g : IsSum(f, g, S)
    PROVE  \E g : IsSum(f, g, S) /\ SumFunctionOnSet(f, S) = g[S]
  BY DEF SumFunctionOnSet, FoldFunctionOnSet, MapThenFoldSet, IsSum, SumStep, Pick

\* The recursion of a sum is a function: up to every size there is one.
LEMMA SumExists ==
    ASSUME NEW f, NEW S, IsFiniteSet(S)
    PROVE  \E g : IsSum(f, g, S)
  <1> DEFINE Good(g, n) == \A s \in SUBSET S : Cardinality(s) <= n => g[s] = SumStep(f, g, s)
             P == {n \in Nat : \E g : Good(g, n)}
  <1>0. \A s \in SUBSET S : /\ IsFiniteSet(s) /\ Cardinality(s) \in Nat
                            /\ Cardinality(s) = 0 <=> s = {}
                            /\ s # {} => /\ s \ {Pick(s)} \in SUBSET S
                                         /\ Cardinality(s \ {Pick(s)}) = Cardinality(s) - 1
    BY FS_Subset, FS_CardinalityType, FS_EmptySet, FS_RemoveElement DEF Pick
  <1>1. 0 \in P
    <2> DEFINE g == [s \in SUBSET S |-> 0]
    <2>1. ASSUME NEW s \in SUBSET S, Cardinality(s) <= 0 PROVE g[s] = SumStep(f, g, s)
      <3>1. IsFiniteSet(s) /\ Cardinality(s) \in Nat
        BY <1>0
      <3>2. Cardinality(s) = 0
        BY <2>1, <3>1
      <3>3. s = {}
        BY <3>1, <3>2, FS_EmptySet
      <3> QED BY <3>3 DEF SumStep
    <2>2. Good(g, 0)
      BY <2>1
    <2> HIDE DEF g
    <2> QED BY <2>2
  <1>2. ASSUME NEW n \in Nat, n \in P PROVE n + 1 \in P
    <2>1. PICK g : Good(g, n)
      BY <1>2
    <2> DEFINE h == [s \in SUBSET S |-> IF Cardinality(s) <= n THEN g[s] ELSE SumStep(f, g, s)]
    <2>2. ASSUME NEW s \in SUBSET S, Cardinality(s) <= n + 1
          PROVE  h[s] = SumStep(f, h, s)
      <3>1. CASE s = {}
        BY <1>0, <2>1, <3>1 DEF SumStep
      <3>2. CASE s # {}
        <4> DEFINE t == s \ {Pick(s)}
        <4>1. t \in SUBSET S /\ Cardinality(t) <= n
          BY <1>0, <2>2, <3>2
        <4>2. h[t] = g[t]
          BY <4>1
        <4>3. SumStep(f, h, s) = SumStep(f, g, s)
          BY <3>2, <4>2 DEF SumStep
        <4>4. h[s] = SumStep(f, g, s)
          BY <2>1
        <4> QED BY <4>3, <4>4
      <3> QED BY <3>1, <3>2
    <2>3. Good(h, n + 1)
      BY <2>2
    <2> HIDE DEF h
    <2> QED BY <2>3
  <1>3. Nat \subseteq P
    <2> HIDE DEF P
    <2> QED BY <1>1, <1>2, EveryNatural
  <1>4. PICK g : Good(g, Cardinality(S))
    BY <1>0, <1>3
  <1> DEFINE h == [s \in SUBSET S |-> g[s]]
  <1>5. \A s \in SUBSET S : Cardinality(s) <= Cardinality(S)
    BY FS_Subset
  <1>6. ASSUME NEW s \in SUBSET S PROVE h[s] = SumStep(f, h, s)
    <2>1. g[s] = SumStep(f, g, s)
      BY <1>4, <1>5
    <2>2. SumStep(f, h, s) = SumStep(f, g, s)
      BY <1>0 DEF SumStep
    <2> QED BY <2>1, <2>2
  <1>7. h = [s \in SUBSET S |-> SumStep(f, h, s)]
    BY <1>6
  <1> QED BY <1>7 DEF IsSum

\* The sum of a subset is what the recursion of the set makes of it.
LEMMA SumIsUnique ==
    ASSUME NEW f, NEW S, IsFiniteSet(S), NEW g, IsSum(f, g, S), NEW T \in SUBSET S
    PROVE  SumFunctionOnSet(f, T) = g[T]
  <1>1. IsFiniteSet(T)
    BY FS_Subset
  <1>2. PICK h : IsSum(f, h, T) /\ SumFunctionOnSet(f, T) = h[T]
    BY <1>1, SumExists, SumIsOneOf
  <1> DEFINE P == {s \in SUBSET T : h[s] = g[s]}
  <1>3. ASSUME NEW s \in SUBSET T, \A u \in SUBSET s : u # s => u \in P
        PROVE  s \in P
    <2>1. h[s] = SumStep(f, h, s) /\ g[s] = SumStep(f, g, s)
      BY <1>2 DEF IsSum
    <2>2. s # {} => h[s \ {Pick(s)}] = g[s \ {Pick(s)}]
      BY <1>3 DEF Pick
    <2> QED BY <2>1, <2>2 DEF SumStep
  <1>4. SUBSET T \subseteq P
    <2> HIDE DEF P
    <2> QED BY <1>1, <1>3, SmallerSubsets
  <1> QED BY <1>2, <1>4

\* The sum of nothing is 0.
LEMMA SumOfNothing ==
    ASSUME NEW f
    PROVE  SumFunctionOnSet(f, {}) = 0
  <1>1. PICK g : IsSum(f, g, {}) /\ SumFunctionOnSet(f, {}) = g[{}]
    BY FS_EmptySet, SumExists, SumIsOneOf
  <1> QED BY <1>1 DEF IsSum, SumStep

\* A sum is the value of the element that is picked, and the sum of the others.
LEMMA SumPicks ==
    ASSUME NEW f, NEW S, IsFiniteSet(S), S # {}
    PROVE  /\ Pick(S) \in S
           /\ SumFunctionOnSet(f, S) = f[Pick(S)] + SumFunctionOnSet(f, S \ {Pick(S)})
  <1>1. PICK g : IsSum(f, g, S)
    BY SumExists
  <1>2. /\ SumFunctionOnSet(f, S) = g[S]
        /\ SumFunctionOnSet(f, S \ {Pick(S)}) = g[S \ {Pick(S)}]
    BY <1>1, SumIsUnique
  <1>3. g[S] = SumStep(f, g, S)
    BY <1>1 DEF IsSum
  <1> QED BY <1>2, <1>3 DEF SumStep, Pick

\* Sums of the same values are the same.
LEMMA SumsAgree ==
    ASSUME NEW f, NEW h, NEW S, IsFiniteSet(S), \A x \in S : f[x] = h[x]
    PROVE  SumFunctionOnSet(f, S) = SumFunctionOnSet(h, S)
  <1> DEFINE P == {T \in SUBSET S : SumFunctionOnSet(f, T) = SumFunctionOnSet(h, T)}
  <1>1. ASSUME NEW T \in SUBSET S, \A U \in SUBSET T : U # T => U \in P
        PROVE  T \in P
    <2>1. CASE T = {}
      BY <2>1, SumOfNothing
    <2>2. CASE T # {}
      <3>1. /\ Pick(T) \in T
            /\ SumFunctionOnSet(f, T) = f[Pick(T)] + SumFunctionOnSet(f, T \ {Pick(T)})
            /\ SumFunctionOnSet(h, T) = h[Pick(T)] + SumFunctionOnSet(h, T \ {Pick(T)})
        BY <2>2, SumPicks, FS_Subset
      <3>2. T \ {Pick(T)} \in P
        BY <1>1, <3>1
      <3> QED BY <3>1, <3>2
    <2> QED BY <2>1, <2>2
  <1>2. SUBSET S \subseteq P
    <2> HIDE DEF P
    <2> QED BY <1>1, SmallerSubsets
  <1> QED BY <1>2

\* A sum of integers is an integer.
LEMMA SumIsInt ==
    ASSUME NEW f, NEW S, IsFiniteSet(S), \A x \in S : f[x] \in Int
    PROVE  SumFunctionOnSet(f, S) \in Int
  <1> DEFINE P == {T \in SUBSET S : SumFunctionOnSet(f, T) \in Int}
  <1>1. ASSUME NEW T \in SUBSET S, \A U \in SUBSET T : U # T => U \in P
        PROVE  T \in P
    <2>1. CASE T = {}
      BY <2>1, SumOfNothing
    <2>2. CASE T # {}
      <3>1. /\ Pick(T) \in T
            /\ SumFunctionOnSet(f, T) = f[Pick(T)] + SumFunctionOnSet(f, T \ {Pick(T)})
        BY <2>2, SumPicks, FS_Subset
      <3>2. T \ {Pick(T)} \in P
        BY <1>1, <3>1
      <3> QED BY <3>1, <3>2
    <2> QED BY <2>1, <2>2
  <1>2. SUBSET S \subseteq P
    <2> HIDE DEF P
    <2> QED BY <1>1, SmallerSubsets
  <1> QED BY <1>2

\* Whichever element is taken out, what is left is the rest.
LEMMA SumRemoves ==
    ASSUME NEW f, NEW S, IsFiniteSet(S), \A x \in S : f[x] \in Int, NEW y \in S
    PROVE  SumFunctionOnSet(f, S) = f[y] + SumFunctionOnSet(f, S \ {y})
  <1> DEFINE sum(T) == SumFunctionOnSet(f, T)
             P == {T \in SUBSET S : \A x \in T : sum(T) = f[x] + sum(T \ {x})}
  <1>0. \A T \in SUBSET S : IsFiniteSet(T) /\ sum(T) \in Int
    BY FS_Subset, SumIsInt
  <1>1. ASSUME NEW T \in SUBSET S, \A U \in SUBSET T : U # T => U \in P
        PROVE  T \in P
    <2> SUFFICES ASSUME NEW x \in T PROVE sum(T) = f[x] + sum(T \ {x})
      OBVIOUS
    <2> DEFINE z == Pick(T)
    <2>1. z \in T /\ sum(T) = f[z] + sum(T \ {z})
      BY <1>0, SumPicks
    <2>2. CASE x # z
      <3>1. T \ {z} \in P /\ T \ {x} \in P
        BY <1>1, <2>1
      <3>2. /\ sum(T \ {z}) = f[x] + sum((T \ {z}) \ {x})
            /\ sum(T \ {x}) = f[z] + sum((T \ {x}) \ {z})
        BY <2>1, <2>2, <3>1
      <3>3. (T \ {z}) \ {x} = (T \ {x}) \ {z}
        OBVIOUS
      <3>4. sum((T \ {x}) \ {z}) \in Int /\ f[x] \in Int /\ f[z] \in Int
        BY <1>0, <2>1
      <3> DEFINE both == sum((T \ {x}) \ {z})
                 fz == f[z]
      <3>5. sum(T \ {z}) = f[x] + both /\ sum(T \ {x}) = fz + both /\ sum(T) = fz + sum(T \ {z})
        BY <2>1, <3>2, <3>3
      <3>6. both \in Int /\ f[x] \in Int /\ fz \in Int
        BY <3>4
      <3> HIDE DEF both, fz
      <3> QED BY <3>5, <3>6
    <2> QED BY <2>1, <2>2
  <1>2. SUBSET S \subseteq P
    <2> HIDE DEF P
    <2> QED BY <1>1, SmallerSubsets
  <1> QED BY <1>2

\* A sum over two sets that share nothing is the sum of both.
LEMMA SumOfUnion ==
    ASSUME NEW f, NEW S, NEW T, IsFiniteSet(S), IsFiniteSet(T), S \cap T = {},
           \A x \in S \cup T : f[x] \in Int
    PROVE  SumFunctionOnSet(f, S \cup T) = SumFunctionOnSet(f, S) + SumFunctionOnSet(f, T)
  <1> DEFINE P == {U \in SUBSET S : SumFunctionOnSet(f, U \cup T)
                                      = SumFunctionOnSet(f, U) + SumFunctionOnSet(f, T)}
  <1>1. {} \in P
    <2>1. {} \cup T = T /\ SumFunctionOnSet(f, T) \in Int
      BY SumIsInt
    <2> QED BY <2>1, SumOfNothing
  <1>2. ASSUME NEW U \in SUBSET S, NEW x \in U, U \ {x} \in P
        PROVE  U \in P
    <2> DEFINE V == U \ {x}
               W == U \cup T
    <2>1. IsFiniteSet(U) /\ IsFiniteSet(V) /\ IsFiniteSet(W)
      BY FS_Subset, FS_Union
    <2>2. /\ x \in W /\ \A y \in W : f[y] \in Int
          /\ \A y \in U : f[y] \in Int
          /\ \A y \in V : f[y] \in Int
          /\ \A y \in T : f[y] \in Int
          /\ W \ {x} = V \cup T
      OBVIOUS
    <2>3. SumFunctionOnSet(f, V \cup T) = SumFunctionOnSet(f, V) + SumFunctionOnSet(f, T)
      BY <1>2
    <2> HIDE DEF V, W
    <2>4. SumFunctionOnSet(f, U) = f[x] + SumFunctionOnSet(f, V)
      BY <2>1, <2>2, SumRemoves DEF V
    <2>5. SumFunctionOnSet(f, W) = f[x] + SumFunctionOnSet(f, V \cup T)
      BY <2>1, <2>2, SumRemoves
    <2>6. f[x] \in Int /\ SumFunctionOnSet(f, V) \in Int /\ SumFunctionOnSet(f, T) \in Int
      BY <2>1, <2>2, SumIsInt
    <2>7. SumFunctionOnSet(f, W) = SumFunctionOnSet(f, U) + SumFunctionOnSet(f, T)
      BY <2>3, <2>4, <2>5, <2>6
    <2> QED BY <2>7 DEF W
  <1>3. SUBSET S \subseteq P
    <2> HIDE DEF P
    <2> QED BY <1>1, <1>2, OneByOne
  <1> QED BY <1>3

\* What is summed over a part and over the rest is the whole.
LEMMA SumOfParts ==
    ASSUME NEW f, NEW S, IsFiniteSet(S), NEW T \in SUBSET S, \A x \in S : f[x] \in Int
    PROVE  SumFunctionOnSet(f, S) = SumFunctionOnSet(f, T) + SumFunctionOnSet(f, S \ T)
  <1>1. IsFiniteSet(T) /\ IsFiniteSet(S \ T) /\ T \cap (S \ T) = {} /\ T \cup (S \ T) = S
    BY FS_Subset
  <1> QED BY <1>1, SumOfUnion

\* A sum of zeros is 0.
LEMMA SumIsZero ==
    ASSUME NEW f, NEW S, IsFiniteSet(S), \A x \in S : f[x] = 0
    PROVE  SumFunctionOnSet(f, S) = 0
  <1> DEFINE P == {T \in SUBSET S : SumFunctionOnSet(f, T) = 0}
  <1>1. {} \in P
    BY SumOfNothing
  <1>2. ASSUME NEW T \in SUBSET S, NEW x \in T, T \ {x} \in P PROVE T \in P
    <2>1. SumFunctionOnSet(f, T) = f[x] + SumFunctionOnSet(f, T \ {x})
      BY FS_Subset, SumRemoves
    <2> QED BY <1>2, <2>1
  <1>3. SUBSET S \subseteq P
    <2> HIDE DEF P
    <2> QED BY <1>1, <1>2, OneByOne
  <1> QED BY <1>3

\* Only the elements with a value count.
LEMMA SumOfRelevant ==
    ASSUME NEW f, NEW S, IsFiniteSet(S), NEW T \in SUBSET S,
           \A x \in S : f[x] \in Int, \A x \in S \ T : f[x] = 0
    PROVE  SumFunctionOnSet(f, S) = SumFunctionOnSet(f, T)
  <1>1. IsFiniteSet(T) /\ IsFiniteSet(S \ T)
    BY FS_Subset
  <1>2. SumFunctionOnSet(f, S \ T) = 0 /\ SumFunctionOnSet(f, T) \in Int
    BY <1>1, SumIsZero, SumIsInt
  <1> QED BY <1>2, SumOfParts

\* The sum of sums is a sum.
LEMMA SumsAdd ==
    ASSUME NEW f, NEW g, NEW h, NEW S, IsFiniteSet(S),
           \A x \in S : f[x] \in Int /\ g[x] \in Int /\ h[x] = f[x] + g[x]
    PROVE  SumFunctionOnSet(h, S) = SumFunctionOnSet(f, S) + SumFunctionOnSet(g, S)
  <1> DEFINE P == {T \in SUBSET S : SumFunctionOnSet(h, T)
                                      = SumFunctionOnSet(f, T) + SumFunctionOnSet(g, T)}
  <1>1. {} \in P
    BY SumOfNothing
  <1>2. ASSUME NEW T \in SUBSET S, NEW x \in T, T \ {x} \in P PROVE T \in P
    <2>0. IsFiniteSet(T) /\ IsFiniteSet(T \ {x})
      BY FS_Subset
    <2>1. /\ SumFunctionOnSet(f, T) = f[x] + SumFunctionOnSet(f, T \ {x})
          /\ SumFunctionOnSet(g, T) = g[x] + SumFunctionOnSet(g, T \ {x})
          /\ SumFunctionOnSet(h, T) = h[x] + SumFunctionOnSet(h, T \ {x})
      BY <2>0, SumRemoves
    <2>2. SumFunctionOnSet(f, T \ {x}) \in Int /\ SumFunctionOnSet(g, T \ {x}) \in Int
      BY <2>0, SumIsInt
    <2> QED BY <1>2, <2>1, <2>2
  <1>3. SUBSET S \subseteq P
    <2> HIDE DEF P
    <2> QED BY <1>1, <1>2, OneByOne
  <1> QED BY <1>3

\* A sum over sets that share nothing, of the sums over each, is the sum over all.
LEMMA SumOfFamily ==
    ASSUME NEW C, IsFiniteSet(C), NEW E, NEW f, NEW h,
           \A c \in C : IsFiniteSet(E[c]) /\ h[c] = SumFunctionOnSet(f, E[c]),
           \A c, d \in C : c # d => E[c] \cap E[d] = {},
           \A c \in C : \A x \in E[c] : f[x] \in Int
    PROVE  SumFunctionOnSet(h, C) = SumFunctionOnSet(f, UNION {E[c] : c \in C})
  <1> DEFINE all(D) == UNION {E[c] : c \in D}
             P == {D \in SUBSET C : /\ IsFiniteSet(all(D))
                                    /\ SumFunctionOnSet(h, D) = SumFunctionOnSet(f, all(D))}
  <1>1. {} \in P
    <2>1. all({}) = {}
      OBVIOUS
    <2> QED BY <2>1, FS_EmptySet, SumOfNothing
  <1>2. ASSUME NEW D \in SUBSET C, NEW c \in D, D \ {c} \in P PROVE D \in P
    <2> DEFINE B == D \ {c}
    <2>0. IsFiniteSet(D) /\ IsFiniteSet(E[c]) /\ IsFiniteSet(all(B))
      BY <1>2, FS_Subset
    <2>1. all(D) = E[c] \cup all(B) /\ E[c] \cap all(B) = {}
      OBVIOUS
    <2>2. \A x \in E[c] \cup all(B) : f[x] \in Int
      OBVIOUS
    <2>3. ASSUME NEW d \in D PROVE h[d] \in Int
      <3>1. IsFiniteSet(E[d]) /\ \A x \in E[d] : f[x] \in Int
        OBVIOUS
      <3>2. SumFunctionOnSet(f, E[d]) \in Int
        BY <3>1, SumIsInt
      <3> QED BY <3>2
    <2> DEFINE whole == all(D)
               rest == all(B)
               own == E[c]
    <2>4. IsFiniteSet(whole)
      <3>1. IsFiniteSet(own) /\ IsFiniteSet(rest) /\ whole = own \cup rest
        BY <2>0, <2>1
      <3> HIDE DEF whole, rest, own
      <3> QED BY <3>1, FS_Union
    <2>8. IsFiniteSet(own) /\ IsFiniteSet(rest) /\ whole = own \cup rest
            /\ own \cap rest = {} /\ \A x \in own \cup rest : f[x] \in Int
      BY <2>0, <2>1, <2>2
    <2>9. SumFunctionOnSet(f, whole) = SumFunctionOnSet(f, own) + SumFunctionOnSet(f, rest)
      <3> HIDE DEF whole, rest, own
      <3> QED BY <2>8, SumOfUnion
    <2> HIDE DEF all
    <2>5. SumFunctionOnSet(h, D) = h[c] + SumFunctionOnSet(h, B)
      BY <2>0, <2>3, SumRemoves
    <2>6. SumFunctionOnSet(f, all(D)) = SumFunctionOnSet(f, E[c]) + SumFunctionOnSet(f, all(B))
      BY <2>9
    <2>7. SumFunctionOnSet(h, B) = SumFunctionOnSet(f, all(B))
      BY <1>2
    <2> QED BY <2>4, <2>5, <2>6, <2>7
  <1>3. SUBSET C \subseteq P
    <2> HIDE DEF P
    <2> QED BY <1>1, <1>2, OneByOne
  <1> QED BY <1>3

\* A sum does not depend on the names of what is summed.
LEMMA SumRenamed ==
    ASSUME NEW S, IsFiniteSet(S), NEW m, NEW f, NEW h,
           \A x, y \in S : m[x] = m[y] => x = y,
           \A x \in S : h[x] = f[m[x]] /\ h[x] \in Int
    PROVE  SumFunctionOnSet(h, S) = SumFunctionOnSet(f, {m[x] : x \in S})
  <1> DEFINE all(T) == {m[x] : x \in T}
             P == {T \in SUBSET S : /\ IsFiniteSet(all(T))
                                    /\ SumFunctionOnSet(h, T) = SumFunctionOnSet(f, all(T))}
  <1>1. {} \in P
    <2>1. all({}) = {}
      OBVIOUS
    <2> QED BY <2>1, FS_EmptySet, SumOfNothing
  <1>2. ASSUME NEW T \in SUBSET S, NEW x \in T, T \ {x} \in P PROVE T \in P
    <2> DEFINE B == T \ {x}
    <2>1. all(T) = all(B) \cup {m[x]} /\ all(T) \ {m[x]} = all(B) /\ m[x] \in all(T)
      OBVIOUS
    <2>2. IsFiniteSet(T) /\ IsFiniteSet(all(B)) /\ IsFiniteSet(all(T))
      BY <1>2, <2>1, FS_Subset, FS_AddElement
    <2>3. \A y \in all(T) : f[y] \in Int
      OBVIOUS
    <2> DEFINE image == all(T)
               y == m[x]
    <2>7. IsFiniteSet(image) /\ y \in image /\ \A z \in image : f[z] \in Int
      BY <2>1, <2>2, <2>3
    <2>8. SumFunctionOnSet(f, image) = f[y] + SumFunctionOnSet(f, image \ {y})
      <3> HIDE DEF image, y
      <3> QED BY <2>7, SumRemoves
    <2> HIDE DEF all
    <2>4. SumFunctionOnSet(h, T) = h[x] + SumFunctionOnSet(h, B)
      BY <2>2, SumRemoves
    <2>5. SumFunctionOnSet(f, all(T)) = f[m[x]] + SumFunctionOnSet(f, all(B))
      BY <2>1, <2>8
    <2>6. SumFunctionOnSet(h, B) = SumFunctionOnSet(f, all(B))
      BY <1>2
    <2> QED BY <2>2, <2>4, <2>5, <2>6
  <1>3. SUBSET S \subseteq P
    <2> HIDE DEF P
    <2> QED BY <1>1, <1>2, OneByOne
  <1> QED BY <1>3

================================================================================
