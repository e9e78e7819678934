----------------------------- MODULE SumProofs ------------------------------
(***************************************************************************)
(* What a sum over a finite set is, for any finite set.  The folds of the  *)
(* library are recursive functions; that the function exists is shown      *)
(* here, with the least element principle (WFMin) over the subsets of a    *)
(* finite set in the place of an induction rule.                           *)
(***************************************************************************)
EXTENDS EventLines, FiniteSetTheorems, TLAPS

(* A non-empty set of subsets of a finite set has a smallest one.          *)
LEMMA SmallestSubset ==
  ASSUME NEW S, IsFiniteSet(S), NEW B \in SUBSET (SUBSET S), B # {}
  PROVE  \E T \in B : \A U \in B : U \subseteq T => U = T
<1>1. IsWellFoundedOn(StrictSubsetOrdering(S), SUBSET S)
  BY FS_StrictSubsetOrderingWellFounded, FS_FiniteSubsetsOfFinite
<1>2. PICK T \in B : \A U \in B : ~ (<<U, T>> \in StrictSubsetOrdering(S))
  BY <1>1, WFMin
<1>3. ASSUME NEW U \in B, U \subseteq T PROVE U = T
  BY <1>2, <1>3 DEF StrictSubsetOrdering
<1> QED BY <1>3

(* Induction over the subsets of a finite set: every subset is in G if a   *)
(* subset whose smaller subsets are all in G is.                           *)
LEMMA SubsetInduction ==
  ASSUME NEW S, IsFiniteSet(S), NEW G,
         \A T \in SUBSET S :
           (\A U \in SUBSET T : U # T => U \in G) => T \in G
  PROVE  SUBSET S \subseteq G
<1> DEFINE B == {T \in SUBSET S : T \notin G}
<1> SUFFICES ASSUME B # {} PROVE FALSE
  OBVIOUS
<1>1. B \in SUBSET (SUBSET S)
  OBVIOUS
<1>2. PICK T \in B : \A U \in B : U \subseteq T => U = T
  <2> HIDE DEF B
  <2> QED BY <1>1, SmallestSubset
<1>3. \A U \in SUBSET T : U # T => U \in G
  BY <1>2
<1> QED BY <1>3

(* A finite set has an element that none is before, in any strict order R. *)
LEMMA FirstInOrder ==
  ASSUME NEW P, IsFiniteSet(P), P # {}, NEW R,
         \A x \in P : <<x, x>> \notin R,
         \A x, y, z \in P : <<x, y>> \in R /\ <<y, z>> \in R => <<x, z>> \in R
  PROVE  \E x \in P : \A y \in P : <<y, x>> \notin R
<1> DEFINE below(x) == {y \in P : <<y, x>> \in R}
           B == {T \in SUBSET P : \E x \in P : T = below(x)}
<1>0. \A x \in P : below(x) \in B
  <2>1. \A x \in P : below(x) \in SUBSET P
    OBVIOUS
  <2> HIDE DEF below
  <2> QED BY <2>1
<1>1. B \in SUBSET (SUBSET P) /\ B # {}
  <2> HIDE DEF below
  <2> QED BY <1>0
<1>2. PICK T \in B : \A U \in B : U \subseteq T => U = T
  <2> HIDE DEF B
  <2> QED BY <1>1, SmallestSubset
<1>3. PICK x \in P : T = below(x)
  BY <1>2
<1>4. ASSUME NEW y \in P, <<y, x>> \in R PROVE FALSE
  <2>1. below(y) \subseteq below(x)
    BY <1>4
  <2>2. below(y) = below(x)
    <3> HIDE DEF below, B
    <3> QED BY <1>0, <1>2, <1>3, <2>1
  <2>3. y \in below(x) /\ y \notin below(y)
    BY <1>4
  <2> QED BY <2>2, <2>3
<1> QED BY <1>4

-----------------------------------------------------------------------------
(* The element the fold takes first.                                       *)
First(s) == CHOOSE x \in s : TRUE

(* f adds up q over every subset of T.                                     *)
Adds(f, q, T) ==
  \A s \in SUBSET T : f[s] = IF s = {} THEN 0 ELSE q[First(s)] + f[s \ {First(s)}]

(* A non-empty set has a first element.                                    *)
LEMMA FirstIn ==
  ASSUME NEW s, s # {} PROVE First(s) \in s /\ s \ {First(s)} # s
BY DEF First

(* Two functions that add up the same quantities agree.                    *)
LEMMA AddsUnique ==
  ASSUME NEW q, NEW r, NEW S, IsFiniteSet(S), \A x \in S : q[x] = r[x],
         NEW T, NEW U, S \subseteq T \cap U,
         NEW f, Adds(f, q, T), NEW g, Adds(g, r, U)
  PROVE  f[S] = g[S]
<1> DEFINE G == {s \in SUBSET S : f[s] = g[s]}
<1>1. ASSUME NEW s \in SUBSET S, \A t \in SUBSET s : t # s => t \in G
      PROVE  s \in G
  <2>1. CASE s = {}
    BY <2>1 DEF Adds
  <2>2. CASE s # {}
    <3> DEFINE t == s \ {First(s)}
    <3>1. First(s) \in s /\ t \in SUBSET s /\ t # s
      BY <2>2, FirstIn
    <3>2. f[t] = g[t] /\ q[First(s)] = r[First(s)]
      BY <1>1, <3>1
    <3>3. f[s] = q[First(s)] + f[t] /\ g[s] = r[First(s)] + g[t]
      BY <2>2 DEF Adds
    <3> QED BY <3>2, <3>3
  <2> QED BY <2>1, <2>2
<1>2. SUBSET S \subseteq G
  <2> HIDE DEF G
  <2> QED BY <1>1, SubsetInduction
<1> QED BY <1>2

(* Such a function exists for every finite set.                            *)
LEMMA AddsExists ==
  ASSUME NEW S, IsFiniteSet(S), NEW q
  PROVE  \E f : f = [s \in SUBSET S |-> f[s]] /\ Adds(f, q, S)
<1> DEFINE G == {T \in SUBSET S : \E f : Adds(f, q, T)}
           g(s) == CHOOSE f : Adds(f, q, s)
<1>1. ASSUME NEW T \in SUBSET S, \A s \in SUBSET T : s # T => Adds(g(s), q, s)
      PROVE  LET f == [s \in SUBSET T |->
                         IF s = {} THEN 0
                         ELSE q[First(s)] + g(s \ {First(s)})[s \ {First(s)}]]
             IN  Adds(f, q, T)
  <2> DEFINE f == [s \in SUBSET T |->
                     IF s = {} THEN 0
                     ELSE q[First(s)] + g(s \ {First(s)})[s \ {First(s)}]]
  <2>1. ASSUME NEW s \in SUBSET T, s # T PROVE f[s] = g(s)[s]
    <3> DEFINE t == s \ {First(s)}
    <3>1. Adds(g(s), q, s)
      BY <1>1, <2>1
    <3>2. CASE s = {}
      <4>1. g(s)[s] = 0
        BY <3>1, <3>2 DEF Adds
      <4> QED BY <3>2, <4>1
    <3>3. CASE s # {}
      <4>1. t \in SUBSET T /\ t # T /\ IsFiniteSet(t) /\ t \subseteq s \cap t
        BY <2>1, <3>3, FirstIn, FS_Subset
      <4>2. Adds(g(t), q, t)
        BY <1>1, <4>1
      <4>3. g(s)[t] = g(t)[t]
        <5> HIDE DEF g, t
        <5> QED BY <3>1, <4>1, <4>2, AddsUnique
      <4>4. g(s)[s] = q[First(s)] + g(s)[t]
        BY <3>1, <3>3 DEF Adds
      <4>5. f[s] = q[First(s)] + g(t)[t]
        BY <3>3
      <4> QED BY <4>3, <4>4, <4>5
    <3> QED BY <3>2, <3>3
  <2>2. ASSUME NEW s \in SUBSET T, s # {}
        PROVE  f[s] = q[First(s)] + f[s \ {First(s)}]
    <3> DEFINE t == s \ {First(s)}
    <3>1. t \in SUBSET T /\ t # T
      BY <2>2, FirstIn
    <3>2. f[t] = g(t)[t]
      BY <2>1, <3>1
    <3>3. f[s] = q[First(s)] + g(t)[t]
      BY <2>2
    <3> QED BY <3>2, <3>3
  <2>3. f[{}] = 0
    OBVIOUS
  <2> HIDE DEF f
  <2>4. Adds(f, q, T)
    BY <2>2, <2>3 DEF Adds
  <2> QED BY <2>4 DEF f
<1>2. ASSUME NEW T \in SUBSET S, \A s \in SUBSET T : s # T => s \in G
      PROVE  \A s \in SUBSET T : s # T => Adds(g(s), q, s)
  <2>1. ASSUME NEW s \in SUBSET T, s # T PROVE \E f : Adds(f, q, s)
    BY <1>2, <2>1
  <2> QED BY <2>1
<1>3. ASSUME NEW T \in SUBSET S, \A s \in SUBSET T : s # T => s \in G
      PROVE  T \in G
  BY <1>1, <1>2, <1>3
<1>4. SUBSET S \subseteq G
  <2> HIDE DEF G
  <2> QED BY <1>3, SubsetInduction
<1> DEFINE h == [s \in SUBSET S |->
                   IF s = {} THEN 0
                   ELSE q[First(s)] + g(s \ {First(s)})[s \ {First(s)}]]
<1>5. Adds(h, q, S)
  <2>1. \A s \in SUBSET S : s # S => Adds(g(s), q, s)
    BY <1>2, <1>4
  <2> QED BY <1>1, <2>1
<1>6. h = [s \in SUBSET S |-> h[s]]
  OBVIOUS
<1> HIDE DEF h
<1> QED BY <1>5, <1>6

(* The sum is what such a function says.                                   *)
LEMMA SumAdds ==
  ASSUME NEW S, IsFiniteSet(S), NEW q
  PROVE  \E f : Adds(f, q, S) /\ SumOf(q, S) = f[S]
<1> DEFINE Eq(f) == f = [s \in SUBSET S |-> IF s = {} THEN 0
                          ELSE q[CHOOSE x \in s : TRUE] + f[s \ {CHOOSE x \in s : TRUE}]]
           it == CHOOSE f : Eq(f)
<1>1. SumOf(q, S) = it[S]
  BY DEF SumOf, MapThenSumSet, MapThenFoldSet
<1>2. PICK f : f = [s \in SUBSET S |-> f[s]] /\ Adds(f, q, S)
  BY AddsExists
<1>3. Eq(f)
  BY <1>2 DEF Adds, First
<1>4. Eq(it)
  <2> HIDE DEF Eq
  <2> QED BY <1>3
<1>5. Adds(it, q, S)
  <2> HIDE DEF it
  <2> QED BY <1>4 DEF Adds, First
<1> HIDE DEF it
<1> QED BY <1>1, <1>5

-----------------------------------------------------------------------------
(* Nothing adds up to nothing.                                             *)
LEMMA SumEmpty == ASSUME NEW q PROVE SumOf(q, {}) = 0
<1>1. PICK f : Adds(f, q, {}) /\ SumOf(q, {}) = f[{}]
  BY SumAdds, FS_EmptySet
<1> QED BY <1>1 DEF Adds

(* The sum takes its first element and goes on with the rest.              *)
LEMMA SumFirst ==
  ASSUME NEW S, IsFiniteSet(S), S # {}, NEW q
  PROVE  SumOf(q, S) = q[First(S)] + SumOf(q, S \ {First(S)})
<1> DEFINE R == S \ {First(S)}
<1>1. IsFiniteSet(R) /\ R \subseteq S \cap R
  BY FS_Subset
<1>2. PICK f : Adds(f, q, S) /\ SumOf(q, S) = f[S]
  BY SumAdds
<1>3. PICK g : Adds(g, q, R) /\ SumOf(q, R) = g[R]
  BY <1>1, SumAdds
<1>4. f[R] = g[R]
  <2> HIDE DEF R
  <2> QED BY <1>1, <1>2, <1>3, AddsUnique
<1>5. f[S] = q[First(S)] + f[R]
  BY <1>2 DEF Adds
<1> QED BY <1>2, <1>3, <1>4, <1>5

(* Equal quantities have equal sums.                                       *)
LEMMA SumAgree ==
  ASSUME NEW S, IsFiniteSet(S), NEW q, NEW r, \A x \in S : q[x] = r[x]
  PROVE  SumOf(q, S) = SumOf(r, S)
<1>1. PICK f : Adds(f, q, S) /\ SumOf(q, S) = f[S]
  BY SumAdds
<1>2. PICK g : Adds(g, r, S) /\ SumOf(r, S) = g[S]
  BY SumAdds
<1> QED BY <1>1, <1>2, AddsUnique

(* A sum of integers is an integer.                                        *)
LEMMA SumType ==
  ASSUME NEW S, IsFiniteSet(S), NEW q, \A x \in S : q[x] \in Int
  PROVE  SumOf(q, S) \in Int
<1> DEFINE G == {T \in SUBSET S : SumOf(q, T) \in Int}
<1>1. ASSUME NEW T \in SUBSET S, \A U \in SUBSET T : U # T => U \in G
      PROVE  T \in G
  <2>1. CASE T = {}
    BY <2>1, SumEmpty
  <2>2. CASE T # {}
    <3>1. SumOf(q, T) = q[First(T)] + SumOf(q, T \ {First(T)})
      BY <2>2, FS_Subset, SumFirst
    <3>2. First(T) \in T /\ T \ {First(T)} \in G
      BY <1>1, <2>2, FirstIn
    <3>3. q[First(T)] \in Int /\ SumOf(q, T \ {First(T)}) \in Int
      BY <3>2
    <3> QED BY <3>1, <3>3
  <2> QED BY <2>1, <2>2
<1>2. SUBSET S \subseteq G
  <2> HIDE DEF G
  <2> QED BY <1>1, SubsetInduction
<1> QED BY <1>2

(* Any element can be taken out of the sum.                                *)
LEMMA SumRemove ==
  ASSUME NEW S, IsFiniteSet(S), NEW q, \A x \in S : q[x] \in Int, NEW y \in S
  PROVE  SumOf(q, S) = q[y] + SumOf(q, S \ {y})
<1> DEFINE G == {T \in SUBSET S :
                   \A x \in T : SumOf(q, T) = q[x] + SumOf(q, T \ {x})}
<1>1. ASSUME NEW T \in SUBSET S, \A U \in SUBSET T : U # T => U \in G
      PROVE  T \in G
  <2> SUFFICES ASSUME NEW x \in T
               PROVE  SumOf(q, T) = q[x] + SumOf(q, T \ {x})
    OBVIOUS
  <2> DEFINE c == First(T)
  <2>1. IsFiniteSet(T) /\ c \in T
    BY FS_Subset, FirstIn
  <2>2. SumOf(q, T) = q[c] + SumOf(q, T \ {c})
    BY <2>1, SumFirst
  <2>3. CASE x = c
    BY <2>2, <2>3
  <2>4. CASE x # c
    <3>1. T \ {c} \in G /\ T \ {x} \in G /\ x \in T \ {c} /\ c \in T \ {x}
      BY <1>1, <2>1, <2>4
    <3>2. (T \ {c}) \ {x} = (T \ {x}) \ {c}
      OBVIOUS
    <3> DEFINE R == (T \ {x}) \ {c}
    <3>3. /\ SumOf(q, T \ {c}) = q[x] + SumOf(q, R)
          /\ SumOf(q, T \ {x}) = q[c] + SumOf(q, R)
      BY <3>1, <3>2
    <3>4. R \in SUBSET S /\ IsFiniteSet(R) /\ \A z \in R : q[z] \in Int
      BY FS_Subset
    <3>5. SumOf(q, R) \in Int
      BY <3>4, SumType
    <3>6. q[c] \in Int /\ q[x] \in Int
      BY <2>1
    <3> QED BY <2>2, <3>3, <3>5, <3>6
  <2> QED BY <2>3, <2>4
<1>2. SUBSET S \subseteq G
  <2> HIDE DEF G
  <2> QED BY <1>1, SubsetInduction
<1> QED BY <1>2

(* Sums over two sets without a common element add up.                     *)
LEMMA SumUnion ==
  ASSUME NEW S, IsFiniteSet(S), NEW T, IsFiniteSet(T), S \cap T = {},
         NEW q, \A x \in S \cup T : q[x] \in Int
  PROVE  SumOf(q, S \cup T) = SumOf(q, S) + SumOf(q, T)
<1> DEFINE G == {U \in SUBSET S : SumOf(q, U \cup T) = SumOf(q, U) + SumOf(q, T)}
<1>1. ASSUME NEW U \in SUBSET S, \A V \in SUBSET U : V # U => V \in G
      PROVE  U \in G
  <2>0. SumOf(q, T) \in Int
    BY SumType
  <2>1. CASE U = {}
    <3>1. U \cup T = T /\ SumOf(q, U) = 0
      BY <2>1, SumEmpty
    <3>2. SumOf(q, U \cup T) = SumOf(q, T)
      BY <3>1, Zenon
    <3>3. SumOf(q, U \cup T) = SumOf(q, U) + SumOf(q, T)
      BY <2>0, <3>1, <3>2
    <3> QED BY <3>3
  <2>2. CASE U # {}
    <3> DEFINE c == First(U)
               V == U \ {c}
    <3>1. c \in U /\ V \in SUBSET S /\ V # U /\ c \notin T
      BY <2>2, FirstIn
    <3>2. IsFiniteSet(U) /\ IsFiniteSet(U \cup T) /\ IsFiniteSet(V)
      BY <3>1, FS_Subset, FS_Union
    <3>3. SumOf(q, V) \in Int /\ q[c] \in Int
      BY <3>1, <3>2, SumType
    <3>4. SumOf(q, U) = q[c] + SumOf(q, V)
      BY <3>1, <3>2, SumRemove
    <3>5. SumOf(q, (U \cup T) \ {c}) = SumOf(q, V \cup T)
      <4>1. (U \cup T) \ {c} = V \cup T
        BY <3>1
      <4> QED BY <4>1, Zenon
    <3>6. SumOf(q, U \cup T) = q[c] + SumOf(q, (U \cup T) \ {c})
      BY <3>1, <3>2, SumRemove
    <3>7. SumOf(q, V \cup T) = SumOf(q, V) + SumOf(q, T)
      BY <1>1, <3>1
    <3>8. SumOf(q, U \cup T) = SumOf(q, U) + SumOf(q, T)
      <4> HIDE DEF c, V
      <4> QED BY <2>0, <3>3, <3>4, <3>5, <3>6, <3>7
    <3> QED BY <3>8
  <2> QED BY <2>1, <2>2
<1>2. SUBSET S \subseteq G
  <2> HIDE DEF G
  <2> QED BY <1>1, SubsetInduction
<1> QED BY <1>2

(* The sum of sums: if h is q plus r everywhere, so are the sums.          *)
LEMMA SumPlus ==
  ASSUME NEW S, IsFiniteSet(S), NEW q, NEW r, NEW h,
         \A x \in S : q[x] \in Int /\ r[x] \in Int /\ h[x] = q[x] + r[x]
  PROVE  SumOf(h, S) = SumOf(q, S) + SumOf(r, S)
<1> DEFINE G == {T \in SUBSET S : SumOf(h, T) = SumOf(q, T) + SumOf(r, T)}
<1>1. ASSUME NEW T \in SUBSET S, \A U \in SUBSET T : U # T => U \in G
      PROVE  T \in G
  <2>1. CASE T = {}
    BY <2>1, SumEmpty
  <2>2. CASE T # {}
    <3> DEFINE c == First(T)
               U == T \ {c}
    <3>1. IsFiniteSet(T) /\ IsFiniteSet(U) /\ c \in T /\ U \in SUBSET S
      BY <2>2, FirstIn, FS_Subset
    <3>2. /\ SumOf(h, T) = h[c] + SumOf(h, U)
          /\ SumOf(q, T) = q[c] + SumOf(q, U)
          /\ SumOf(r, T) = r[c] + SumOf(r, U)
      BY <2>2, <3>1, SumFirst
    <3>3. SumOf(h, U) = SumOf(q, U) + SumOf(r, U)
      BY <1>1, <2>2, FirstIn
    <3>4. SumOf(q, U) \in Int /\ SumOf(r, U) \in Int
      BY <3>1, SumType
    <3>5. q[c] \in Int /\ r[c] \in Int /\ h[c] = q[c] + r[c]
      BY <3>1
    <3> HIDE DEF c, U
    <3> QED BY <3>2, <3>3, <3>4, <3>5
  <2> QED BY <2>1, <2>2
<1>2. SUBSET S \subseteq G
  <2> HIDE DEF G
  <2> QED BY <1>1, SubsetInduction
<1> QED BY <1>2

(* A sum of natural numbers is one.                                        *)
LEMMA SumNat ==
  ASSUME NEW S, IsFiniteSet(S), NEW q, \A x \in S : q[x] \in Nat
  PROVE  SumOf(q, S) \in Nat
<1> DEFINE G == {T \in SUBSET S : SumOf(q, T) \in Nat}
<1>1. ASSUME NEW T \in SUBSET S, \A U \in SUBSET T : U # T => U \in G
      PROVE  T \in G
  <2>1. CASE T = {}
    BY <2>1, SumEmpty
  <2>2. CASE T # {}
    <3>1. SumOf(q, T) = q[First(T)] + SumOf(q, T \ {First(T)})
      BY <2>2, FS_Subset, SumFirst
    <3>2. First(T) \in T /\ T \ {First(T)} \in G
      BY <1>1, <2>2, FirstIn
    <3>3. q[First(T)] \in Nat /\ SumOf(q, T \ {First(T)}) \in Nat
      BY <3>2
    <3> QED BY <3>1, <3>3
  <2> QED BY <2>1, <2>2
<1>2. SUBSET S \subseteq G
  <2> HIDE DEF G
  <2> QED BY <1>1, SubsetInduction
<1> QED BY <1>2

(* No part of a sum of natural numbers is more than the sum.               *)
LEMMA SumPart ==
  ASSUME NEW S, IsFiniteSet(S), NEW q, \A x \in S : q[x] \in Nat, NEW y \in S
  PROVE  q[y] <= SumOf(q, S)
<1>1. SumOf(q, S) = q[y] + SumOf(q, S \ {y})
  BY SumRemove
<1>2. IsFiniteSet(S \ {y}) /\ \A x \in S \ {y} : q[x] \in Nat
  BY FS_Subset
<1>3. SumOf(q, S \ {y}) \in Nat
  BY <1>2, SumNat
<1>4. q[y] \in Nat
  OBVIOUS
<1> QED BY <1>1, <1>3, <1>4

(* A sum over a part of a set of natural numbers is at most the whole sum. *)
LEMMA SumSubset ==
  ASSUME NEW S, IsFiniteSet(S), NEW T \in SUBSET S,
         NEW q, \A x \in S : q[x] \in Nat
  PROVE  SumOf(q, T) <= SumOf(q, S)
<1>1. IsFiniteSet(T) /\ IsFiniteSet(S \ T) /\ T \cap (S \ T) = {}
  BY FS_Subset
<1>2. S = T \cup (S \ T)
  OBVIOUS
<1>3. SumOf(q, S) = SumOf(q, T) + SumOf(q, S \ T)
  BY <1>1, <1>2, SumUnion
<1>4. SumOf(q, T) \in Nat /\ SumOf(q, S \ T) \in Nat
  BY <1>1, SumNat
<1> QED BY <1>3, <1>4

(* Zeros add up to zero.                                                   *)
LEMMA SumZero ==
  ASSUME NEW S, IsFiniteSet(S), NEW q, \A x \in S : q[x] = 0
  PROVE  SumOf(q, S) = 0
<1> DEFINE G == {T \in SUBSET S : SumOf(q, T) = 0}
<1>1. ASSUME NEW T \in SUBSET S, \A U \in SUBSET T : U # T => U \in G
      PROVE  T \in G
  <2>1. CASE T = {}
    BY <2>1, SumEmpty
  <2>2. CASE T # {}
    <3>1. SumOf(q, T) = q[First(T)] + SumOf(q, T \ {First(T)})
      BY <2>2, FS_Subset, SumFirst
    <3>2. First(T) \in T /\ T \ {First(T)} \in G
      BY <1>1, <2>2, FirstIn
    <3>3. q[First(T)] = 0 /\ SumOf(q, T \ {First(T)}) = 0
      BY <3>2
    <3> QED BY <3>1, <3>3
  <2> QED BY <2>1, <2>2
<1>2. SUBSET S \subseteq G
  <2> HIDE DEF G
  <2> QED BY <1>1, SubsetInduction
<1> QED BY <1>2

(* Two quantities that differ in one element only differ there by as much  *)
(* as their sums do.                                                       *)
LEMMA SumChange ==
  ASSUME NEW S, IsFiniteSet(S), NEW q, NEW r, NEW y \in S,
         \A x \in S : q[x] \in Int /\ r[x] \in Int,
         \A x \in S \ {y} : q[x] = r[x]
  PROVE  SumOf(r, S) = SumOf(q, S) + (r[y] - q[y])
<1>1. SumOf(q, S) = q[y] + SumOf(q, S \ {y}) /\ SumOf(r, S) = r[y] + SumOf(r, S \ {y})
  BY SumRemove
<1>2. IsFiniteSet(S \ {y})
  BY FS_Subset
<1>3. SumOf(q, S \ {y}) = SumOf(r, S \ {y}) /\ SumOf(q, S \ {y}) \in Int
  BY <1>2, SumAgree, SumType
<1>4. q[y] \in Int /\ r[y] \in Int
  OBVIOUS
<1> QED BY <1>1, <1>3, <1>4

(* A finite, non-empty set of natural numbers has its maximum.             *)
LEMMA MaxIs ==
  ASSUME NEW S \in SUBSET Nat, IsFiniteSet(S), S # {}
  PROVE  Max(S) \in S /\ \A n \in S : Max(S) >= n
<1> DEFINE R == {z \in S \X S : z[1] > z[2]}
<1>1. \A x, y \in S : x > y <=> <<x, y>> \in R
  OBVIOUS
<1> HIDE DEF R
<1>2. \A x \in S : <<x, x>> \notin R
  BY <1>1
<1>3. \A x, y, z \in S : <<x, y>> \in R /\ <<y, z>> \in R => <<x, z>> \in R
  BY <1>1
<1>4. PICK x \in S : \A y \in S : <<y, x>> \notin R
  BY <1>2, <1>3, FirstInOrder
<1>5. ASSUME NEW y \in S PROVE x >= y
  <2>1. ~(y > x) /\ x \in Nat /\ y \in Nat
    BY <1>1, <1>4
  <2> QED BY <2>1
<1> QED BY <1>4, <1>5 DEF Max

-----------------------------------------------------------------------------
(* The lines of an event can be added up.                                  *)
Adding(pay) == IsFiniteSet(DOMAIN pay) /\ \A n \in DOMAIN pay : pay[n].qty \in Nat

(* Some places of an event's lines add up to a natural number.             *)
LEMMA PartsNat ==
  ASSUME NEW pay, Adding(pay), NEW N \in SUBSET (DOMAIN pay)
  PROVE  SumParts(pay, N) \in Nat
<1>1. IsFiniteSet(N) /\ \A n \in N : [m \in N |-> pay[m].qty][n] \in Nat
  BY FS_Subset DEF Adding
<1> QED BY <1>1, SumNat DEF SumParts

(* An event moves a natural number on a line and on a lot.                 *)
LEMMA OfLineNat ==
  ASSUME NEW pay, Adding(pay), NEW ln PROVE OfLine(pay, ln) \in Nat
BY PartsNat DEF OfLine

(* An event moves a natural number on a line and on a lot.                 *)
LEMMA OfLotNat ==
  ASSUME NEW pay, Adding(pay), NEW l PROVE OfLot(pay, l) \in Nat
BY PartsNat DEF OfLot

(* An event moves nothing on a line that it does not list.                 *)
LEMMA OfLineNone ==
  ASSUME NEW pay, NEW ln, \A n \in DOMAIN pay : pay[n].line # ln
  PROVE  OfLine(pay, ln) = 0
<1>1. {n \in DOMAIN pay : pay[n].line = ln} = {}
  OBVIOUS
<1>2. OfLine(pay, ln) = SumParts(pay, {})
  BY <1>1 DEF OfLine
<1> QED BY <1>2, SumEmpty DEF SumParts

(* An event moves nothing on a lot that it does not list.                  *)
LEMMA OfLotNone ==
  ASSUME NEW pay, NEW l, l \notin LotsIn(pay)
  PROVE  OfLot(pay, l) = 0
<1>1. {n \in DOMAIN pay : pay[n].lot = l} = {}
  BY DEF LotsIn
<1>2. OfLot(pay, l) = SumParts(pay, {})
  BY <1>1 DEF OfLot
<1> QED BY <1>2, SumEmpty DEF SumParts

(* An event that lists a line once moves that quantity on it.              *)
LEMMA OfLineOnce ==
  ASSUME NEW pay, Adding(pay), NEW n \in DOMAIN pay,
         \A m \in DOMAIN pay : pay[m].line = pay[n].line => m = n
  PROVE  OfLine(pay, pay[n].line) = pay[n].qty
<1> DEFINE N == {m \in DOMAIN pay : pay[m].line = pay[n].line}
           q == [m \in N |-> pay[m].qty]
<1>1. IsFiniteSet(N) /\ (\A m \in N : q[m] \in Int) /\ n \in N /\ N \ {n} = {}
  BY FS_Subset DEF Adding
<1>2. q[n] = pay[n].qty /\ pay[n].qty \in Nat
  BY DEF Adding
<1>3. OfLine(pay, pay[n].line) = SumOf(q, N)
  BY DEF OfLine, SumParts
<1> HIDE DEF N, q
<1>4. SumOf(q, N) = q[n] + SumOf(q, N \ {n})
  BY <1>1, SumRemove
<1>5. SumOf(q, N \ {n}) = 0
  BY <1>1, SumEmpty, Zenon
<1> QED BY <1>2, <1>3, <1>4, <1>5

(* Events add up to a natural number on a line and on a lot.               *)
LEMMA TotalsNat ==
  ASSUME NEW N, IsFiniteSet(N), NEW evs, \A n \in N : Adding(evs[n].pay), NEW x
  PROVE  LineTotal(evs, N, x) \in Nat /\ LotTotal(evs, N, x) \in Nat
<1>1. \A n \in N : /\ [m \in N |-> OfLine(evs[m].pay, x)][n] \in Nat
                   /\ [m \in N |-> OfLot(evs[m].pay, x)][n] \in Nat
  BY OfLineNat, OfLotNat
<1> QED BY <1>1, SumNat DEF LineTotal, LotTotal

(* Only the lines of the events count.                                     *)
LEMMA TotalsAgree ==
  ASSUME NEW N, IsFiniteSet(N), NEW evs, NEW fvs,
         \A n \in N : evs[n].pay = fvs[n].pay, NEW x
  PROVE  /\ LineTotal(evs, N, x) = LineTotal(fvs, N, x)
         /\ LotTotal(evs, N, x) = LotTotal(fvs, N, x)
<1>1. \A n \in N :
        /\ [m \in N |-> OfLine(evs[m].pay, x)][n] = [m \in N |-> OfLine(fvs[m].pay, x)][n]
        /\ [m \in N |-> OfLot(evs[m].pay, x)][n] = [m \in N |-> OfLot(fvs[m].pay, x)][n]
  OBVIOUS
<1> QED BY <1>1, SumAgree DEF LineTotal, LotTotal

(* One more event adds what it moves.                                      *)
LEMMA TotalsGrow ==
  ASSUME NEW N, IsFiniteSet(N), NEW k, k \notin N, NEW M, M = N \cup {k},
         NEW evs, NEW fvs,
         \A n \in N : evs[n].pay = fvs[n].pay /\ Adding(evs[n].pay),
         NEW pay, pay = fvs[k].pay, Adding(pay), NEW x
  PROVE  /\ LineTotal(fvs, M, x) = LineTotal(evs, N, x) + OfLine(pay, x)
         /\ LotTotal(fvs, M, x) = LotTotal(evs, N, x) + OfLot(pay, x)
<1> DEFINE q == [n \in M |-> OfLine(fvs[n].pay, x)]
           r == [n \in M |-> OfLot(fvs[n].pay, x)]
           u == [n \in N |-> OfLine(evs[n].pay, x)]
           v == [n \in N |-> OfLot(evs[n].pay, x)]
<1>1. IsFiniteSet(M) /\ k \in M /\ M \ {k} = N
  BY FS_AddElement
<1>2. \A n \in M : Adding(fvs[n].pay)
  OBVIOUS
<1>3. \A n \in M : q[n] \in Int /\ r[n] \in Int
  BY <1>2, OfLineNat, OfLotNat
<1>4. \A n \in N : q[n] = u[n] /\ r[n] = v[n]
  OBVIOUS
<1>5. q[k] = OfLine(pay, x) /\ r[k] = OfLot(pay, x)
  BY <1>1
<1>6. /\ LineTotal(fvs, M, x) = SumOf(q, M) /\ LineTotal(evs, N, x) = SumOf(u, N)
      /\ LotTotal(fvs, M, x) = SumOf(r, M) /\ LotTotal(evs, N, x) = SumOf(v, N)
  BY DEF LineTotal, LotTotal
<1>7. q[k] \in Int /\ r[k] \in Int
  BY <1>1, <1>3
<1> HIDE DEF q, r, u, v
<1>8. SumOf(q, M) = q[k] + SumOf(q, M \ {k}) /\ SumOf(r, M) = r[k] + SumOf(r, M \ {k})
  BY <1>1, <1>3, SumRemove
<1>9. SumOf(q, M \ {k}) = SumOf(q, N) /\ SumOf(r, M \ {k}) = SumOf(r, N)
  BY <1>1, Zenon
<1>10. SumOf(q, N) = SumOf(u, N) /\ SumOf(r, N) = SumOf(v, N)
  BY <1>4, SumAgree
<1>11. SumOf(u, N) \in Int /\ SumOf(v, N) \in Int
  <2>1. \A n \in N : u[n] \in Int /\ v[n] \in Int
    BY <1>3, <1>4
  <2> QED BY <2>1, SumType
<1>12. /\ SumOf(q, M) = SumOf(u, N) + q[k] /\ SumOf(r, M) = SumOf(v, N) + r[k]
  BY <1>7, <1>8, <1>9, <1>10, <1>11
<1> QED BY <1>5, <1>6, <1>12

(* One more event adds what it moves on the lot.                           *)
LEMMA LotGrows ==
  ASSUME NEW N, IsFiniteSet(N), NEW k, k \notin N, NEW M, M = N \cup {k},
         NEW evs, NEW fvs,
         \A n \in N : evs[n].pay = fvs[n].pay /\ Adding(evs[n].pay),
         NEW pay, pay = fvs[k].pay, Adding(pay), NEW l
  PROVE  LotTotal(fvs, M, l) = LotTotal(evs, N, l) + OfLot(pay, l)
<1>1. /\ LineTotal(fvs, M, l) = LineTotal(evs, N, l) + OfLine(pay, l)
      /\ LotTotal(fvs, M, l) = LotTotal(evs, N, l) + OfLot(pay, l)
  BY TotalsGrow
<1> QED BY <1>1

(* Fewer events add up to less.                                            *)
LEMMA TotalsSubset ==
  ASSUME NEW N, IsFiniteSet(N), NEW M \in SUBSET N, NEW evs,
         \A n \in N : Adding(evs[n].pay), NEW x
  PROVE  LineTotal(evs, M, x) <= LineTotal(evs, N, x)
<1> DEFINE q == [n \in N |-> OfLine(evs[n].pay, x)]
           r == [n \in M |-> OfLine(evs[n].pay, x)]
<1>1. (\A n \in N : q[n] \in Nat) /\ (\A n \in M : r[n] = q[n]) /\ IsFiniteSet(M)
  BY OfLineNat, FS_Subset
<1>2. LineTotal(evs, M, x) = SumOf(r, M) /\ LineTotal(evs, N, x) = SumOf(q, N)
  BY DEF LineTotal
<1> HIDE DEF q, r
<1>3. SumOf(r, M) = SumOf(q, M)
  BY <1>1, SumAgree
<1>4. SumOf(q, M) <= SumOf(q, N)
  BY <1>1, SumSubset
<1> QED BY <1>2, <1>3, <1>4
=============================================================================
