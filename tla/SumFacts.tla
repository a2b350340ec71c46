------------------------------- MODULE SumFacts -------------------------------
(***************************************************************************)
(* Facts about SumFunctionOnSet, the sum of the values a function has on a *)
(* finite set, which the balances of accounts are stated with.  The        *)
(* induction is on the set of the subsets that a fact holds for, so that   *)
(* no fact is a parameter of another.                                      *)
(***************************************************************************)
EXTENDS Integers, FiniteSets, Functions, FiniteSetTheorems, WellFoundedInduction, TLAPS

-----------------------------------------------------------------------------
(* Induction on finite sets. *)

\* A set of subsets that has each one all of whose proper subsets it has, has
\* them all.
LEMMA SubsetInduction ==
  ASSUME NEW S, IsFiniteSet(S), NEW G,
         \A T \in SUBSET S : (\A U \in SUBSET T : U # T => U \in G) => T \in G
  PROVE  \A T \in SUBSET S : T \in G
<1>. DEFINE Bad == {T \in SUBSET S : T \notin G}
<1>1. SUFFICES ASSUME Bad # {}
               PROVE  FALSE
  OBVIOUS
<1>2. Bad \subseteq FiniteSubsetsOf(S)
  BY FS_FiniteSubsetsOfFinite
<1>3. \E T \in Bad : \A U \in Bad : ~(<<U, T>> \in StrictSubsetOrdering(S))
  <2>. HIDE DEF Bad
  <2>. QED
    BY <1>1, <1>2, FS_StrictSubsetOrderingWellFounded, WFMin
<1>4. PICK T \in Bad : \A U \in Bad : ~(<<U, T>> \in StrictSubsetOrdering(S))
  BY <1>3
<1>5. ASSUME NEW U \in SUBSET T, U # T
      PROVE  U \in G
  BY <1>4, <1>5 DEF StrictSubsetOrdering
<1>. QED
  BY <1>4, <1>5

-----------------------------------------------------------------------------
(* The fold that the sum is. *)

Pick(s) == CHOOSE x \in s : TRUE

\* The function g gives the sums of f on the subsets of S.
Sums(f, S, g) ==
  g = [s \in SUBSET S |-> IF s = {} THEN 0 ELSE f[Pick(s)] + g[s \ {Pick(s)}]]

SumsOf(f, S) == CHOOSE g : Sums(f, S, g)

\* A sum is the last of the sums of the subsets.
LEMMA SumIsFold ==
  ASSUME NEW f, NEW S
  PROVE  SumFunctionOnSet(f, S) = SumsOf(f, S)[S]
BY DEF SumFunctionOnSet, FoldFunctionOnSet, MapThenFoldSet, SumsOf, Sums, Pick

\* The chosen element is one of the set.
LEMMA PickIn ==
  ASSUME NEW s, s # {}
  PROVE  Pick(s) \in s
BY DEF Pick

\* The sums of the subsets, one at a time.
LEMMA SumsAt ==
  ASSUME NEW f, NEW S, NEW g, Sums(f, S, g), NEW s \in SUBSET S
  PROVE  g[s] = IF s = {} THEN 0 ELSE f[Pick(s)] + g[s \ {Pick(s)}]
<1>1. g = [t \in SUBSET S |-> IF t = {} THEN 0 ELSE f[Pick(t)] + g[t \ {Pick(t)}]]
  BY DEF Sums
<1>. QED
  BY <1>1

\* The sums of a set do not depend on the set they are computed in.
LEMMA SumsAgree ==
  ASSUME NEW f, NEW S, NEW R \in SUBSET S, IsFiniteSet(R),
         NEW g, Sums(f, S, g), NEW h, Sums(f, R, h)
  PROVE  \A T \in SUBSET R : g[T] = h[T]
<1>. DEFINE G == {T \in SUBSET R : g[T] = h[T]}
<1>1. ASSUME NEW T \in SUBSET R, \A U \in SUBSET T : U # T => U \in G
      PROVE  T \in G
  <2>1. CASE T = {}
    BY <2>1, SumsAt
  <2>2. CASE T # {}
    <3>1. Pick(T) \in T
      BY <2>2, PickIn
    <3>2. g[T \ {Pick(T)}] = h[T \ {Pick(T)}]
      BY <1>1, <3>1
    <3>3. g[T] = f[Pick(T)] + g[T \ {Pick(T)}] /\ h[T] = f[Pick(T)] + h[T \ {Pick(T)}]
      BY <2>2, SumsAt
    <3>. QED
      BY <3>2, <3>3
  <2>. QED
    BY <2>1, <2>2
<1>2. \A T \in SUBSET R : T \in G
  <2>. HIDE DEF G
  <2>. QED
    BY <1>1, SubsetInduction
<1>. QED
  BY <1>2

\* The sums exist for every finite set.
LEMMA SumsExist ==
  ASSUME NEW f, NEW S, IsFiniteSet(S)
  PROVE  Sums(f, S, SumsOf(f, S))
<1>. DEFINE G == {T \in SUBSET S : \E g : Sums(f, T, g)}
<1>1. ASSUME NEW T \in SUBSET S, \A U \in SUBSET T : U # T => U \in G
      PROVE  T \in G
  <2>. DEFINE value(s) == IF s = T THEN IF T = {} THEN 0
                                        ELSE f[Pick(T)] + SumsOf(f, T \ {Pick(T)})[T \ {Pick(T)}]
                          ELSE SumsOf(f, s)[s]
              h == [s \in SUBSET T |-> value(s)]
  <2>1. ASSUME NEW U \in SUBSET T, U # T
        PROVE  Sums(f, U, SumsOf(f, U))
    <3>1. \E g : Sums(f, U, g)
      BY <1>1, <2>1
    <3>. QED
      BY <3>1 DEF SumsOf
  <2>2. ASSUME NEW s \in SUBSET T
        PROVE  h[s] = IF s = {} THEN 0 ELSE f[Pick(s)] + h[s \ {Pick(s)}]
    <3>1. CASE s = {}
      <4>1. CASE s = T
        BY <3>1, <4>1
      <4>2. CASE s # T
        <5>1. Sums(f, s, SumsOf(f, s))
          BY <2>1, <4>2
        <5>2. SumsOf(f, s)[s] = 0
          BY <5>1, <3>1, SumsAt
        <5>. QED
          BY <5>2, <3>1, <4>2
      <4>. QED
        BY <4>1, <4>2
    <3>2. CASE s # {}
      <4>. DEFINE r == s \ {Pick(s)}
      <4>1. Pick(s) \in s
        BY <3>2, PickIn
      <4>2. r \in SUBSET T /\ r # T /\ r \in SUBSET s /\ r # s
        BY <4>1
      <4>3. h[r] = SumsOf(f, r)[r]
        BY <4>2
      <4>4. CASE s = T
        BY <3>2, <4>3, <4>4
      <4>5. CASE s # T
        <5>1. Sums(f, s, SumsOf(f, s)) /\ Sums(f, r, SumsOf(f, r))
          BY <2>1, <4>2, <4>5
        <5>2. IsFiniteSet(r)
          BY <4>2, FS_Subset
        <5>3. \A t \in SUBSET r : SumsOf(f, s)[t] = SumsOf(f, r)[t]
          BY <5>1, <5>2, <4>2, SumsAgree
        <5>4. SumsOf(f, s)[s] = f[Pick(s)] + SumsOf(f, s)[r]
          BY <5>1, <3>2, SumsAt
        <5>. QED
          BY <5>3, <5>4, <4>3, <4>5, <3>2
      <4>. QED
        BY <4>4, <4>5
    <3>. QED
      BY <3>1, <3>2
  <2>3. h = [s \in SUBSET T |-> IF s = {} THEN 0 ELSE f[Pick(s)] + h[s \ {Pick(s)}]]
    BY <2>2
  <2>4. Sums(f, T, h)
    BY <2>3 DEF Sums
  <2>. QED
    BY <2>4
<1>2. \A T \in SUBSET S : T \in G
  <2>. HIDE DEF G
  <2>. QED
    BY <1>1, SubsetInduction
<1>3. \E g : Sums(f, S, g)
  BY <1>2
<1>. QED
  BY <1>3 DEF SumsOf

-----------------------------------------------------------------------------
(* Sums. *)

\* Nothing sums up to 0.
LEMMA SumEmpty ==
  ASSUME NEW f
  PROVE  SumFunctionOnSet(f, {}) = 0
<1>1. Sums(f, {}, SumsOf(f, {}))
  BY SumsExist, FS_EmptySet
<1>. QED
  BY <1>1, SumsAt, SumIsFold

\* The chosen element and the rest.
LEMMA SumStep ==
  ASSUME NEW f, NEW S, IsFiniteSet(S), S # {}
  PROVE  SumFunctionOnSet(f, S) = f[Pick(S)] + SumFunctionOnSet(f, S \ {Pick(S)})
<1>1. PICK r \in SUBSET S : r = S \ {Pick(S)}
  OBVIOUS
<1>2. IsFiniteSet(r)
  BY <1>1, FS_Subset
<1>3. Sums(f, S, SumsOf(f, S)) /\ Sums(f, r, SumsOf(f, r))
  BY <1>2, SumsExist
<1>4. \A T \in SUBSET r : SumsOf(f, S)[T] = SumsOf(f, r)[T]
  BY <1>1, <1>2, <1>3, SumsAgree
<1>5. SumsOf(f, S)[S] = f[Pick(S)] + SumsOf(f, S)[r]
  BY <1>1, <1>3, SumsAt
<1>. QED
  BY <1>1, <1>4, <1>5, SumIsFold

\* Integers have an integer sum, natural numbers a natural one.
LEMMA SumType ==
  ASSUME NEW f, NEW S, IsFiniteSet(S), NEW V \in {Int, Nat}, \A x \in S : f[x] \in V
  PROVE  SumFunctionOnSet(f, S) \in V
<1>. DEFINE G == {T \in SUBSET S : SumFunctionOnSet(f, T) \in V}
<1>1. ASSUME NEW T \in SUBSET S, \A U \in SUBSET T : U # T => U \in G
      PROVE  T \in G
  <2>1. CASE T = {}
    BY <2>1, SumEmpty
  <2>2. CASE T # {}
    <3>1. Pick(T) \in T /\ IsFiniteSet(T)
      BY <2>2, PickIn, FS_Subset
    <3>2. SumFunctionOnSet(f, T \ {Pick(T)}) \in V /\ f[Pick(T)] \in V
      BY <1>1, <3>1
    <3>3. SumFunctionOnSet(f, T) = f[Pick(T)] + SumFunctionOnSet(f, T \ {Pick(T)})
      BY <3>1, <2>2, SumStep
    <3>. QED
      BY <3>2, <3>3
  <2>. QED
    BY <2>1, <2>2
<1>2. \A T \in SUBSET S : T \in G
  <2>. HIDE DEF G
  <2>. QED
    BY <1>1, SubsetInduction
<1>. QED
  BY <1>2

\* Any element may be the last to be added.
LEMMA SumElement ==
  ASSUME NEW f, NEW S, IsFiniteSet(S), \A x \in S : f[x] \in Int, NEW e \in S
  PROVE  SumFunctionOnSet(f, S) = f[e] + SumFunctionOnSet(f, S \ {e})
<1>. DEFINE G == {T \in SUBSET S :
               \A x \in T : SumFunctionOnSet(f, T) = f[x] + SumFunctionOnSet(f, T \ {x})}
<1>1. ASSUME NEW T \in SUBSET S, \A U \in SUBSET T : U # T => U \in G
      PROVE  T \in G
  <2>1. ASSUME NEW x \in T
        PROVE  SumFunctionOnSet(f, T) = f[x] + SumFunctionOnSet(f, T \ {x})
    <3>. DEFINE p == Pick(T)
                R == T \ {x, p}
    <3>1. p \in T /\ IsFiniteSet(T)
      BY <2>1, PickIn, FS_Subset
    <3>2. SumFunctionOnSet(f, T) = f[p] + SumFunctionOnSet(f, T \ {p})
      BY <2>1, <3>1, SumStep
    <3>3. CASE x = p
      BY <3>2, <3>3
    <3>4. CASE x # p
      <4>1. (T \ {p}) \ {x} = R /\ (T \ {x}) \ {p} = R /\ x \in T \ {p} /\ p \in T \ {x}
        BY <3>1, <3>4
      <4>2. SumFunctionOnSet(f, T \ {p}) = f[x] + SumFunctionOnSet(f, R)
        BY <1>1, <3>1, <4>1
      <4>3. SumFunctionOnSet(f, T \ {x}) = f[p] + SumFunctionOnSet(f, R)
        BY <1>1, <4>1
      <4>4. IsFiniteSet(R)
        BY <3>1, FS_Subset
      <4>5. SumFunctionOnSet(f, R) \in Int /\ f[p] \in Int /\ f[x] \in Int
        BY <3>1, <4>4, SumType
      <4>. QED
        BY <4>2, <4>3, <4>5, <3>2
    <3>. QED
      BY <3>3, <3>4
  <2>. QED
    BY <2>1
<1>2. \A T \in SUBSET S : T \in G
  <2>. HIDE DEF G
  <2>. QED
    BY <1>1, SubsetInduction
<1>. QED
  BY <1>2

\* An element more.
LEMMA SumAdd ==
  ASSUME NEW f, NEW S, IsFiniteSet(S), NEW e, e \notin S,
         \A x \in S \cup {e} : f[x] \in Int
  PROVE  SumFunctionOnSet(f, S \cup {e}) = f[e] + SumFunctionOnSet(f, S)
<1>1. IsFiniteSet(S \cup {e}) /\ (S \cup {e}) \ {e} = S
  BY FS_AddElement
<1>. QED
  BY <1>1, SumElement

\* One value is its own sum.
LEMMA SumOne ==
  ASSUME NEW f, NEW e, f[e] \in Int
  PROVE  SumFunctionOnSet(f, {e}) = f[e]
<1>1. IsFiniteSet({}) /\ e \notin {} /\ {} \cup {e} = {e}
  BY FS_EmptySet
<1>2. SumFunctionOnSet(f, {e}) = f[e] + SumFunctionOnSet(f, {})
  BY <1>1, SumAdd
<1>. QED
  BY <1>2, SumEmpty

\* The sum depends on the values in the set alone.
LEMMA SumSame ==
  ASSUME NEW f, NEW g, NEW S, IsFiniteSet(S), \A x \in S : f[x] = g[x]
  PROVE  SumFunctionOnSet(f, S) = SumFunctionOnSet(g, S)
<1>. DEFINE G == {T \in SUBSET S : SumFunctionOnSet(f, T) = SumFunctionOnSet(g, T)}
<1>1. ASSUME NEW T \in SUBSET S, \A U \in SUBSET T : U # T => U \in G
      PROVE  T \in G
  <2>1. CASE T = {}
    BY <2>1, SumEmpty
  <2>2. CASE T # {}
    <3>1. Pick(T) \in T /\ IsFiniteSet(T)
      BY <2>2, PickIn, FS_Subset
    <3>2. SumFunctionOnSet(f, T \ {Pick(T)}) = SumFunctionOnSet(g, T \ {Pick(T)})
      BY <1>1, <3>1
    <3>3. /\ SumFunctionOnSet(f, T) = f[Pick(T)] + SumFunctionOnSet(f, T \ {Pick(T)})
          /\ SumFunctionOnSet(g, T) = g[Pick(T)] + SumFunctionOnSet(g, T \ {Pick(T)})
      BY <3>1, <2>2, SumStep
    <3>. QED
      BY <3>1, <3>2, <3>3
  <2>. QED
    BY <2>1, <2>2
<1>2. \A T \in SUBSET S : T \in G
  <2>. HIDE DEF G
  <2>. QED
    BY <1>1, SubsetInduction
<1>. QED
  BY <1>2

\* The values of one function are the sums of those of two others.
LEMMA SumPlus ==
  ASSUME NEW f, NEW g, NEW h, NEW S, IsFiniteSet(S),
         \A x \in S : f[x] \in Int /\ g[x] \in Int /\ h[x] = f[x] + g[x]
  PROVE  SumFunctionOnSet(h, S) = SumFunctionOnSet(f, S) + SumFunctionOnSet(g, S)
<1>. DEFINE G == {T \in SUBSET S :
               SumFunctionOnSet(h, T) = SumFunctionOnSet(f, T) + SumFunctionOnSet(g, T)}
<1>1. ASSUME NEW T \in SUBSET S, \A U \in SUBSET T : U # T => U \in G
      PROVE  T \in G
  <2>1. CASE T = {}
    BY <2>1, SumEmpty
  <2>2. CASE T # {}
    <3>. DEFINE p == Pick(T)
                R == T \ {p}
    <3>1. p \in T /\ IsFiniteSet(T) /\ IsFiniteSet(R)
      BY <2>2, PickIn, FS_Subset
    <3>2. SumFunctionOnSet(h, R) = SumFunctionOnSet(f, R) + SumFunctionOnSet(g, R)
      BY <1>1, <3>1
    <3>3. /\ SumFunctionOnSet(f, T) = f[p] + SumFunctionOnSet(f, R)
          /\ SumFunctionOnSet(g, T) = g[p] + SumFunctionOnSet(g, R)
          /\ SumFunctionOnSet(h, T) = h[p] + SumFunctionOnSet(h, R)
      BY <3>1, <2>2, SumStep
    <3>4. SumFunctionOnSet(f, R) \in Int /\ SumFunctionOnSet(g, R) \in Int
      BY <3>1, SumType
    <3>5. f[p] \in Int /\ g[p] \in Int /\ h[p] = f[p] + g[p]
      BY <3>1
    <3>. HIDE DEF p, R
    <3>6. SumFunctionOnSet(h, T) = SumFunctionOnSet(f, T) + SumFunctionOnSet(g, T)
      BY <3>2, <3>3, <3>4, <3>5
    <3>. QED
      BY <3>6
  <2>. QED
    BY <2>1, <2>2
<1>2. \A T \in SUBSET S : T \in G
  <2>. HIDE DEF G
  <2>. QED
    BY <1>1, SubsetInduction
<1>. QED
  BY <1>2

\* Elements whose value is zero may be left out.
LEMMA SumWithoutZeros ==
  ASSUME NEW f, NEW S, IsFiniteSet(S), NEW R \in SUBSET S,
         \A x \in R : f[x] \in Int, \A x \in S \ R : f[x] = 0
  PROVE  SumFunctionOnSet(f, S) = SumFunctionOnSet(f, R)
<1>. DEFINE G == {T \in SUBSET S : SumFunctionOnSet(f, T) = SumFunctionOnSet(f, T \cap R)}
<1>1. ASSUME NEW T \in SUBSET S, \A U \in SUBSET T : U # T => U \in G
      PROVE  T \in G
  <2>1. IsFiniteSet(T) /\ \A x \in T : f[x] \in Int
    BY FS_Subset
  <2>2. CASE T \subseteq R
    <3>1. T \cap R = T
      BY <2>2
    <3>. QED
      BY <3>1
  <2>3. CASE ~(T \subseteq R)
    <3>1. PICK e \in T : e \notin R
      BY <2>3
    <3>2. SumFunctionOnSet(f, T) = f[e] + SumFunctionOnSet(f, T \ {e})
      BY <2>1, SumElement
    <3>3. (T \ {e}) \cap R = T \cap R /\ T \ {e} \in G
      BY <1>1, <3>1
    <3>4. IsFiniteSet(T \ {e})
      BY <2>1, FS_Subset
    <3>5. SumFunctionOnSet(f, T \ {e}) \in Int
      BY <2>1, <3>4, SumType
    <3>6. SumFunctionOnSet(f, T \ {e}) = SumFunctionOnSet(f, T \cap R)
      BY <3>3
    <3>7. f[e] = 0
      BY <3>1
    <3>8. SumFunctionOnSet(f, T) = SumFunctionOnSet(f, T \cap R)
      BY <3>2, <3>5, <3>6, <3>7
    <3>. QED
      BY <3>8
  <2>. QED
    BY <2>2, <2>3
<1>2. \A T \in SUBSET S : T \in G
  <2>. HIDE DEF G
  <2>. QED
    BY <1>1, SubsetInduction
<1>3. S \cap R = R
  OBVIOUS
<1>. QED
  BY <1>2, <1>3

\* A part of natural numbers comes to no more than the whole.
LEMMA SumOfPart ==
  ASSUME NEW f, NEW S, IsFiniteSet(S), NEW R \in SUBSET S, \A x \in S : f[x] \in Nat
  PROVE  SumFunctionOnSet(f, R) <= SumFunctionOnSet(f, S)
<1>. DEFINE part == [x \in S |-> IF x \in R THEN f[x] ELSE 0]
            rest == [x \in S |-> IF x \in R THEN 0 ELSE f[x]]
<1>1. IsFiniteSet(R)
  BY FS_Subset
<1>2. SumFunctionOnSet(f, S) = SumFunctionOnSet(part, S) + SumFunctionOnSet(rest, S)
  <2>1. \A x \in S : part[x] \in Int /\ rest[x] \in Int /\ f[x] = part[x] + rest[x]
    OBVIOUS
  <2>. HIDE DEF part, rest
  <2>. QED
    BY <2>1, SumPlus
<1>3. SumFunctionOnSet(part, S) = SumFunctionOnSet(part, R)
  <2>1. (\A x \in R : part[x] \in Int) /\ \A x \in S \ R : part[x] = 0
    OBVIOUS
  <2>. HIDE DEF part, rest
  <2>. QED
    BY <2>1, SumWithoutZeros
<1>4. SumFunctionOnSet(part, R) = SumFunctionOnSet(f, R)
  <2>1. \A x \in R : part[x] = f[x]
    OBVIOUS
  <2>. HIDE DEF part, rest
  <2>. QED
    BY <1>1, <2>1, SumSame
<1>5. SumFunctionOnSet(rest, S) \in Nat
  <2>1. \A x \in S : rest[x] \in Nat
    OBVIOUS
  <2>. HIDE DEF part, rest
  <2>. QED
    BY <2>1, SumType
<1>6. SumFunctionOnSet(f, R) \in Nat
  BY <1>1, SumType
<1>. QED
  BY <1>2, <1>3, <1>4, <1>5, <1>6

\* Opposite values have the opposite sum.
LEMMA SumOpposite ==
  ASSUME NEW f, NEW g, NEW S, IsFiniteSet(S), \A x \in S : f[x] \in Int /\ g[x] = - f[x]
  PROVE  SumFunctionOnSet(g, S) = - SumFunctionOnSet(f, S)
<1>1. PICK h : h = [x \in S |-> 0]
  OBVIOUS
<1>2. \A x \in S : f[x] \in Int /\ g[x] \in Int /\ h[x] = f[x] + g[x]
  BY <1>1
<1>3. SumFunctionOnSet(h, S) = SumFunctionOnSet(f, S) + SumFunctionOnSet(g, S)
  BY <1>2, SumPlus
<1>4. SumFunctionOnSet(h, S) = 0
  <2>1. /\ {} \in SUBSET S
        /\ \A x \in {} : h[x] \in Int
        /\ \A x \in S \ {} : h[x] = 0
    BY <1>1
  <2>. QED
    BY <2>1, SumWithoutZeros, SumEmpty
<1>5. SumFunctionOnSet(f, S) \in Int /\ SumFunctionOnSet(g, S) \in Int
  BY <1>2, SumType
<1>. QED
  BY <1>3, <1>4, <1>5

\* Values may be summed under other names.
LEMMA SumRenamed ==
  ASSUME NEW f, NEW g, NEW b, NEW S, IsFiniteSet(S),
         \A x \in S : f[x] \in Int /\ g[b[x]] = f[x],
         \A x, y \in S : b[x] = b[y] => x = y
  PROVE  /\ IsFiniteSet({b[x] : x \in S})
         /\ SumFunctionOnSet(g, {b[x] : x \in S}) = SumFunctionOnSet(f, S)
<1>. DEFINE image(T) == {b[x] : x \in T}
            G == {T \in SUBSET S : /\ IsFiniteSet(image(T))
                                   /\ SumFunctionOnSet(g, image(T)) = SumFunctionOnSet(f, T)}
<1>1. ASSUME NEW T \in SUBSET S, \A U \in SUBSET T : U # T => U \in G
      PROVE  T \in G
  <2>1. CASE T = {}
    <3>1. image(T) = {}
      BY <2>1
    <3>. QED
      BY <2>1, <3>1, SumEmpty, FS_EmptySet
  <2>2. CASE T # {}
    <3>1. PICK e \in T : TRUE
      BY <2>2
    <3>2. T \ {e} \in G
      BY <1>1, <3>1
    <3>3. PICK R : R = image(T \ {e})
      OBVIOUS
    <3>4. image(T) = R \cup {b[e]} /\ b[e] \notin R
      BY <3>1, <3>3
    <3>5. IsFiniteSet(R) /\ SumFunctionOnSet(g, R) = SumFunctionOnSet(f, T \ {e})
      BY <3>2, <3>3
    <3>6. SumFunctionOnSet(f, T) = f[e] + SumFunctionOnSet(f, T \ {e})
      <4>1. IsFiniteSet(T)
        BY FS_Subset
      <4>. QED
        BY <3>1, <4>1, SumElement
    <3>7. g[b[e]] = f[e] /\ \A y \in R \cup {b[e]} : g[y] \in Int
      BY <3>1, <3>3
    <3>8. SumFunctionOnSet(g, R \cup {b[e]}) = g[b[e]] + SumFunctionOnSet(g, R)
      BY <3>4, <3>5, <3>7, SumAdd
    <3>9. IsFiniteSet(R \cup {b[e]})
      BY <3>5, FS_AddElement
    <3>. QED
      BY <3>4, <3>5, <3>6, <3>7, <3>8, <3>9
  <2>. QED
    BY <2>1, <2>2
<1>2. \A T \in SUBSET S : T \in G
  <2>. HIDE DEF G
  <2>. QED
    BY <1>1, SubsetInduction
<1>. QED
  BY <1>2
=============================================================================
