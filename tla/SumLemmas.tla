------------------------------ MODULE SumLemmas ------------------------------
(***************************************************************************)
(* Sums over finite sets of rows: what the totals, balances and open       *)
(* quantities of the models (SumFunction of the module Functions) do when  *)
(* rows are inserted, saved or leave the set that is summed.               *)
(*                                                                         *)
(* SumFunction is a fold, a recursive function on the subsets of the       *)
(* indices.  The induction the lemmas need is the one over the subsets of  *)
(* a finite set, in the form without a predicate: a non-empty set of       *)
(* counterexamples would have a minimal element (MinimalSubset).           *)
(***************************************************************************)
EXTENDS Functions, FiniteSetTheorems, TLAPS

\* The index a fold takes out next, the equation of the fold, and the table
\* of the sums over every subset of S.
AnyOf(s) == CHOOSE x \in s : TRUE
SumStep(g, h, s) == IF s = {} THEN 0 ELSE g[AnyOf(s)] + h[s \ {AnyOf(s)}]
IsSumTable(g, h, S) == h = [s \in SUBSET S |-> SumStep(g, h, s)]

\* What a fold takes out of a set is in it.
LEMMA AnyOfIsIn == ASSUME NEW s, s # {} PROVE AnyOf(s) \in s
BY DEF AnyOf

\* A sum is the value, at the whole set, of a table over its subsets.
LEMMA SumIter == ASSUME NEW g, NEW S
  PROVE SumFunctionOnSet(g, S) = (CHOOSE h : IsSumTable(g, h, S))[S]
BY DEF SumFunctionOnSet, FoldFunctionOnSet, MapThenFoldSet, IsSumTable, SumStep, AnyOf

\* Induction: a set of subsets of a finite set has a minimal element.  The proofs
\* below take a smallest set for which the statement fails.
LEMMA MinimalSubset == ASSUME NEW S, IsFiniteSet(S), NEW B \in SUBSET (SUBSET S), B # {}
   PROVE \E T \in B : \A U \in B : ~ (U \subseteq T /\ U # T)
<1>1. IsWellFoundedOn(StrictSubsetOrdering(S), FiniteSubsetsOf(S))
   BY FS_StrictSubsetOrderingWellFounded
<1>2. B \subseteq FiniteSubsetsOf(S)
   BY FS_Subset DEF FiniteSubsetsOf
<1>3. PICK T \in B : \A U \in B : ~ (<<U, T>> \in StrictSubsetOrdering(S))
   BY <1>1, <1>2, WFMin
<1> QED BY <1>3 DEF StrictSubsetOrdering

\* Two tables of sums agree where both are defined.
LEMMA SumUnique ==
  ASSUME NEW g, NEW S, NEW T, NEW h, NEW k, IsSumTable(g, h, S), IsSumTable(g, k, T),
         NEW U, U \subseteq S, U \subseteq T, IsFiniteSet(U)
  PROVE h[U] = k[U]
<1> SUFFICES ASSUME h[U] # k[U] PROVE FALSE
   OBVIOUS
<1> DEFINE B == {V \in SUBSET U : h[V] # k[V]}
<1>1. B # {} /\ B \in SUBSET (SUBSET U)
   OBVIOUS
<1>2. PICK V \in B : \A W \in B : ~ (W \subseteq V /\ W # V)
  <2> HIDE DEF B
  <2> QED BY <1>1, MinimalSubset
<1>3. h[V] = SumStep(g, h, V) /\ k[V] = SumStep(g, k, V)
   BY DEF IsSumTable
<1>4. CASE V = {}
   BY <1>3, <1>4 DEF SumStep
<1>5. CASE V # {}
  <2>1. AnyOf(V) \in V
     BY <1>5, AnyOfIsIn
  <2>2. V \ {AnyOf(V)} \notin B
     BY <2>1, <1>2
  <2>3. h[V \ {AnyOf(V)}] = k[V \ {AnyOf(V)}]
     BY <2>2
  <2> QED BY <2>3, <1>3, <1>5 DEF SumStep
<1> QED BY <1>4, <1>5

\* A finite set has a table of sums.
LEMMA SumExists ==
  ASSUME NEW g, NEW S, IsFiniteSet(S)
  PROVE  \E h : IsSumTable(g, h, S)
<1> SUFFICES ASSUME ~ \E h : IsSumTable(g, h, S) PROVE FALSE
   OBVIOUS
<1> DEFINE B == {U \in SUBSET S : ~ \E h : IsSumTable(g, h, U)}
           H(U) == CHOOSE h : IsSumTable(g, h, U)
<1>1. B # {} /\ B \in SUBSET (SUBSET S)
   OBVIOUS
<1>2. PICK T \in B : \A W \in B : ~ (W \subseteq T /\ W # T)
  <2> HIDE DEF B
  <2> QED BY <1>1, MinimalSubset
<1>3. \A U : U \subseteq T /\ U # T => IsSumTable(g, H(U), U)
  <2> SUFFICES ASSUME NEW U, U \subseteq T, U # T PROVE IsSumTable(g, H(U), U)
     OBVIOUS
  <2>1. U \in SUBSET S
     OBVIOUS
  <2>2. \E h : IsSumTable(g, h, U)
     BY <2>1, <1>2
  <2> QED BY <2>2
<1>4. \A U : U \subseteq T => IsFiniteSet(U)
   BY FS_Subset
<1> HIDE DEF H
<1> DEFINE F == [s \in SUBSET T |-> IF s # T THEN H(s)[s] ELSE
                   IF s = {} THEN 0 ELSE g[AnyOf(s)] + H(s \ {AnyOf(s)})[s \ {AnyOf(s)}]]
<1>5. ASSUME NEW s \in SUBSET T PROVE F[s] = SumStep(g, F, s)
  <2>1. CASE s = {}
    <3>1. CASE s = T
       BY <3>1, <2>1 DEF SumStep
    <3>2. CASE s # T
      <4>1. IsSumTable(g, H(s), s)
         BY <1>3, <3>2
      <4>2. H(s)[s] = SumStep(g, H(s), s)
         BY <4>1 DEF IsSumTable
      <4> QED BY <4>2, <3>2, <2>1 DEF SumStep
    <3> QED BY <3>1, <3>2
  <2>2. CASE s # {}
    <3> DEFINE c == AnyOf(s)
               r == s \ {c}
    <3>1. c \in s
       BY <2>2, AnyOfIsIn
    <3>2. r \in SUBSET T /\ r # T /\ r \in SUBSET s
       BY <3>1
    <3>3. F[r] = H(r)[r]
       BY <3>2
    <3>4. CASE s = T
       BY <3>3, <3>4, <2>2 DEF SumStep
    <3>5. CASE s # T
      <4>1. IsSumTable(g, H(s), s) /\ IsSumTable(g, H(r), r)
         BY <1>3, <3>5, <3>2
      <4>2. H(s)[s] = g[c] + H(s)[r]
        <5>1. H(s)[s] = SumStep(g, H(s), s)
           BY <4>1 DEF IsSumTable
        <5> QED BY <5>1, <2>2 DEF SumStep
      <4>3. H(s)[r] = H(r)[r]
         BY <4>1, <3>2, <1>4, SumUnique
      <4>4. F[s] = H(s)[s]
         BY <3>5
      <4> QED BY <4>2, <4>3, <4>4, <3>3, <2>2 DEF SumStep
    <3> QED BY <3>4, <3>5
  <2> QED BY <2>1, <2>2
<1>6. F = [s \in SUBSET T |-> SumStep(g, F, s)]
  <2> HIDE DEF F
  <2>1. DOMAIN F = SUBSET T /\ F = [s \in DOMAIN F |-> F[s]]
     BY DEF F
  <2> QED BY <2>1, <1>5
<1>7. IsSumTable(g, F, T)
   BY <1>6 DEF IsSumTable
<1> QED BY <1>7, <1>2

\* The equation of a sum over a finite set.
LEMMA SumUnfold ==
  ASSUME NEW g, NEW S, IsFiniteSet(S)
  PROVE  SumFunctionOnSet(g, S) = IF S = {} THEN 0
               ELSE g[AnyOf(S)] + SumFunctionOnSet(g, S \ {AnyOf(S)})
<1> DEFINE H(U) == CHOOSE h : IsSumTable(g, h, U)
<1>1. ASSUME NEW U \in SUBSET S
      PROVE  /\ IsSumTable(g, H(U), U) /\ IsFiniteSet(U)
             /\ SumFunctionOnSet(g, U) = H(U)[U]
  <2>1. IsFiniteSet(U)
     BY FS_Subset
  <2>2. \E h : IsSumTable(g, h, U)
     BY <2>1, SumExists
  <2> QED BY <2>1, <2>2, SumIter
<1> HIDE DEF H
<1>2. H(S)[S] = SumStep(g, H(S), S)
   BY <1>1 DEF IsSumTable
<1>3. CASE S = {}
   BY <1>1, <1>2, <1>3 DEF SumStep
<1>4. CASE S # {}
  <2> DEFINE r == S \ {AnyOf(S)}
  <2>1. r \in SUBSET S
     OBVIOUS
  <2>2. H(S)[r] = H(r)[r]
     BY <1>1, <2>1, SumUnique
  <2> QED BY <2>2, <2>1, <1>1, <1>2, <1>4 DEF SumStep
<1> QED BY <1>3, <1>4

\* The sum over no index is 0.
LEMMA SumEmpty == ASSUME NEW g PROVE SumFunctionOnSet(g, {}) = 0
BY SumUnfold, FS_EmptySet

\* A sum of integers is an integer.
LEMMA SumInt ==
  ASSUME NEW S, IsFiniteSet(S), NEW g, \A i \in S : g[i] \in Int
  PROVE  SumFunctionOnSet(g, S) \in Int
<1> SUFFICES ASSUME SumFunctionOnSet(g, S) \notin Int PROVE FALSE
   OBVIOUS
<1> DEFINE B == {U \in SUBSET S : SumFunctionOnSet(g, U) \notin Int}
<1>1. B # {} /\ B \in SUBSET (SUBSET S)
   OBVIOUS
<1>2. PICK V \in B : \A W \in B : ~ (W \subseteq V /\ W # V)
  <2> HIDE DEF B
  <2> QED BY <1>1, MinimalSubset
<1>3. IsFiniteSet(V)
   BY FS_Subset
<1>4. V # {}
   BY SumEmpty
<1>5. AnyOf(V) \in V
   BY <1>4, AnyOfIsIn
<1>6. SumFunctionOnSet(g, V \ {AnyOf(V)}) \in Int
   BY <1>2, <1>5
<1> QED BY <1>3, <1>4, <1>5, <1>6, SumUnfold

\* Any index can be taken out first.
LEMMA SumRemove ==
  ASSUME NEW S, IsFiniteSet(S), NEW g, \A i \in S : g[i] \in Int, NEW y \in S
  PROVE  SumFunctionOnSet(g, S) = g[y] + SumFunctionOnSet(g, S \ {y})
<1> DEFINE Bad(U) == \E z \in U : SumFunctionOnSet(g, U) # g[z] + SumFunctionOnSet(g, U \ {z})
           B == {U \in SUBSET S : Bad(U)}
<1> SUFFICES ASSUME Bad(S) PROVE FALSE
   OBVIOUS
<1>1. B # {} /\ B \in SUBSET (SUBSET S)
   OBVIOUS
<1>2. PICK V \in B : \A W \in B : ~ (W \subseteq V /\ W # V)
  <2> HIDE DEF B
  <2> QED BY <1>1, MinimalSubset
<1>3. PICK z \in V : SumFunctionOnSet(g, V) # g[z] + SumFunctionOnSet(g, V \ {z})
   BY <1>2
<1> DEFINE c == AnyOf(V)
<1>4. c \in V
   BY AnyOfIsIn
<1>5. \A U \in SUBSET S : IsFiniteSet(U) /\ SumFunctionOnSet(g, U) \in Int
   BY FS_Subset, SumInt
<1>6. SumFunctionOnSet(g, V) = g[c] + SumFunctionOnSet(g, V \ {c})
   BY <1>5, SumUnfold, <1>4
<1> HIDE DEF c
<1>7. z # c
   BY <1>6, <1>3
<1>8. ~ Bad(V \ {c}) /\ ~ Bad(V \ {z})
  <2>1. V \ {c} \in SUBSET S /\ V \ {c} \subseteq V /\ V \ {c} # V
     BY <1>4
  <2>2. V \ {z} \in SUBSET S /\ V \ {z} \subseteq V /\ V \ {z} # V
     OBVIOUS
  <2> HIDE DEF Bad
  <2> QED BY <2>1, <2>2, <1>2
<1>9. SumFunctionOnSet(g, V \ {c}) = g[z] + SumFunctionOnSet(g, (V \ {c}) \ {z})
   BY <1>8, <1>7, z \in V \ {c}
<1>10. SumFunctionOnSet(g, V \ {z}) = g[c] + SumFunctionOnSet(g, (V \ {z}) \ {c})
   BY <1>8, <1>7, <1>4, c \in V \ {z}
<1>11. (V \ {c}) \ {z} = (V \ {z}) \ {c}
   OBVIOUS
<1>12. SumFunctionOnSet(g, (V \ {c}) \ {z}) \in Int /\ g[z] \in Int /\ g[c] \in Int
   BY <1>5, <1>4
<1> DEFINE w == SumFunctionOnSet(g, (V \ {c}) \ {z})
           a == SumFunctionOnSet(g, V)
           d == SumFunctionOnSet(g, V \ {z})
<1>13. /\ a = g[c] + (g[z] + w) /\ d = g[c] + w /\ a # g[z] + d
       /\ w \in Int /\ g[z] \in Int /\ g[c] \in Int
   BY <1>6, <1>9, <1>10, <1>11, <1>12, <1>3
<1> HIDE DEF w, a, d
<1> QED BY <1>13

\* A sum depends on the summands of its indices only.
LEMMA SumsAgree ==
  ASSUME NEW S, IsFiniteSet(S), NEW g, NEW h, \A i \in S : g[i] = h[i]
  PROVE  SumFunctionOnSet(g, S) = SumFunctionOnSet(h, S)
<1> DEFINE B == {U \in SUBSET S : SumFunctionOnSet(g, U) # SumFunctionOnSet(h, U)}
<1> SUFFICES ASSUME S \in B PROVE FALSE
   OBVIOUS
<1>1. B # {} /\ B \in SUBSET (SUBSET S)
   OBVIOUS
<1>2. PICK V \in B : \A W \in B : ~ (W \subseteq V /\ W # V)
  <2> HIDE DEF B
  <2> QED BY <1>1, MinimalSubset
<1>3. IsFiniteSet(V)
   BY FS_Subset
<1>4. V # {}
   BY SumEmpty
<1>5. AnyOf(V) \in V
   BY <1>4, AnyOfIsIn
<1>6. SumFunctionOnSet(g, V \ {AnyOf(V)}) = SumFunctionOnSet(h, V \ {AnyOf(V)})
   BY <1>2, <1>5
<1> QED BY <1>3, <1>4, <1>5, <1>6, SumUnfold

\* SumFunction is the sum over the whole domain.
LEMMA SumOf ==
  ASSUME NEW S, NEW g \in [S -> Int]
  PROVE  SumFunction(g) = SumFunctionOnSet(g, S)
BY DEF SumFunction

\* A sum of integers is an integer, of a function.
LEMMA SumIsAnInteger ==
  ASSUME NEW S, IsFiniteSet(S), NEW g \in [S -> Int]
  PROVE  SumFunction(g) \in Int
BY SumInt, SumOf

\* A sum with one index apart, whether it is one of the domain or not.
LEMMA SumWithout ==
  ASSUME NEW S, IsFiniteSet(S), NEW g \in [S -> Int], NEW x
  PROVE  SumFunction(g) = SumFunctionOnSet(g, S \ {x}) + (IF x \in S THEN g[x] ELSE 0)
<1>1. SumFunctionOnSet(g, S \ {x}) \in Int
  <2>1. IsFiniteSet(S \ {x})
     BY FS_Subset
  <2> QED BY <2>1, SumInt
<1>2. CASE x \in S
  <2>1. SumFunctionOnSet(g, S) = g[x] + SumFunctionOnSet(g, S \ {x})
     BY <1>2, SumRemove
  <2> QED BY <2>1, <1>1, <1>2, SumOf
<1>3. CASE x \notin S
  <2>1. S \ {x} = S
     BY <1>3
  <2>2. SumFunction(g) = SumFunctionOnSet(g, S \ {x})
     BY <2>1, SumOf
  <2> DEFINE rest == SumFunctionOnSet(g, S \ {x})
  <2>3. rest = rest + 0
    <3>1. rest \in Int
       BY <1>1
    <3> HIDE DEF rest
    <3> QED BY <3>1
  <2> QED BY <2>2, <2>3, <1>3
<1> QED BY <1>2, <1>3

\* The tables g and h differ in the row x at most, which one of them may lack:
\* their sums differ by what the row adds to each.
LEMMA OneRow ==
  ASSUME NEW S, IsFiniteSet(S), NEW g \in [S -> Int],
         NEW T, IsFiniteSet(T), NEW h \in [T -> Int],
         NEW x, S \ {x} = T \ {x}, \A i \in S \ {x} : g[i] = h[i]
  PROVE  SumFunction(h) = SumFunction(g) - (IF x \in S THEN g[x] ELSE 0)
                                         + (IF x \in T THEN h[x] ELSE 0)
<1> DEFINE rest == SumFunctionOnSet(g, S \ {x})
           before == IF x \in S THEN g[x] ELSE 0
           after == IF x \in T THEN h[x] ELSE 0
<1>1. IsFiniteSet(S \ {x})
   BY FS_Subset
<1>2. rest = SumFunctionOnSet(h, T \ {x})
   BY <1>1, SumsAgree
<1>3. rest \in Int /\ before \in Int /\ after \in Int
   BY <1>1, SumInt
<1>4. SumFunction(g) = rest + before
   BY SumWithout
<1>5. SumFunction(h) = rest + after
  <2>1. SumFunction(h) = SumFunctionOnSet(h, T \ {x}) + after
     BY SumWithout
  <2> HIDE DEF rest, after
  <2> QED BY <2>1, <1>2
<1> HIDE DEF rest, before, after
<1>6. SumFunction(h) = SumFunction(g) - before + after
   BY <1>3, <1>4, <1>5
<1> QED BY <1>6 DEF before, after

\* When one row of a table changes, the sum changes by what it weighs.
LEMMA OneWeight ==
  ASSUME NEW S, IsFiniteSet(S), NEW f \in [S -> Int], NEW g \in [S -> Int],
         NEW x \in S, \A i \in S \ {x} : g[i] = f[i]
  PROVE  /\ SumFunction(f) \in Int /\ SumFunction(g) \in Int
         /\ SumFunction(g) = SumFunction(f) - f[x] + g[x]
<1>1. SumFunction(g) = SumFunction(f) - (IF x \in S THEN f[x] ELSE 0)
                                      + (IF x \in S THEN g[x] ELSE 0)
  BY OneRow
<1>2. SumFunction(f) \in Int /\ SumFunction(g) \in Int
  BY SumIsAnInteger
<1>. QED  BY <1>1, <1>2

\* Equal summands, equal sums.
LEMMA SumSame ==
  ASSUME NEW S, IsFiniteSet(S), NEW g \in [S -> Int], NEW h \in [S -> Int],
         \A i \in S : g[i] = h[i]
  PROVE  SumFunction(h) = SumFunction(g)
BY SumOf, SumsAgree

\* The sum of a function without a domain is 0.
LEMMA SumOfNothing ==
  ASSUME NEW g \in [{} -> Int]
  PROVE  SumFunction(g) = 0
BY SumOf, SumEmpty

\* A sum of zeros is 0.
LEMMA SumZeros ==
  ASSUME NEW S, IsFiniteSet(S), NEW g \in [S -> Int], \A i \in S : g[i] = 0
  PROVE  SumFunction(g) = 0
<1> DEFINE B == {U \in SUBSET S : SumFunctionOnSet(g, U) # 0}
<1> SUFFICES ASSUME S \in B PROVE FALSE
   BY SumOf
<1>1. B # {} /\ B \in SUBSET (SUBSET S)
   OBVIOUS
<1>2. PICK V \in B : \A W \in B : ~ (W \subseteq V /\ W # V)
  <2> HIDE DEF B
  <2> QED BY <1>1, MinimalSubset
<1>3. IsFiniteSet(V)
   BY FS_Subset
<1>4. V # {}
   BY SumEmpty
<1>5. AnyOf(V) \in V
   BY <1>4, AnyOfIsIn
<1>6. SumFunctionOnSet(g, V \ {AnyOf(V)}) = 0
   BY <1>2, <1>5
<1> QED BY <1>3, <1>4, <1>5, <1>6, SumUnfold

\* A sum of naturals is a natural.
LEMMA SumNat ==
  ASSUME NEW S, IsFiniteSet(S), NEW g, \A i \in S : g[i] \in Nat
  PROVE  SumFunctionOnSet(g, S) \in Nat
<1> DEFINE B == {U \in SUBSET S : SumFunctionOnSet(g, U) \notin Nat}
<1> SUFFICES ASSUME S \in B PROVE FALSE
   OBVIOUS
<1>1. B # {} /\ B \in SUBSET (SUBSET S)
   OBVIOUS
<1>2. PICK V \in B : \A W \in B : ~ (W \subseteq V /\ W # V)
  <2> HIDE DEF B
  <2> QED BY <1>1, MinimalSubset
<1>3. IsFiniteSet(V)
   BY FS_Subset
<1>4. V # {}
   BY SumEmpty
<1>5. AnyOf(V) \in V
   BY <1>4, AnyOfIsIn
<1>6. SumFunctionOnSet(g, V \ {AnyOf(V)}) \in Nat
   BY <1>2, <1>5
<1> QED BY <1>3, <1>4, <1>5, <1>6, SumUnfold

\* A sum of naturals is no less than any of its summands.
LEMMA SumBounds ==
  ASSUME NEW S, IsFiniteSet(S), NEW g \in [S -> Nat]
  PROVE  SumFunction(g) \in Nat /\ \A x \in S : g[x] <= SumFunction(g)
<1>1. g \in [S -> Int]
   OBVIOUS
<1>2. SumFunction(g) \in Nat
   BY <1>1, SumNat, SumOf
<1>3. ASSUME NEW x \in S PROVE g[x] <= SumFunction(g)
  <2>1. SumFunction(g) = SumFunctionOnSet(g, S \ {x}) + g[x]
     BY <1>1, SumWithout
  <2>2. SumFunctionOnSet(g, S \ {x}) \in Nat
    <3>1. IsFiniteSet(S \ {x})
       BY FS_Subset
    <3> QED BY <3>1, SumNat
  <2> DEFINE rest == SumFunctionOnSet(g, S \ {x})
  <2>3. rest \in Nat /\ g[x] \in Nat /\ SumFunction(g) = rest + g[x]
     BY <2>1, <2>2
  <2> HIDE DEF rest
  <2> QED BY <2>3
<1> QED BY <1>2, <1>3

\* A sum over two indices at most.
LEMMA SumPair ==
  ASSUME NEW a, NEW b, a # b, NEW S \in SUBSET {a, b}, NEW g \in [S -> Int]
  PROVE  SumFunction(g) = (IF a \in S THEN g[a] ELSE 0) + (IF b \in S THEN g[b] ELSE 0)
<1>1. IsFiniteSet({a, b}) /\ IsFiniteSet(S) /\ IsFiniteSet(S \ {a})
  <2>1. IsFiniteSet({a, b})
    <3>1. {a, b} = {a} \cup {b}
       OBVIOUS
    <3>2. IsFiniteSet({a}) /\ IsFiniteSet({b})
       BY FS_Singleton
    <3>3. IsFiniteSet({a} \cup {b})
       BY <3>2, FS_Union, Zenon
    <3> QED BY <3>1, <3>3, Zenon
  <2>2. S \ {a} \in SUBSET {a, b}
     OBVIOUS
  <2> QED BY <2>1, <2>2, FS_Subset
<1>2. SumFunction(g) = SumFunctionOnSet(g, S \ {a}) + (IF a \in S THEN g[a] ELSE 0)
   BY <1>1, SumWithout
<1>3. SumFunctionOnSet(g, S \ {a}) = IF b \in S THEN g[b] ELSE 0
  <2>1. CASE b \in S
    <3>1. SumFunctionOnSet(g, S \ {a}) = g[b] + SumFunctionOnSet(g, (S \ {a}) \ {b})
      <4>1. b \in S \ {a} /\ \A i \in S \ {a} : g[i] \in Int
         BY <2>1
      <4> QED BY <4>1, <1>1, SumRemove
    <3>2. (S \ {a}) \ {b} = {}
       OBVIOUS
    <3>3. g[b] \in Int
       BY <2>1
    <3> QED BY <3>1, <3>2, <3>3, SumEmpty, <2>1
  <2>2. CASE b \notin S
    <3>1. S \ {a} = {}
       BY <2>2
    <3> QED BY <3>1, SumEmpty, <2>2
  <2> QED BY <2>1, <2>2
<1>4. (IF b \in S THEN g[b] ELSE 0) \in Int /\ (IF a \in S THEN g[a] ELSE 0) \in Int
   OBVIOUS
<1> QED BY <1>2, <1>3, <1>4

\* The sum of sums.
LEMMA SumPlus ==
  ASSUME NEW S, IsFiniteSet(S), NEW f, NEW g, NEW h,
         \A i \in S : f[i] \in Int /\ g[i] \in Int /\ h[i] = f[i] + g[i]
  PROVE  SumFunctionOnSet(h, S) = SumFunctionOnSet(f, S) + SumFunctionOnSet(g, S)
<1> DEFINE B == {U \in SUBSET S :
                   SumFunctionOnSet(h, U) # SumFunctionOnSet(f, U) + SumFunctionOnSet(g, U)}
<1> SUFFICES ASSUME S \in B PROVE FALSE
   OBVIOUS
<1>1. B # {} /\ B \in SUBSET (SUBSET S)
   OBVIOUS
<1>2. PICK V \in B : \A W \in B : ~ (W \subseteq V /\ W # V)
  <2> HIDE DEF B
  <2> QED BY <1>1, MinimalSubset
<1>3. IsFiniteSet(V)
   BY FS_Subset
<1>4. V # {}
  <2> SUFFICES ASSUME V = {} PROVE FALSE
     OBVIOUS
  <2> QED BY SumEmpty
<1> DEFINE c == AnyOf(V)
           r == V \ {c}
<1>5. c \in V
   BY <1>4, AnyOfIsIn
<1>6. SumFunctionOnSet(h, r) = SumFunctionOnSet(f, r) + SumFunctionOnSet(g, r)
   BY <1>2, <1>5
<1>7. IsFiniteSet(r) /\ r \subseteq S
   BY <1>3, FS_Subset
<1>8. SumFunctionOnSet(f, r) \in Int /\ SumFunctionOnSet(g, r) \in Int
   BY <1>7, SumInt
<1>9. /\ SumFunctionOnSet(h, V) = h[c] + SumFunctionOnSet(h, r)
      /\ SumFunctionOnSet(f, V) = f[c] + SumFunctionOnSet(f, r)
      /\ SumFunctionOnSet(g, V) = g[c] + SumFunctionOnSet(g, r)
   BY <1>3, <1>4, SumUnfold
<1>10. SumFunctionOnSet(h, V) # SumFunctionOnSet(f, V) + SumFunctionOnSet(g, V)
   OBVIOUS
<1>11. f[c] \in Int /\ g[c] \in Int /\ h[c] = f[c] + g[c]
   BY <1>5
<1> DEFINE p == SumFunctionOnSet(f, r)
           q == SumFunctionOnSet(g, r)
<1>12. /\ SumFunctionOnSet(h, V) = (f[c] + g[c]) + (p + q)
       /\ SumFunctionOnSet(f, V) = f[c] + p
       /\ SumFunctionOnSet(g, V) = g[c] + q
   BY <1>6, <1>9, <1>11
<1>13. p \in Int /\ q \in Int
   BY <1>8
<1> HIDE DEF c, r, p, q
<1> QED BY <1>10, <1>11, <1>12, <1>13

\* A sum splits along a subset of its indices.
LEMMA SumParts ==
  ASSUME NEW S, IsFiniteSet(S), NEW g \in [S -> Int], NEW T \in SUBSET S
  PROVE  /\ IsFiniteSet(T) /\ IsFiniteSet(S \ T)
         /\ SumFunctionOnSet(g, T) \in Int /\ SumFunctionOnSet(g, S \ T) \in Int
         /\ SumFunction(g) = SumFunctionOnSet(g, S \ T) + SumFunctionOnSet(g, T)
<1>1. \A U \in SUBSET S : IsFiniteSet(U) /\ SumFunctionOnSet(g, U) \in Int
   BY FS_Subset, SumInt
<1> DEFINE B == {U \in SUBSET S :
                   SumFunctionOnSet(g, S) # SumFunctionOnSet(g, S \ U) + SumFunctionOnSet(g, U)}
<1>2. B = {}
  <2> SUFFICES ASSUME B # {} PROVE FALSE
     OBVIOUS
  <2>1. B \in SUBSET (SUBSET S)
     OBVIOUS
  <2>2. PICK V \in B : \A W \in B : ~ (W \subseteq V /\ W # V)
    <3> HIDE DEF B
    <3> QED BY <2>1, MinimalSubset
  <2>3. V # {}
    <3> SUFFICES ASSUME V = {} PROVE FALSE
       OBVIOUS
    <3>1. S \ V = S /\ SumFunctionOnSet(g, V) = 0
       BY SumEmpty
    <3> QED BY <3>1, <1>1
  <2> DEFINE c == AnyOf(V)
             r == V \ {c}
             rest == S \ V
  <2>4. c \in V /\ c \in S
     BY <2>3, AnyOfIsIn
  <2>5. SumFunctionOnSet(g, S) = SumFunctionOnSet(g, S \ r) + SumFunctionOnSet(g, r)
     BY <2>2, <2>4
  <2>6. SumFunctionOnSet(g, V) = g[c] + SumFunctionOnSet(g, r)
     BY <2>3, <1>1, SumUnfold
  <2>7. SumFunctionOnSet(g, S \ r) = g[c] + SumFunctionOnSet(g, rest)
    <3>1. c \in S \ r /\ (S \ r) \ {c} = rest
       BY <2>4
    <3>2. IsFiniteSet(S \ r) /\ \A i \in S \ r : g[i] \in Int
       BY <1>1
    <3> HIDE DEF c, r, rest
    <3> QED BY <3>1, <3>2, SumRemove
  <2> DEFINE p == SumFunctionOnSet(g, r)
             q == SumFunctionOnSet(g, rest)
  <2>8. p \in Int /\ q \in Int /\ g[c] \in Int
     BY <1>1, <2>4
  <2>9. /\ SumFunctionOnSet(g, S) # q + SumFunctionOnSet(g, V)
        /\ SumFunctionOnSet(g, S) = (g[c] + q) + p
        /\ SumFunctionOnSet(g, V) = g[c] + p
     BY <2>2, <2>5, <2>6, <2>7
  <2> HIDE DEF c, r, rest, p, q
  <2> QED BY <2>8, <2>9
<1> QED BY <1>1, <1>2, SumOf

\* A part of the indices adds up to no more than all of them, of naturals.
LEMMA SumPart ==
  ASSUME NEW S, IsFiniteSet(S), NEW g \in [S -> Nat], NEW T \in SUBSET S
  PROVE  SumFunction([i \in T |-> g[i]]) <= SumFunction(g)
<1>1. g \in [S -> Int] /\ [i \in T |-> g[i]] \in [T -> Int]
   OBVIOUS
<1>2. /\ IsFiniteSet(T) /\ IsFiniteSet(S \ T)
      /\ SumFunction(g) = SumFunctionOnSet(g, S \ T) + SumFunctionOnSet(g, T)
   BY <1>1, SumParts
<1>3. SumFunctionOnSet(g, T) \in Nat /\ SumFunctionOnSet(g, S \ T) \in Nat
   BY <1>2, SumNat
<1>4. SumFunction([i \in T |-> g[i]]) = SumFunctionOnSet(g, T)
   BY <1>1, <1>2, SumOf, SumsAgree
<1> DEFINE p == SumFunctionOnSet(g, T)
           q == SumFunctionOnSet(g, S \ T)
<1>5. p \in Nat /\ q \in Nat /\ SumFunction(g) = q + p /\ SumFunction([i \in T |-> g[i]]) = p
   BY <1>2, <1>3, <1>4
<1> HIDE DEF p, q
<1> QED BY <1>5

\* The sum of two tables, row by row.
LEMMA SumTogether ==
  ASSUME NEW S, IsFiniteSet(S), NEW f \in [S -> Int], NEW g \in [S -> Int],
         NEW h \in [S -> Int], \A i \in S : h[i] = f[i] + g[i]
  PROVE  SumFunction(h) = SumFunction(f) + SumFunction(g)
<1>1. SumFunctionOnSet(h, S) = SumFunctionOnSet(f, S) + SumFunctionOnSet(g, S)
   BY SumPlus
<1> QED BY <1>1, SumOf

\* Greater rows, a greater sum.
LEMMA SumMonotone ==
  ASSUME NEW S, IsFiniteSet(S), NEW f \in [S -> Int], NEW g \in [S -> Int],
         \A i \in S : f[i] <= g[i]
  PROVE  SumFunction(f) <= SumFunction(g)
<1> DEFINE d == [i \in S |-> g[i] - f[i]]
<1>1. /\ d \in [S -> Nat] /\ d \in [S -> Int]
      /\ \A i \in S : g[i] = f[i] + d[i]
   OBVIOUS
<1> HIDE DEF d
<1>2. SumFunction(g) = SumFunction(f) + SumFunction(d)
   BY <1>1, SumTogether
<1>3. SumFunction(d) \in Nat /\ SumFunction(f) \in Int
   BY <1>1, SumBounds, SumIsAnInteger
<1> QED BY <1>2, <1>3

\* Rows that are 0 need not be in the sum.
LEMMA SumNonZeros ==
  ASSUME NEW S, IsFiniteSet(S), NEW g \in [S -> Int], NEW T \in SUBSET S,
         \A i \in S \ T : g[i] = 0, NEW h \in [T -> Int], \A i \in T : h[i] = g[i]
  PROVE  SumFunction(h) = SumFunction(g)
<1> DEFINE rest == S \ T
           zeros == [i \in rest |-> 0]
<1>1. /\ IsFiniteSet(T) /\ IsFiniteSet(rest)
      /\ SumFunctionOnSet(g, T) \in Int
      /\ SumFunction(g) = SumFunctionOnSet(g, rest) + SumFunctionOnSet(g, T)
   BY SumParts
<1>2. SumFunction(h) = SumFunctionOnSet(g, T)
   BY <1>1, SumOf, SumsAgree
<1>3. SumFunctionOnSet(g, rest) = 0
  <2>1. zeros \in [rest -> Int] /\ \A i \in rest : zeros[i] = 0 /\ g[i] = zeros[i]
     OBVIOUS
  <2> HIDE DEF zeros, rest
  <2>2. SumFunctionOnSet(g, rest) = SumFunctionOnSet(zeros, rest)
     BY <1>1, <2>1, SumsAgree
  <2>3. SumFunction(zeros) = SumFunctionOnSet(zeros, rest) /\ SumFunction(zeros) = 0
     BY <1>1, <2>1, SumOf, SumZeros
  <2> QED BY <2>2, <2>3
<1> QED BY <1>1, <1>2, <1>3
==============================================================================
