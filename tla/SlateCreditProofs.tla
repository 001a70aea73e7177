-------------------------- MODULE SlateCreditProofs -------------------------
(***************************************************************************)
(* The safety properties of SlateCredit, for every group size, grading,    *)
(* shrinkage and clip.                                                     *)
(*                                                                         *)
(* The credit is made of sums over a group, so the first half is a theory  *)
(* of SumFunctionOnSet: the recursive function behind it exists, and its   *)
(* value does not depend on the order in which the members of the set are  *)
(* chosen.  Inductions are on the members of a set of counterexamples,     *)
(* since a theorem over an operator cannot be instantiated.  The second    *)
(* half is the invariant CreditInv, which says what each term of the       *)
(* credit is in terms of the group, and the algebra of those terms.        *)
(***************************************************************************)
EXTENDS SlateCredit, FiniteSetTheorems, WellFoundedInduction, TLAPS

-----------------------------------------------------------------------------
(* Induction on finite sets.                                               *)

\* Any set of naturals has a least element.
LEMMA LeastNat ==
  ASSUME NEW A, A \subseteq Nat, A # {}
  PROVE  \E n \in A : \A m \in A : n <= m
<1> DEFINE R == OpToRel(<, Nat)
<1>1. PICK n \in A : \A m \in A : ~(<<m, n>> \in R)
  <2>1. IsWellFoundedOn(R, Nat)
    BY NatLessThanWellFounded
  <2> HIDE DEF R
  <2> QED BY <2>1, WFMin
<1>2. ASSUME NEW m \in A, m < n PROVE <<m, n>> \in R
  BY <1>2 DEF OpToRel
<1>3. \A m \in A : ~(m < n)
  <2> HIDE DEF R
  <2> QED BY <1>1, <1>2
<1>4. n \in Nat /\ \A m \in A : m \in Nat
  OBVIOUS
<1> QED BY <1>3, <1>4

\* A property that fails of a subset of a finite set fails of one to whose
\* smaller parts it applies.
LEMMA SmallestSet ==
  ASSUME NEW S, IsFiniteSet(S), NEW Bad, Bad \subseteq SUBSET S, Bad # {}
  PROVE  \E T \in Bad : IsFiniteSet(T) /\ \A x \in T : T \ {x} \notin Bad
<1> DEFINE Sizes == {Cardinality(T) : T \in Bad}
<1>1. \A T \in Bad : IsFiniteSet(T) /\ Cardinality(T) \in Nat
  BY FS_Subset, FS_CardinalityType
<1>2. PICK n \in Sizes : \A m \in Sizes : n <= m
  <2>1. Sizes \subseteq Nat /\ Sizes # {}
    BY <1>1
  <2> HIDE DEF Sizes
  <2> QED BY <2>1, LeastNat
<1>3. PICK T \in Bad : n = Cardinality(T)
  BY <1>2
<1>4. ASSUME NEW x \in T, T \ {x} \in Bad PROVE FALSE
  <2>1. Cardinality(T \ {x}) = Cardinality(T) - 1
    BY <1>1, FS_RemoveElement
  <2>2. Cardinality(T) <= Cardinality(T \ {x})
    BY <1>2, <1>3, <1>4
  <2> QED BY <1>1, <2>1, <2>2
<1> QED BY <1>1, <1>3, <1>4

\* Induction on a finite set.
LEMMA SetInduction ==
  ASSUME NEW S, IsFiniteSet(S), NEW Good, {} \in Good,
         \A T \in SUBSET S : \A x \in S \ T :
             IsFiniteSet(T) /\ T \in Good => T \cup {x} \in Good
  PROVE  S \in Good
<1> DEFINE Bad == {T \in SUBSET S : T \notin Good}
<1>1. SUFFICES ASSUME S \notin Good PROVE FALSE
  OBVIOUS
<1>2. PICK T \in Bad : IsFiniteSet(T) /\ \A x \in T : T \ {x} \notin Bad
  <2>1. Bad \subseteq SUBSET S /\ Bad # {}
    BY <1>1
  <2> HIDE DEF Bad
  <2> QED BY <2>1, SmallestSet
<1>3. PICK x \in T : TRUE
  BY <1>2
<1>4. IsFiniteSet(T \ {x}) /\ T \ {x} \in Good /\ T \ {x} \in SUBSET S
  BY <1>2, <1>3, FS_RemoveElement
<1>5. (T \ {x}) \cup {x} = T /\ x \in S \ (T \ {x})
  BY <1>3
<1> QED BY <1>4, <1>5

-----------------------------------------------------------------------------
(* Sums.                                                                   *)

Chosen(S) == CHOOSE x \in S : TRUE

Summed(f, s, g) == IF s = {} THEN 0 ELSE f[Chosen(s)] + g[s \ {Chosen(s)}]
Unrolled(f, S, g) == g = [s \in SUBSET S |-> Summed(f, s, g)]

\* The operator of the library is the value at S of a recursive function.
LEMMA SumUnfold ==
  ASSUME NEW f, NEW S
  PROVE  SumFunctionOnSet(f, S) = (CHOOSE g : Unrolled(f, S, g))[S]
BY DEF SumFunctionOnSet, FoldFunctionOnSet, MapThenFoldSet, Unrolled, Summed, Chosen

\* That function exists: by induction on the size of the sets it is applied to.
LEMMA Recursion ==
  ASSUME NEW f, NEW S, IsFiniteSet(S)
  PROVE  \E g : Unrolled(f, S, g)
<1> DEFINE Upto(n) == \E g : DOMAIN g = SUBSET S /\ g = [s \in SUBSET S |-> g[s]]
                /\ \A s \in SUBSET S : Cardinality(s) <= n => g[s] = Summed(f, s, g)
           Bad == {n \in Nat : ~Upto(n)}
<1>0. \A s \in SUBSET S : IsFiniteSet(s) /\ Cardinality(s) \in Nat
      /\ Cardinality(s) <= Cardinality(S)
                           /\ Cardinality(S) \in Nat
  BY FS_Subset, FS_CardinalityType
<1>1. Bad = {}
  <2>1. SUFFICES ASSUME Bad # {} PROVE FALSE
    OBVIOUS
  <2>2. PICK n \in Bad : \A m \in Bad : n <= m
    <3>1. Bad \subseteq Nat
      OBVIOUS
    <3> HIDE DEF Bad
    <3> QED BY <2>1, <3>1, LeastNat
  <2>3. CASE n = 0
    <3> DEFINE g == [s \in SUBSET S |-> 0]
    <3>1. \A s \in SUBSET S : Cardinality(s) <= 0 => s = {}
      BY <1>0, FS_EmptySet
    <3>2. DOMAIN g = SUBSET S /\ g = [s \in SUBSET S |-> g[s]]
      OBVIOUS
    <3>3. \A s \in SUBSET S : Cardinality(s) <= 0 => g[s] = Summed(f, s, g)
      BY <3>1 DEF Summed
    <3>4. Upto(0)
      <4> HIDE DEF g
      <4> QED BY <3>2, <3>3
    <3> QED BY <2>3, <3>4
  <2>4. CASE n # 0
    <3>1. Upto(n - 1)
      <4>1. n \in Nat
        BY <2>2
      <4>2. n - 1 \in Nat /\ ~(n <= n - 1)
        BY <2>4, <4>1
      <4> HIDE DEF Upto
      <4> QED BY <2>2, <4>2
    <3>2. PICK h : DOMAIN h = SUBSET S
          /\ \A s \in SUBSET S : Cardinality(s) <= n - 1 => h[s] = Summed(f, s, h)
      BY <3>1
    <3> DEFINE g == [s \in SUBSET S |-> Summed(f, s, h)]
    <3>3. ASSUME NEW s \in SUBSET S, Cardinality(s) <= n
          PROVE  g[s] = Summed(f, s, g)
      <4>1. CASE s = {}
        BY <4>1 DEF Summed
      <4>2. CASE s # {}
        <5> DEFINE r == s \ {Chosen(s)}
        <5>1. Chosen(s) \in s
          BY <4>2 DEF Chosen
        <5>2. r \in SUBSET S /\ Cardinality(r) <= n - 1
          BY <1>0, <3>3, <5>1, FS_RemoveElement
        <5>3. g[r] = h[r]
          BY <3>2, <5>2
        <5> QED BY <4>2, <5>3 DEF Summed
      <4> QED BY <4>1, <4>2
    <3>4. Upto(n)
      <4>1. DOMAIN g = SUBSET S /\ g = [s \in SUBSET S |-> g[s]]
        OBVIOUS
      <4> HIDE DEF g
      <4> QED BY <4>1, <3>3
    <3> QED BY <2>2, <3>4
  <2> QED BY <2>3, <2>4
<1>2. PICK g : g = [s \in SUBSET S |-> g[s]]
      /\ \A s \in SUBSET S : g[s] = Summed(f, s, g)
  <2>1. Upto(Cardinality(S)) 
    <3>1. Cardinality(S) \in Nat
      BY <1>0
    <3> QED BY <1>1, <3>1
  <2> QED BY <1>0, <2>1
<1>3. g = [s \in SUBSET S |-> Summed(f, s, g)]
  <2>1. [s \in SUBSET S |-> g[s]] = [s \in SUBSET S |-> Summed(f, s, g)]
    BY <1>2
  <2> QED BY <1>2, <2>1
<1> QED BY <1>3 DEF Unrolled

\* Two unrollings agree where both are defined.
LEMMA Agree ==
  ASSUME NEW f, NEW S, IsFiniteSet(S), NEW T \in SUBSET S,
         NEW g, NEW h, Unrolled(f, S, g), Unrolled(f, T, h)
  PROVE  g[T] = h[T]
<1> DEFINE Bad == {s \in SUBSET T : g[s] # h[s]}
<1>1. SUFFICES ASSUME T \in Bad PROVE FALSE
  OBVIOUS
<1>2. PICK s \in Bad : \A x \in s : s \ {x} \notin Bad
  <2>1. Bad \subseteq SUBSET T /\ Bad # {} /\ IsFiniteSet(T)
    BY <1>1, FS_Subset
  <2> HIDE DEF Bad
  <2> QED BY <2>1, SmallestSet
<1>3. g[s] = Summed(f, s, g) /\ h[s] = Summed(f, s, h)
  BY DEF Unrolled
<1>4. CASE s = {}
  BY <1>3, <1>4 DEF Summed
<1>5. CASE s # {}
  <2>1. Chosen(s) \in s
    BY <1>5 DEF Chosen
  <2>2. g[s \ {Chosen(s)}] = h[s \ {Chosen(s)}]
    BY <1>2, <2>1
  <2> QED BY <1>2, <1>3, <1>5, <2>2 DEF Summed
<1> QED BY <1>4, <1>5

\* The empty sum.
LEMMA SumNone == ASSUME NEW f PROVE SumFunctionOnSet(f, {}) = 0
<1> DEFINE g == CHOOSE g : Unrolled(f, {}, g)
<1>1. Unrolled(f, {}, g)
  BY Recursion, FS_EmptySet
<1>2. g[{}] = 0
  <2> HIDE DEF g
  <2> QED BY <1>1 DEF Unrolled, Summed
<1> QED BY <1>2, SumUnfold

\* A sum is its first term and the sum of the rest.
LEMMA SumChosen ==
  ASSUME NEW f, NEW S, IsFiniteSet(S), S # {}
  PROVE  SumFunctionOnSet(f, S)
      = f[Chosen(S)] + SumFunctionOnSet(f, S \ {Chosen(S)})
<1> DEFINE T == S \ {Chosen(S)}
           g == CHOOSE g : Unrolled(f, S, g)
           h == CHOOSE h : Unrolled(f, T, h)
<1>1. Unrolled(f, S, g) /\ Unrolled(f, T, h)
  BY Recursion, FS_RemoveElement
<1>2. SumFunctionOnSet(f, S) = g[S] /\ SumFunctionOnSet(f, T) = h[T]
  BY SumUnfold
<1>3. g[S] = f[Chosen(S)] + g[T]
  <2> HIDE DEF g, h
  <2> QED BY <1>1 DEF Unrolled, Summed
<1>4. g[T] = h[T]
  <2>1. T \in SUBSET S
    OBVIOUS
  <2> HIDE DEF g, h, T
  <2> QED BY <1>1, <2>1, Agree
<1> QED BY <1>2, <1>3, <1>4

\* A sum of integers is an integer, and any member can be split off.
LEMMA SumInt ==
  ASSUME NEW S, IsFiniteSet(S), NEW f, \A x \in S : f[x] \in Int
  PROVE  SumFunctionOnSet(f, S) \in Int
<1> DEFINE Bad == {T \in SUBSET S : SumFunctionOnSet(f, T) \notin Int}
<1>1. SUFFICES ASSUME S \in Bad PROVE FALSE
  OBVIOUS
<1>2. PICK T \in Bad : IsFiniteSet(T) /\ \A x \in T : T \ {x} \notin Bad
  <2>1. Bad \subseteq SUBSET S /\ Bad # {}
    BY <1>1
  <2> HIDE DEF Bad
  <2> QED BY <2>1, SmallestSet
<1>3. T # {}
  BY <1>2, SumNone
<1>4. Chosen(T) \in T
  BY <1>3 DEF Chosen
<1>5. f[Chosen(T)] \in Int /\ SumFunctionOnSet(f, T \ {Chosen(T)}) \in Int
  BY <1>2, <1>4
<1> QED BY <1>2, <1>3, <1>5, SumChosen

\* Any member of the set may be split off, not only the one the library chooses.
LEMMA SumRemove ==
  ASSUME NEW S, IsFiniteSet(S), NEW f, \A x \in S : f[x] \in Int, NEW y \in S
  PROVE  SumFunctionOnSet(f, S) = f[y] + SumFunctionOnSet(f, S \ {y})
<1> DEFINE Rest(T, x) == SumFunctionOnSet(f, T \ {x})
           Bad == {T \in SUBSET S : \E x \in T : SumFunctionOnSet(f, T) # f[x]
               + Rest(T, x)}
<1>1. SUFFICES ASSUME S \in Bad PROVE FALSE
  OBVIOUS
<1>2. PICK T \in Bad : IsFiniteSet(T) /\ \A x \in T : T \ {x} \notin Bad
  <2>1. Bad \subseteq SUBSET S /\ Bad # {}
    BY <1>1
  <2> HIDE DEF Bad
  <2> QED BY <2>1, SmallestSet
<1>3. PICK x \in T : SumFunctionOnSet(f, T) # f[x] + Rest(T, x)
  BY <1>2
<1> DEFINE c == Chosen(T)
<1>4. c \in T
  BY <1>3 DEF Chosen
<1>5. SumFunctionOnSet(f, T) = f[c] + Rest(T, c)
  BY <1>2, <1>3, SumChosen
<1>6. x # c
  BY <1>3, <1>5
<1>7. Rest(T, c) = f[x] + Rest(T \ {c}, x)
  <2>1. T \ {c} \notin Bad /\ T \ {c} \in SUBSET S /\ x \in T \ {c}
    BY <1>2, <1>4, <1>6
  <2> HIDE DEF c
  <2> QED BY <2>1
<1>8. Rest(T, x) = f[c] + Rest(T \ {x}, c)
  <2>1. T \ {x} \notin Bad /\ T \ {x} \in SUBSET S /\ c \in T \ {x}
    BY <1>2, <1>4, <1>6
  <2> HIDE DEF c
  <2> QED BY <2>1
<1>9. (T \ {c}) \ {x} = (T \ {x}) \ {c}
  OBVIOUS
<1>10. Rest(T \ {c}, x) \in Int
  <2>1. IsFiniteSet((T \ {c}) \ {x}) /\ \A z \in (T \ {c}) \ {x} : f[z] \in Int
    BY <1>2, FS_RemoveElement
  <2> QED BY <2>1, SumInt
<1>11. f[x] \in Int /\ f[c] \in Int
  BY <1>2, <1>4
<1>12. Rest(T \ {c}, x) = Rest(T \ {x}, c)
  BY <1>9
<1> HIDE DEF Rest, c
<1> QED BY <1>3, <1>5, <1>7, <1>8, <1>10, <1>11, <1>12

\* The same read the other way: a set that grows by one member.
LEMMA SumAdd ==
  ASSUME NEW S, IsFiniteSet(S), NEW f, NEW y, y \notin S,
         \A x \in S \cup {y} : f[x] \in Int
  PROVE  SumFunctionOnSet(f, S \cup {y}) = f[y] + SumFunctionOnSet(f, S)
<1>1. IsFiniteSet(S \cup {y})
  BY FS_AddElement
<1>2. (S \cup {y}) \ {y} = S
  OBVIOUS
<1> QED BY <1>1, <1>2, SumRemove

\* Facts on products, for terms in which the prover sees no numbers.
LEMMA Distribute ==
  ASSUME NEW a \in Int, NEW b \in Int, NEW c \in Int
  PROVE  a * (b + c) = a * b + a * c /\ (b + c) * a = b * a + c * a
         /\ a * b = b * a /\ a * b \in Int
OBVIOUS

\* Sums are linear, so equal functions have equal sums.
LEMMA SumLinear ==
  ASSUME NEW S, IsFiniteSet(S), NEW f, NEW g, NEW h, NEW a \in Int, NEW b \in Int,
         \A x \in S : f[x] \in Int /\ g[x] \in Int /\ h[x] = a * f[x] + b * g[x]
  PROVE  SumFunctionOnSet(h, S) =
             a * SumFunctionOnSet(f, S) + b * SumFunctionOnSet(g, S)
<1> DEFINE F(T) == SumFunctionOnSet(f, T)
           G(T) == SumFunctionOnSet(g, T)
           H(T) == SumFunctionOnSet(h, T)
           Good == {T \in SUBSET S : H(T) = a * F(T) + b * G(T)}
<1>1. {} \in Good
  BY SumNone
<1>2. ASSUME NEW T \in SUBSET S, NEW x \in S \ T, IsFiniteSet(T), T \in Good
      PROVE  T \cup {x} \in Good
  <2>1. \A y \in S : h[y] \in Int
    BY Distribute
  <2>2. F(T) \in Int /\ G(T) \in Int
    BY <1>2, SumInt
  <2>3. H(T \cup {x}) = h[x] + H(T)
    BY <1>2, <2>1, SumAdd
  <2>4. F(T \cup {x}) = f[x] + F(T)
    BY <1>2, SumAdd
  <2>5. G(T \cup {x}) = g[x] + G(T)
    BY <1>2, SumAdd
  <2>6. h[x] = a * f[x] + b * g[x] /\ H(T) = a * F(T) + b * G(T)
    BY <1>2
  <2>7. f[x] \in Int /\ g[x] \in Int /\ T \cup {x} \in SUBSET S
    OBVIOUS
  <2>8. H(T \cup {x}) = a * F(T \cup {x}) + b * G(T \cup {x})
    <3> HIDE DEF F, G, H
    <3>1. a * (f[x] + F(T)) = a * f[x] + a * F(T)
      BY <2>2, <2>7, Distribute
    <3>2. b * (g[x] + G(T)) = b * g[x] + b * G(T)
      BY <2>2, <2>7, Distribute
    <3>3. {a * f[x], a * F(T), b * g[x], b * G(T)} \subseteq Int
      BY <2>2, <2>7, Distribute
    <3> QED BY <2>3, <2>4, <2>5, <2>6, <3>1, <3>2, <3>3
  <2> QED BY <2>7, <2>8
<1>3. S \in Good
  <2> HIDE DEF Good
  <2> QED BY <1>1, <1>2, SetInduction
<1> QED BY <1>3

\* Functions that agree on a set have the same sum over it.
LEMMA SumSame ==
  ASSUME NEW S, IsFiniteSet(S), NEW f, NEW h, \A x \in S : f[x] \in Int
         /\ h[x] = f[x]
  PROVE  SumFunctionOnSet(h, S) = SumFunctionOnSet(f, S)
<1>1. \A x \in S : h[x] = 1 * f[x] + 0 * f[x]
  OBVIOUS
<1>2. SumFunctionOnSet(h, S)
      = 1 * SumFunctionOnSet(f, S) + 0 * SumFunctionOnSet(f, S)
  BY <1>1, SumLinear
<1> QED BY <1>2, SumInt

\* A sum of zeros.
LEMMA SumZero ==
  ASSUME NEW S, IsFiniteSet(S), NEW h, \A x \in S : h[x] = 0
  PROVE  SumFunctionOnSet(h, S) = 0
<1>1. \A x \in S : h[x] \in Int /\ h[x] = 0 * h[x] + 0 * h[x]
  OBVIOUS
<1>2. SumFunctionOnSet(h, S)
      = 0 * SumFunctionOnSet(h, S) + 0 * SumFunctionOnSet(h, S)
  BY <1>1, SumLinear
<1> QED BY <1>1, <1>2, SumInt

\* Sums grow with their terms.
LEMMA SumLess ==
  ASSUME NEW S, IsFiniteSet(S), NEW f, NEW g,
         \A x \in S : f[x] \in Int /\ g[x] \in Int /\ f[x] <= g[x]
  PROVE  SumFunctionOnSet(f, S) <= SumFunctionOnSet(g, S)
<1> DEFINE F(T) == SumFunctionOnSet(f, T)
           G(T) == SumFunctionOnSet(g, T)
           Good == {T \in SUBSET S : F(T) <= G(T)}
<1>1. {} \in Good
  BY SumNone
<1>2. ASSUME NEW T \in SUBSET S, NEW x \in S \ T, IsFiniteSet(T), T \in Good
      PROVE  T \cup {x} \in Good
  <2>1. F(T) \in Int /\ G(T) \in Int
    BY <1>2, SumInt
  <2>2. F(T \cup {x}) = f[x] + F(T)
    BY <1>2, SumAdd
  <2>3. G(T \cup {x}) = g[x] + G(T)
    BY <1>2, SumAdd
  <2>4. F(T) <= G(T) /\ T \cup {x} \in SUBSET S
    BY <1>2
  <2>5. f[x] \in Int /\ g[x] \in Int /\ f[x] <= g[x]
    OBVIOUS
  <2>6. F(T \cup {x}) <= G(T \cup {x})
    <3> HIDE DEF F, G
    <3> QED BY <2>1, <2>2, <2>3, <2>4, <2>5
  <2> QED BY <2>4, <2>6
<1>3. S \in Good
  <2> HIDE DEF Good
  <2> QED BY <1>1, <1>2, SetInduction
<1> QED BY <1>3

\* Sums over disjoint sets add up.
LEMMA SumSplit ==
  ASSUME NEW S, IsFiniteSet(S), NEW R, IsFiniteSet(R), R \cap S = {},
         NEW f, \A x \in S \cup R : f[x] \in Int
  PROVE  SumFunctionOnSet(f, R \cup S)
      = SumFunctionOnSet(f, R) + SumFunctionOnSet(f, S)
<1> DEFINE F(T) == SumFunctionOnSet(f, T)
           Good == {T \in SUBSET S : F(R \cup T) = F(R) + F(T)}
<1>0. F(R) \in Int
  BY SumInt
<1>1. {} \in Good
  <2>1. R \cup {} = R /\ {} \in SUBSET S
    OBVIOUS
  <2>2. F({}) = 0
    BY SumNone
  <2> QED BY <1>0, <2>1, <2>2
<1>2. ASSUME NEW T \in SUBSET S, NEW x \in S \ T, IsFiniteSet(T), T \in Good
      PROVE  T \cup {x} \in Good
  <2>1. F(T) \in Int
    BY <1>2, SumInt
  <2>2. F(T \cup {x}) = f[x] + F(T)
    BY <1>2, SumAdd
  <2>3. F((R \cup T) \cup {x}) = f[x] + F(R \cup T)
    <3>1. IsFiniteSet(R \cup T)
      BY <1>2, FS_Union
    <3>2. x \notin R \cup T
      OBVIOUS
    <3> QED BY <3>1, <3>2, SumAdd
  <2>4. (R \cup T) \cup {x} = R \cup (T \cup {x}) /\ T \cup {x} \in SUBSET S
    OBVIOUS
  <2>5. F(R \cup (T \cup {x})) = f[x] + F(R \cup T)
    BY <2>3, <2>4
  <2>6. F(R \cup T) = F(R) + F(T) /\ f[x] \in Int
    BY <1>2
  <2>7. F(R \cup (T \cup {x})) = F(R) + F(T \cup {x})
    <3> HIDE DEF F
    <3> QED BY <1>0, <2>1, <2>2, <2>5, <2>6
  <2> QED BY <2>4, <2>7
<1>3. S \in Good
  <2> HIDE DEF Good
  <2> QED BY <1>1, <1>2, SetInduction
<1> QED BY <1>3

\* A finite, non-empty set of integers has a maximum.
LEMMA HasMax ==
  ASSUME NEW S, IsFiniteSet(S), S # {}, S \subseteq Int
  PROVE  Max(S) \in S /\ \A y \in S : y <= Max(S)
<1> DEFINE Good == {T \in SUBSET S : T = {} \/ \E x \in T : \A y \in T : x >= y}
<1>1. {} \in Good
  OBVIOUS
<1>2. ASSUME NEW T \in SUBSET S, NEW x \in S \ T, T \in Good
      PROVE  T \cup {x} \in Good
  <2>1. \E m \in T \cup {x} : \A y \in T \cup {x} : m >= y
    <3>1. CASE T = {}
      BY <3>1
    <3>2. CASE \E z \in T : \A y \in T : z >= y
      <4>1. PICK z \in T : \A y \in T : z >= y
        BY <3>2
      <4>2. CASE z >= x
        BY <4>1, <4>2
      <4>3. CASE x >= z
        BY <4>1, <4>3
      <4> QED BY <4>2, <4>3
    <3> QED BY <1>2, <3>1, <3>2
  <2> QED BY <2>1
<1>3. S \in Good
  <2> HIDE DEF Good
  <2> QED BY <1>1, <1>2, SetInduction
<1> QED BY <1>3 DEF Max

-----------------------------------------------------------------------------
(* The group as a bag.                                                     *)

\* There are finitely many kinds of samples.
LEMMA SamplesFinite == IsFiniteSet(Samples)
<1>1. IsFiniteSet(Kinds)
  <2>1. Kinds = {"oracle"} \cup {"misleading"} \cup {"relevant"} \cup {"unadvertised"}
    BY DEF Kinds
  <2> QED BY <2>1, FS_Singleton, FS_Union
<1>2. IsFiniteSet(Reads)
  <2>1. IsFiniteSet(SUBSET Kinds)
    BY <1>1, FS_SUBSET
  <2> QED BY <2>1, FS_Subset, SlateCreditAssumption
<1> DEFINE P == (0..Top) \X Reads
           f == [p \in P |-> [score |-> p[1], reads |-> p[2]]]
<1>3. IsFiniteSet(P)
  <2>1. IsFiniteSet(0..Top)
    BY FS_Interval, SlateCreditAssumption
  <2> QED BY <1>2, <2>1, FS_Product
<1>4. f \in Surjection(P, Samples)
  <2>1. f \in [P -> Samples]
    BY DEF Samples
  <2>2. \A x \in Samples : \E p \in P : f[p] = x
    <3>1. TAKE x \in Samples
    <3>2. <<x.score, x.reads>> \in P /\ x = [score |-> x.score, reads |-> x.reads]
      BY DEF Samples
    <3>3. f[<<x.score, x.reads>>] = x
      BY <3>2
    <3> QED BY <3>2, <3>3
  <2> QED BY <2>1, <2>2 DEF Surjection
<1> QED
  <2> HIDE DEF P, f
  <2> QED BY <1>3, <1>4, FS_Surjection

Bag == group \in [Samples -> Nat]
Points == [x \in Samples |-> group[x] * x.score]

\* Every set of samples is finite.
LEMMA Parts == ASSUME NEW S \in SUBSET Samples PROVE IsFiniteSet(S)
BY SamplesFinite, FS_Subset

\* Naturals multiply.
LEMMA Product ==
  ASSUME NEW a \in Nat, NEW b \in Nat PROVE a * b \in Nat
OBVIOUS

\* A kind of sample occurs some number of times, and has a score.
LEMMA PointsType ==
  ASSUME Bag
  PROVE  \A x \in Samples : Points[x] \in Nat /\ group[x] \in Nat
      /\ x.score \in 0..Top
<1>1. TAKE x \in Samples
<1>2. x.score \in Nat /\ group[x] \in Nat /\ x.score \in 0..Top
  <2>1. Top \in Nat
    BY SlateCreditAssumption
  <2>2. x.score \in 0..Top
    BY DEF Samples
  <2>3. group[x] \in Nat
    BY DEF Bag
  <2> QED BY <2>1, <2>2, <2>3
<1>3. group[x] * x.score \in Nat
  BY <1>2, Product
<1> QED BY <1>2, <1>3 DEF Points

\* A sum of naturals is a natural.
LEMMA SumNat ==
  ASSUME NEW S, IsFiniteSet(S), NEW f, \A x \in S : f[x] \in Nat
  PROVE  SumFunctionOnSet(f, S) \in Nat
<1> DEFINE z == [x \in S |-> 0]
<1>1. SumFunctionOnSet(f, S) \in Int
  BY SumInt
<1>2. SumFunctionOnSet(z, S) = 0
  BY SumZero
<1>3. SumFunctionOnSet(z, S) <= SumFunctionOnSet(f, S)
  <2>1. \A x \in S : z[x] \in Int /\ f[x] \in Int /\ z[x] <= f[x]
    OBVIOUS
  <2> HIDE DEF z
  <2> QED BY <2>1, SumLess
<1> QED BY <1>1, <1>2, <1>3

\* The sizes and scores of SlateCredit are sums of one function each.
LEMMA SumsNat ==
  ASSUME Bag, NEW S \in SUBSET Samples
  PROVE  /\ Size(S) \in Nat
         /\ ScoreSum(S) \in Nat
         /\ ScoreSum(S) = SumFunctionOnSet(Points, S)
<1>1. IsFiniteSet(S)
  BY Parts
<1>2. Size(S) \in Nat
  BY <1>1, SumNat, PointsType DEF Size
<1>3. SumFunctionOnSet(Points, S) \in Nat
  BY <1>1, SumNat, PointsType
<1>4. ScoreSum(S) = SumFunctionOnSet(Points, S)
  <2> DEFINE f == [x \in S |-> group[x] * x.score]
  <2>1. ScoreSum(S) = SumFunctionOnSet(f, S)
    BY DEF ScoreSum, SumFunction
  <2>2. \A x \in S : Points[x] \in Int /\ f[x] = Points[x]
    BY PointsType DEF Points
  <2> HIDE DEF f
  <2> QED BY <1>1, <2>1, <2>2, SumSame
<1> QED BY <1>2, <1>3, <1>4

\* The strata partition the group.
LEMMA StrataParts ==
  /\ Eligible = In("no_read") \cup In("oracle") \cup In("misleading")
  /\ Samples = Eligible \cup In("other")
  /\ In("no_read") \cap In("oracle") = {}
  /\ (In("no_read") \cup In("oracle")) \cap In("misleading") = {}
  /\ Eligible \cap In("other") = {}
<1>1. Eligible = In("no_read") \cup In("oracle") \cup In("misleading")
  BY DEF Eligible, Strata
<1>2. \A x \in Samples : Stratum(x) \in {"no_read", "oracle", "misleading", "other"}
  BY DEF Stratum
<1> QED BY <1>1, <1>2 DEF In

\* The strata are sets of samples.
LEMMA Within ==
  /\ \A s : In(s) \in SUBSET Samples
  /\ \A s \in Strata : In(s) \in SUBSET Eligible
  /\ Eligible \in SUBSET Samples
BY DEF In, Eligible

\* Sums over the group are sums over its strata.
LEMMA Partition ==
  ASSUME NEW f, \A x \in Samples : f[x] \in Int
  PROVE  /\ SumFunctionOnSet(f, Eligible) =
                SumFunctionOnSet(f, In("no_read"))
                    + SumFunctionOnSet(f, In("oracle"))
                + SumFunctionOnSet(f, In("misleading"))
         /\ SumFunctionOnSet(f, Samples) =
                SumFunctionOnSet(f, Eligible) + SumFunctionOnSet(f, In("other"))
<1>1. IsFiniteSet(In("no_read")) /\ IsFiniteSet(In("oracle"))
      /\ IsFiniteSet(In("misleading"))
      /\ IsFiniteSet(In("other")) /\ IsFiniteSet(Eligible)
         /\ IsFiniteSet(In("no_read") \cup In("oracle"))
  BY Parts, Within
<1>2. SumFunctionOnSet(f, In("no_read") \cup In("oracle")) =
          SumFunctionOnSet(f, In("no_read")) + SumFunctionOnSet(f, In("oracle"))
  BY <1>1, Within, StrataParts, SumSplit
<1>3. SumFunctionOnSet(f, Eligible) =
          SumFunctionOnSet(f, In("no_read") \cup In("oracle"))
              + SumFunctionOnSet(f, In("misleading"))
  BY <1>1, Within, StrataParts, SumSplit
<1>4. SumFunctionOnSet(f, Samples)
      = SumFunctionOnSet(f, Eligible) + SumFunctionOnSet(f, In("other"))
  BY <1>1, Within, StrataParts, SumSplit
<1> QED BY <1>2, <1>3, <1>4

Three(g) == g["no_read"] + g["oracle"] + g["misleading"]

\* A sum over the observed strata is one over all three.
LEMMA OverStrata ==
  ASSUME NEW g \in [Strata -> Int],
         NEW O \in SUBSET Strata, \A s \in Strata \ O : g[s] = 0
  PROVE  SumFunctionOnSet(g, O) = Three(g)
<1> DEFINE A == {"no_read"}
           B == {"oracle"}
           C == {"misleading"}
<1>1. IsFiniteSet(A) /\ IsFiniteSet(B) /\ IsFiniteSet(C)
      /\ IsFiniteSet(A \cup B) /\ Strata = (A \cup B) \cup C
  BY FS_Singleton, FS_Union DEF Strata
<1>2. \A s \in Strata : SumFunctionOnSet(g, {s}) = g[s]
  <2>1. TAKE s \in Strata
  <2>2. SumFunctionOnSet(g, {} \cup {s}) = g[s] + SumFunctionOnSet(g, {})
    BY FS_EmptySet, SumAdd
  <2>3. {} \cup {s} = {s} /\ g[s] \in Int
    OBVIOUS
  <2> QED BY <2>2, <2>3, SumNone
<1>3. SumFunctionOnSet(g, A \cup B)
      = SumFunctionOnSet(g, A) + SumFunctionOnSet(g, B)
  BY <1>1, SumSplit
<1>4. SumFunctionOnSet(g, Strata)
      = SumFunctionOnSet(g, A \cup B) + SumFunctionOnSet(g, C)
  BY <1>1, SumSplit
<1>5. IsFiniteSet(Strata) /\ IsFiniteSet(O) /\ IsFiniteSet(Strata \ O)
  <2>1. IsFiniteSet(Strata)
    BY <1>1, FS_Union
  <2> QED BY <2>1, FS_Subset
<1>6. SumFunctionOnSet(g, O \cup (Strata \ O))
      = SumFunctionOnSet(g, O) + SumFunctionOnSet(g, Strata \ O)
  BY <1>5, SumSplit
<1>7. SumFunctionOnSet(g, Strata \ O) = 0
  BY <1>5, SumZero
<1>8. O \cup (Strata \ O) = Strata /\ SumFunctionOnSet(g, O) \in Int
  BY <1>5, SumInt
<1>9. SumFunctionOnSet(g, Strata) = Three(g)
  <2>1. "no_read" \in Strata /\ "oracle" \in Strata /\ "misleading" \in Strata
    BY DEF Strata
  <2>2. SumFunctionOnSet(g, A) = g["no_read"]
        /\ SumFunctionOnSet(g, B) = g["oracle"]
        /\ SumFunctionOnSet(g, C) = g["misleading"]
    BY <1>2, <2>1
  <2> HIDE DEF A, B, C
  <2>3. SumFunctionOnSet(g, Strata) = (g["no_read"] + g["oracle"]) + g["misleading"]
    BY <1>3, <1>4, <2>2
  <2> QED BY <2>3 DEF Three
<1>10. SumFunctionOnSet(g, Strata) = SumFunctionOnSet(g, O)
  <2>1. SumFunctionOnSet(g, Strata) = SumFunctionOnSet(g, O) + 0
    BY <1>6, <1>7, <1>8
  <2>2. SumFunctionOnSet(g, O) \in Int
    BY <1>8
  <2> QED BY <2>1, <2>2
<1> QED BY <1>9, <1>10

-----------------------------------------------------------------------------
(* The credit of a stratum.                                                *)

\* What the assumptions say of each constant.
LEMMA Constants ==
  /\ N \in Nat \ {0} /\ Top \in Nat \ {0} /\ Shrinkage \in Nat
  /\ Clip.num \in Nat \ {0} /\ Clip.den \in Nat \ {0}
  /\ Coef.num \in Int /\ Coef.den \in Nat \ {0}
<1>1. N \in Nat \ {0} /\ Top \in Nat \ {0} /\ Shrinkage \in Nat
      /\ Clip \in Fractions /\ Coef \in Fractions /\ Clip.num > 0
  BY SlateCreditAssumption
<1>2. Clip.num \in Int /\ Clip.den \in Nat \ {0} /\ Coef.num \in Int
      /\ Coef.den \in Nat \ {0}
  BY <1>1 DEF Fractions
<1> QED BY <1>1, <1>2

\* There are three strata.
LEMMA StrataFinite ==
  IsFiniteSet(Strata) /\ IsFiniteSet(Observed)
<1>1. Strata = ({"no_read"} \cup {"oracle"}) \cup {"misleading"}
  BY DEF Strata
<1>2. IsFiniteSet({"no_read"}) /\ IsFiniteSet({"oracle"})
      /\ IsFiniteSet({"misleading"})
  BY FS_Singleton
<1>3. IsFiniteSet(Strata)
  BY <1>1, <1>2, FS_Union
<1>4. Observed \in SUBSET Strata
  BY DEF Observed
<1> QED BY <1>3, <1>4, FS_Subset

\* Integers multiply.
LEMMA ProductInt ==
  ASSUME NEW a \in Int, NEW b \in Int
  PROVE  a * b \in Int
OBVIOUS
\* So do positive numbers.
LEMMA ProductPos ==
  ASSUME NEW a \in Nat \ {0}, NEW b \in Nat \ {0}
  PROVE  a * b \in Nat \ {0}
OBVIOUS

\* The eligible samples are those of the three strata.
LEMMA Counts ==
  ASSUME Bag
  PROVE  /\ \A s : Count(s) \in Nat /\ ScoreSum(In(s)) \in Nat
         /\ Size(Eligible) = Three([s \in Strata |-> Count(s)])
         /\ Size(Eligible) \in Nat /\ Size(Samples) \in Nat
         /\ ScoreSum(Eligible) \in Nat /\ ScoreSum(Samples) \in Nat
<1>1. \A s : Count(s) \in Nat /\ ScoreSum(In(s)) \in Nat
  BY Within, SumsNat DEF Count
<1>2. Size(Eligible) \in Nat /\ Size(Samples) \in Nat
      /\ ScoreSum(Eligible) \in Nat /\ ScoreSum(Samples) \in Nat
  BY Within, SumsNat
<1>3. Size(Eligible) = Count("no_read") + Count("oracle") + Count("misleading")
  BY Partition, PointsType DEF Size, Count
<1>4. Three([s \in Strata |-> Count(s)])
      = Count("no_read") + Count("oracle") + Count("misleading")
  BY DEF Three, Strata
<1> QED BY <1>1, <1>2, <1>3, <1>4

\* No factor of a common denominator is zero.
LEMMA Factors ==
  ASSUME Bag, NEW s
  PROVE  Others(s) \in Nat \ {0}
<1>1. \A t \in Strata : Weight(t, s) \in Nat \ {0}
  <2>1. TAKE t \in Strata
  <2>2. Count(t) \in Nat /\ Shrinkage \in Nat
    BY Counts, Constants
  <2>3. t \in Observed => Count(t) > 0
    BY DEF Observed
  <2> QED BY <2>2, <2>3 DEF Weight
<1>2. "no_read" \in Strata /\ "oracle" \in Strata /\ "misleading" \in Strata
  BY DEF Strata
<1>3. Weight("no_read", s) * Weight("oracle", s) \in Nat \ {0}
  BY <1>1, <1>2, ProductPos
<1> QED BY <1>1, <1>2, <1>3, ProductPos DEF Others

\* Where a stratum is observed no denominator is zero.
LEMMA Positive ==
  ASSUME Bag, Observed # {}
  PROVE  /\ Size(Eligible) \in Nat \ {0}
         /\ RawDen \in Nat \ {0}
         /\ RawDen * Size(Eligible) \in Nat \ {0}
<1>1. PICK s \in Strata : Count(s) > 0
  BY DEF Observed
<1>2. Size(Eligible) = Count("no_read") + Count("oracle") + Count("misleading")
  BY Counts DEF Three, Strata
<1>3. Count("no_read") \in Nat /\ Count("oracle") \in Nat
      /\ Count("misleading") \in Nat
  BY Counts
<1>4. Count("no_read") > 0 \/ Count("oracle") > 0 \/ Count("misleading") > 0
  BY <1>1 DEF Strata
<1>5. Size(Eligible) \in Nat \ {0}
  BY <1>2, <1>3, <1>4
<1>6. Size(Eligible) * Others("other") \in Nat \ {0}
  BY <1>5, Factors, ProductPos
<1>7. RawDen \in Nat \ {0}
  BY <1>6, Constants, ProductPos DEF RawDen
<1> QED BY <1>5, <1>7, ProductPos

Gap(s) == Size(Eligible) * ScoreSum(In(s)) - Count(s) * ScoreSum(Eligible)
Weighted == [s \in Strata |-> Count(s) * Raw(s)]
Mean == Three(Weighted)

\* The shrunk gain of a stratum is its gap to the average, times a positive number.
LEMMA RawInt ==
  ASSUME Bag, NEW s
  PROVE  Gap(s) \in Int /\ Raw(s) = Gap(s) * Others(s) /\ Raw(s) \in Int
      /\ Count(s) * Raw(s) \in Int
<1>1. Size(Eligible) * ScoreSum(In(s)) \in Int
      /\ Count(s) * ScoreSum(Eligible) \in Int
  BY Counts, ProductInt
<1>2. Gap(s) \in Int
  BY <1>1 DEF Gap
<1>3. Raw(s) = Gap(s) * Others(s)
  BY DEF Raw, Gap
<1>4. Raw(s) \in Int
  BY <1>2, <1>3, Factors, ProductInt
<1>5. Count(s) * Raw(s) \in Int
  BY <1>4, Counts, ProductInt
<1> QED BY <1>2, <1>3, <1>4, <1>5

\* The mean that is subtracted is a sum over all three strata.
LEMMA CentredIs ==
  ASSUME Bag, NEW s
  PROVE  /\ Centred(s) = Size(Eligible) * Raw(s) - Mean
         /\ Mean \in Int /\ Centred(s) \in Int
         /\ Size(Eligible) * Raw(s) \in Int
<1> DEFINE w == [t \in Observed |-> Count(t) * Raw(t)]
<1>1. Weighted \in [Strata -> Int]
  BY RawInt DEF Weighted
<1>2. \A t \in Strata \ Observed : Weighted[t] = 0
  <2>1. TAKE t \in Strata \ Observed
  <2>2. Count(t) = 0
    BY Counts DEF Observed
  <2>3. Raw(t) \in Int
    BY RawInt
  <2> QED BY <2>2, <2>3 DEF Weighted
<1>3. SumFunctionOnSet(Weighted, Observed) = Mean
  <2>1. Observed \in SUBSET Strata
    BY DEF Observed
  <2> QED BY <1>1, <1>2, <2>1, OverStrata DEF Mean
<1>4. SumFunction(w) = SumFunctionOnSet(Weighted, Observed)
  <2>1. IsFiniteSet(Observed)
    BY StrataFinite
  <2>2. \A t \in Observed : Weighted[t] \in Int /\ w[t] = Weighted[t]
    BY <1>1 DEF Weighted, Observed
  <2>3. SumFunction(w) = SumFunctionOnSet(w, Observed)
    BY DEF SumFunction
  <2> HIDE DEF w
  <2> QED BY <2>1, <2>2, <2>3, SumSame
<1>5. Mean \in Int
  BY <1>1 DEF Mean, Three, Strata
<1>6. Size(Eligible) * Raw(s) \in Int
  BY Counts, RawInt, ProductInt
<1>7. Centred(s) = Size(Eligible) * Raw(s) - SumFunction(w)
  BY DEF Centred
<1> QED BY <1>3, <1>4, <1>5, <1>6, <1>7

\* No observed stratum exceeds the largest.
LEMMA LargestIs ==
  ASSUME Bag, Observed # {}
  PROVE  /\ Largest \in Nat
         /\ \A s \in Observed : Abs(Centred(s)) \in Nat
            /\ Abs(Centred(s)) <= Largest
<1> DEFINE A == {Abs(Centred(s)) : s \in Observed}
<1>1. \A s : Abs(Centred(s)) \in Nat
  BY CentredIs DEF Abs
<1>2. IsFiniteSet(A)
  <2> DEFINE f == [s \in Observed |-> Abs(Centred(s))]
  <2>1. IsFiniteSet(Observed)
    BY StrataFinite
  <2>2. f \in Surjection(Observed, A)
    BY DEF Surjection
  <2> HIDE DEF f, A
  <2> QED BY <2>1, <2>2, FS_Surjection
<1>3. A # {} /\ A \subseteq Int /\ \A y \in A : y \in Nat
  BY <1>1
<1>4. Max(A) \in A /\ \A y \in A : y <= Max(A)
  <2> HIDE DEF A
  <2> QED BY <1>2, <1>3, HasMax
<1>5. Largest = Max(A)
  BY DEF Largest
<1> QED BY <1>1, <1>3, <1>4, <1>5

-----------------------------------------------------------------------------
(* The invariant.                                                          *)

Nothing == [num |-> [s \in Strata |-> 0], den |-> 1]
Scaled ==
    [num |-> [s \in Strata |-> IF s \notin Observed THEN 0
                               ELSE IF TooLarge THEN Clip.num * Centred(s)
                               ELSE Centred(s)],
     den |-> IF TooLarge THEN Clip.den * Largest ELSE RawDen * Size(Eligible)]
Earned == IF Cardinality(Observed) < 2 THEN Nothing ELSE Scaled

CreditInv ==
    /\ Bag
    /\ noSkill \in NoSkill \cup {Unpaired}
    /\ pc \in {"rollout", "center", "regret", "stratify", "done"}
    /\ IF pc = "rollout" THEN Size(Samples) < N ELSE Size(Samples) = N
    /\ outcome = IF pc \in {"rollout", "center"} THEN [x \in Samples |-> 0]
                 ELSE [x \in Samples |-> N * x.score - ScoreSum(Samples)]
    /\ shift = IF pc \in {"stratify", "done"} /\ noSkill # Unpaired
               THEN Coef.num * Delta ELSE 0
    /\ behaviour = IF pc = "done" THEN Earned ELSE Nothing

\* The credit depends on the group alone, and no step changes it after the rollout.
LEMMA GroupOnly ==
  ASSUME group' = group
  PROVE  /\ Size(Samples)' = Size(Samples)
         /\ ScoreSum(Samples)' = ScoreSum(Samples)
         /\ Earned' = Earned
         /\ Bag' = Bag
<1>1. \A S : Size(S)' = Size(S) /\ ScoreSum(S)' = ScoreSum(S)
  BY DEF Size, ScoreSum
<1>2. \A s : Count(s)' = Count(s)
  BY <1>1 DEF Count
<1>3. Observed' = Observed
  BY <1>2 DEF Observed
<1>4. \A t, s : Weight(t, s)' = Weight(t, s)
  BY <1>2, <1>3 DEF Weight
<1>5. (\A s : Others(s)' = Others(s)) /\ RawDen' = RawDen
  BY <1>1, <1>4 DEF Others, RawDen
<1>6. \A s : Raw(s)' = Raw(s)
  BY <1>1, <1>2, <1>5 DEF Raw
<1>7. \A s : Centred(s)' = Centred(s)
  BY <1>1, <1>2, <1>3, <1>6 DEF Centred
<1>8. Largest' = Largest
  BY <1>3, <1>7 DEF Largest
<1>9. TooLarge' = TooLarge
  BY <1>1, <1>5, <1>8 DEF TooLarge
<1>10. Scaled' = Scaled
  BY <1>1, <1>3, <1>5, <1>7, <1>8, <1>9 DEF Scaled
<1>11. Earned' = Earned
  BY <1>3, <1>10 DEF Earned, Nothing
<1> QED BY <1>1, <1>11 DEF Bag

\* The invariant holds of an empty group.
LEMMA CreditInit == Init => CreditInv
<1> SUFFICES ASSUME Init PROVE CreditInv
  OBVIOUS
<1>1. group = [x \in Samples |-> 0] /\ pc = "rollout"
      /\ noSkill \in NoSkill \cup {Unpaired}
      /\ outcome = [x \in Samples |-> 0] /\ shift = 0 /\ behaviour = Nothing
  BY DEF Init, Nothing
<1>2. Bag
  BY <1>1 DEF Bag
<1>3. Size(Samples) = 0
  BY <1>1, SamplesFinite, SumZero DEF Size
<1> QED BY <1>1, <1>2, <1>3, Constants DEF CreditInv

\* One more sample: the group is complete when it has N.
LEMMA FinishStep ==
  ASSUME CreditInv, NEW x \in Samples, Finish(x)
  PROVE  CreditInv'
<1>1. /\ pc = "rollout" /\ group' = [group EXCEPT ![x] = @ + 1]
      /\ pc' = IF Size(Samples) = N - 1 THEN "center" ELSE "rollout"
      /\ UNCHANGED <<noSkill, outcome, shift, behaviour>>
  BY DEF Finish
<1>2. Bag /\ Size(Samples) < N /\ noSkill \in NoSkill \cup {Unpaired}
      /\ outcome = [y \in Samples |-> 0] /\ shift = 0 /\ behaviour = Nothing
  BY <1>1 DEF CreditInv
<1>3. Bag'
  BY <1>1, <1>2 DEF Bag
<1> DEFINE rest == Samples \ {x}
<1>4. SumFunctionOnSet(group, Samples) = group[x] + SumFunctionOnSet(group, rest)
  BY <1>2, SamplesFinite, SumRemove DEF Bag
<1>5. SumFunctionOnSet(group', Samples) = group'[x] + SumFunctionOnSet(group', rest)
  BY <1>3, SamplesFinite, SumRemove DEF Bag
<1>6. SumFunctionOnSet(group', rest) = SumFunctionOnSet(group, rest)
  <2>1. IsFiniteSet(rest)
    BY SamplesFinite, FS_RemoveElement
  <2>2. \A y \in rest : group[y] \in Int /\ group'[y] = group[y]
    BY <1>1, <1>2 DEF Bag
  <2> HIDE DEF rest
  <2> QED BY <2>1, <2>2, SumSame
<1>7. group[x] \in Nat /\ group'[x] = group[x] + 1
  BY <1>1, <1>2 DEF Bag
<1>8. SumFunctionOnSet(group, rest) \in Nat
  <2>1. rest \in SUBSET Samples
    OBVIOUS
  <2> QED BY <1>2, <2>1, SumsNat DEF Size
<1>9. Size(Samples)' = Size(Samples) + 1 /\ Size(Samples) \in Nat
  <2> HIDE DEF rest
  <2> QED BY <1>4, <1>5, <1>6, <1>7, <1>8 DEF Size
<1>10. IF pc' = "rollout" THEN Size(Samples)' < N ELSE Size(Samples)' = N
  BY <1>1, <1>2, <1>9, Constants
<1>11. pc' \in {"rollout", "center"}
  BY <1>1
<1>12. noSkill' \in NoSkill \cup {Unpaired}
       /\ outcome' = [y \in Samples |-> 0] /\ shift' = 0
       /\ behaviour' = Nothing'
  BY <1>1, <1>2 DEF Nothing
<1> QED BY <1>3, <1>10, <1>11, <1>12 DEF CreditInv, Unpaired

\* Each post-processor adds the term the invariant expects of it.
LEMMA CreditStep == CreditInv /\ [Next]_vars => CreditInv'
<1> SUFFICES ASSUME CreditInv, [Next]_vars PROVE CreditInv'
  OBVIOUS
<1>1. ASSUME NEW x \in Samples, Finish(x) PROVE CreditInv'
  BY <1>1, FinishStep
<1>2. CASE Center
  <2>1. /\ pc = "center" /\ pc' = "regret"
        /\ UNCHANGED <<group, noSkill, shift, behaviour>>
        /\ outcome' = [x \in Samples |-> N * x.score - ScoreSum(Samples)]
    BY <1>2 DEF Center
  <2>2. Bag /\ noSkill \in NoSkill \cup {Unpaired} /\ Size(Samples) = N
        /\ shift = 0 /\ behaviour = Nothing
    BY <2>1 DEF CreditInv
  <2>3. Bag' /\ Size(Samples)' = N /\ ScoreSum(Samples)' = ScoreSum(Samples)
        /\ Nothing' = Nothing
    BY <2>1, <2>2, GroupOnly DEF Nothing
  <2> QED BY <2>1, <2>2, <2>3 DEF CreditInv, Unpaired
<1>3. CASE Regret
  <2>1. /\ pc = "regret" /\ pc' = "stratify"
        /\ UNCHANGED <<group, noSkill, outcome, behaviour>>
        /\ shift' = IF noSkill = Unpaired THEN 0 ELSE Coef.num * Delta
    BY <1>3 DEF Regret
  <2>2. Bag /\ noSkill \in NoSkill \cup {Unpaired} /\ Size(Samples) = N
        /\ behaviour = Nothing
        /\ outcome = [x \in Samples |-> N * x.score - ScoreSum(Samples)]
    BY <2>1 DEF CreditInv
  <2>3. Bag' /\ Size(Samples)' = N /\ ScoreSum(Samples)' = ScoreSum(Samples)
        /\ Nothing' = Nothing
    BY <2>1, <2>2, GroupOnly DEF Nothing
  <2>4. Delta' = Delta
    BY <2>1, <2>3 DEF Delta
  <2> QED BY <2>1, <2>2, <2>3, <2>4 DEF CreditInv, Unpaired
<1>4. CASE Stratify
  <2>1. /\ pc = "stratify" /\ pc' = "done"
        /\ UNCHANGED <<group, noSkill, outcome, shift>>
        /\ behaviour' = IF Cardinality(Observed) < 2 THEN behaviour ELSE Scaled
    BY <1>4 DEF Stratify, Scaled
  <2>2. Bag /\ noSkill \in NoSkill \cup {Unpaired} /\ Size(Samples) = N
        /\ behaviour = Nothing
        /\ outcome = [x \in Samples |-> N * x.score - ScoreSum(Samples)]
        /\ shift = IF noSkill # Unpaired THEN Coef.num * Delta ELSE 0
    BY <2>1 DEF CreditInv
  <2>3. Bag' /\ Size(Samples)' = N /\ ScoreSum(Samples)' = ScoreSum(Samples)
        /\ Earned' = Earned
    BY <2>1, <2>2, GroupOnly
  <2>4. Delta' = Delta
    BY <2>1, <2>3 DEF Delta
  <2>5. behaviour' = Earned'
    BY <2>1, <2>2, <2>3 DEF Earned
  <2> QED BY <2>1, <2>2, <2>3, <2>4, <2>5 DEF CreditInv, Unpaired
<1>5. CASE UNCHANGED vars
  <2>1. group' = group /\ noSkill' = noSkill /\ pc' = pc /\ outcome' = outcome
        /\ shift' = shift
        /\ behaviour' = behaviour
    BY <1>5 DEF vars
  <2>2. Delta' = Delta /\ Nothing' = Nothing
    BY <2>1, GroupOnly DEF Delta, Nothing
  <2> QED BY <2>1, <2>2, GroupOnly DEF CreditInv, Unpaired
<1> QED BY <1>1, <1>2, <1>3, <1>4, <1>5 DEF Next

\* Every reachable state is explained by its group and its position.
THEOREM CreditInvHolds == Spec => []CreditInv
<1> QED BY CreditInit, CreditStep, PTL DEF Spec

\* No kind of sample occurs more often than there are samples.
LEMMA AtMost ==
  ASSUME Bag, NEW x \in Samples
  PROVE  group[x] <= Size(Samples)
<1> DEFINE rest == Samples \ {x}
<1>1. SumFunctionOnSet(group, Samples) = group[x] + SumFunctionOnSet(group, rest)
  BY SamplesFinite, SumRemove DEF Bag
<1>2. SumFunctionOnSet(group, rest) \in Nat
  <2>1. rest \in SUBSET Samples
    OBVIOUS
  <2> QED BY <2>1, SumsNat DEF Size
<1>3. group[x] \in Nat
  BY DEF Bag
<1> HIDE DEF rest
<1> QED BY <1>1, <1>2, <1>3 DEF Size

\* What a stratum earns: nothing, or its centred gain, clipped.
LEMMA Clipped ==
  ASSUME Bag, TooLarge, Observed # {}
  PROVE  Largest > 0 /\ Clip.den * Largest \in Nat \ {0}
<1>1. Clip.num * RawDen \in Nat \ {0}
  BY Positive, Constants, ProductPos
<1>2. Clip.num * RawDen * Size(Eligible) \in Nat \ {0}
  BY <1>1, Positive, ProductPos
<1>3. Largest \in Nat /\ Largest * Clip.den > 0
  BY <1>2, LargestIs, Constants, ProductInt DEF TooLarge
<1>4. Largest # 0
  BY <1>3, Constants
<1> QED BY <1>3, <1>4, Constants, ProductPos

\* The credits of the strata are fractions.
LEMMA EarnedType ==
  ASSUME Bag
  PROVE  /\ Earned.num \in [Strata -> Int] /\ Earned.den \in Nat \ {0}
         /\ Earned = [num |-> Earned.num, den |-> Earned.den]
         /\ Nothing \in [num : [Strata -> Int], den : Nat \ {0}]
<1>1. Nothing \in [num : [Strata -> Int], den : Nat \ {0}]
  BY DEF Nothing
<1>2. CASE Cardinality(Observed) < 2
  BY <1>1, <1>2 DEF Earned, Nothing
<1>3. CASE ~(Cardinality(Observed) < 2)
  <2>1. Observed # {}
    BY <1>3, FS_EmptySet
  <2>2. \A s \in Strata : Scaled.num[s] \in Int
    <3>1. TAKE s \in Strata
    <3>2. Centred(s) \in Int /\ Clip.num * Centred(s) \in Int
      BY CentredIs, Constants, ProductInt
    <3> QED BY <3>2 DEF Scaled
  <2>3. Scaled.num \in [Strata -> Int]
    BY <2>2 DEF Scaled
  <2>4. Scaled.den \in Nat \ {0}
    <3>1. CASE TooLarge
      BY <2>1, <3>1, Clipped DEF Scaled
    <3>2. CASE ~TooLarge
      BY <2>1, <3>2, Positive DEF Scaled
    <3> QED BY <3>1, <3>2
  <2>5. Earned = Scaled /\ Scaled = [num |-> Scaled.num, den |-> Scaled.den]
    BY <1>3 DEF Earned, Scaled
  <2> QED BY <1>1, <2>3, <2>4, <2>5
<1> QED BY <1>2, <1>3

\* The invariant implies the types.
LEMMA CreditTypes == CreditInv => TypeOK
<1> SUFFICES ASSUME CreditInv PROVE TypeOK
  OBVIOUS
<1>1. Bag /\ noSkill \in NoSkill \cup {Unpaired}
      /\ pc \in {"rollout", "center", "regret", "stratify", "done"}
  BY DEF CreditInv
<1>2. Size(Samples) <= N
  BY <1>1, Counts, Constants DEF CreditInv
<1>3. group \in [Samples -> 0..N]
  <2>1. \A x \in Samples : group[x] \in 0..N
    <3>1. TAKE x \in Samples
    <3>2. group[x] \in Nat /\ Size(Samples) \in Nat /\ N \in Nat
      BY <1>1, Counts, Constants DEF Bag
    <3> QED BY <1>1, <1>2, <3>2, AtMost
  <2> QED BY <1>1, <2>1 DEF Bag
<1>4. outcome \in [Samples -> Int]
  <2>1. [x \in Samples |-> 0] \in [Samples -> Int]
    OBVIOUS
  <2>2. \A x \in Samples : N * x.score - ScoreSum(Samples) \in Int
    <3>1. TAKE x \in Samples
    <3>2. x.score \in Int /\ ScoreSum(Samples) \in Int /\ N \in Int
      BY <1>1, PointsType, Counts, Constants
    <3> QED BY <3>2, ProductInt
  <2>3. outcome = [x \in Samples |-> 0] \/ outcome
        = [x \in Samples |-> N * x.score - ScoreSum(Samples)]
    BY DEF CreditInv
  <2> QED BY <2>1, <2>2, <2>3
<1>5. shift \in Int
  <2>1. CASE noSkill # Unpaired
    <3>1. N * Top \in Nat
      BY Constants, Product
    <3>2. noSkill \in Int
      BY <1>1, <2>1, <3>1, SlateCreditAssumption
    <3>3. Delta \in Int
      BY <1>1, <3>2, Counts DEF Delta
    <3>4. Coef.num * Delta \in Int
      BY <3>3, Constants, ProductInt
    <3> QED BY <3>4 DEF CreditInv
  <2>2. CASE noSkill = Unpaired
    BY <2>2 DEF CreditInv
  <2> QED BY <2>1, <2>2
<1>6. behaviour \in [num : [Strata -> Int], den : Nat \ {0}]
  <2>1. Earned \in [num : [Strata -> Int], den : Nat \ {0}]
        /\ Nothing \in [num : [Strata -> Int], den : Nat \ {0}]
    BY <1>1, EarnedType
  <2> QED BY <2>1 DEF CreditInv
<1> QED BY <1>1, <1>2, <1>3, <1>4, <1>5, <1>6 DEF TypeOK

\* Type correctness: a group never exceeds N samples, and no post-processor
\* divides by zero, whatever strata were observed and whether or not it clips.
THEOREM TypeCorrect == Spec => []TypeOK
<1> QED BY CreditInvHolds, CreditTypes, PTL

-----------------------------------------------------------------------------
(* The better stratum.                                                     *)

\* Two strata are compared only where there are two.
LEMMA Two ==
  ASSUME NEW s \in Observed, NEW t \in Observed, s # t
  PROVE  ~(Cardinality(Observed) < 2)
<1>1. IsFiniteSet({s}) /\ Cardinality({s}) = 1
  BY FS_Singleton
<1>2. Cardinality({s} \cup {t}) = 2
  BY <1>1, FS_AddElement
<1>3. {s} \cup {t} \in SUBSET Observed
  OBVIOUS
<1>4. Cardinality({s} \cup {t}) <= Cardinality(Observed)
  BY <1>3, StrataFinite, FS_Subset
<1> QED BY <1>2, <1>4, StrataFinite, FS_CardinalityType

\* Multiplying by a positive number keeps signs and order.
LEMMA Scale ==
  ASSUME NEW a \in Int, NEW b \in Int, NEW c \in Nat \ {0}
  PROVE  /\ a > b => c * a > c * b
         /\ a > 0 => a * c > 0
         /\ a < 0 => a * c < 0
         /\ a >= 0 => a * c >= 0
         /\ a <= 0 => a * c <= 0
         /\ 0 * c = 0
         /\ a * c \in Int /\ c * a \in Int /\ c * b \in Int
<1>1. a > b => c * a > c * b
  <2>1. c * a - c * b = c * (a - b)
    OBVIOUS
  <2>2. a > b => a - b \in Nat \ {0}
    OBVIOUS
  <2>3. a > b => c * (a - b) \in Nat \ {0}
    BY <2>2, ProductPos
  <2> QED BY <2>1, <2>3, ProductInt
<1>2. a > 0 => a * c > 0
  BY ProductPos
<1>3. a < 0 => a * c < 0
  <2>1. a < 0 => -a \in Nat \ {0}
    OBVIOUS
  <2>2. a < 0 => (-a) * c \in Nat \ {0}
    BY <2>1, ProductPos
  <2>3. (-a) * c = -(a * c)
    OBVIOUS
  <2> QED BY <2>2, <2>3, ProductInt
<1>4. 0 * c = 0
  OBVIOUS
<1>5. (a >= 0 => a * c >= 0) /\ (a <= 0 => a * c <= 0)
  <2>1. CASE a = 0
    BY <2>1, <1>4
  <2>2. CASE a # 0
    BY <1>2, <1>3, <2>2, ProductInt
  <2> QED BY <2>1, <2>2
<1> QED BY <1>1, <1>2, <1>3, <1>4, <1>5, ProductInt

\* Shrinkage and centring keep the order of a gain and a loss, and of nothing else.
LEMMA GapOrdersGain ==
  ASSUME Bag, NEW s \in Observed, NEW t \in Observed, Gap(s) >= 0, Gap(t) <= 0
  PROVE  /\ Gap(s) = Gap(t) => Centred(s) = Centred(t)
         /\ Gap(s) # Gap(t) => Centred(s) > Centred(t)
<1>1. /\ Gap(s) \in Int /\ Raw(s) = Gap(s) * Others(s) /\ Raw(s) \in Int
      /\ Gap(t) \in Int /\ Raw(t) = Gap(t) * Others(t) /\ Raw(t) \in Int
  BY RawInt
<1>2. Others(s) \in Nat \ {0} /\ Others(t) \in Nat \ {0}
  BY Factors
<1>3. Size(Eligible) \in Nat \ {0}
  BY Positive
<1>4. Raw(s) >= 0 /\ Raw(t) <= 0
  BY <1>1, <1>2, Scale
<1>5. (Gap(s) > 0 => Raw(s) > 0) /\ (Gap(t) < 0 => Raw(t) < 0) 
  BY <1>1, <1>2, Scale
<1>6. (Gap(s) = 0 => Raw(s) = 0) /\ (Gap(t) = 0 => Raw(t) = 0)
  BY <1>1, <1>2, Scale
<1>7. Gap(s) = Gap(t) => Raw(s) = Raw(t)
  BY <1>1, <1>6
<1>8. Gap(s) # Gap(t) => Raw(s) > Raw(t)
  BY <1>1, <1>4, <1>5
<1>9. Gap(s) # Gap(t) => Size(Eligible) * Raw(s) > Size(Eligible) * Raw(t)
  BY <1>1, <1>3, <1>8, Scale
<1>10. /\ Centred(s) = Size(Eligible) * Raw(s) - Mean
       /\ Size(Eligible) * Raw(s) \in Int
       /\ Centred(t) = Size(Eligible) * Raw(t) - Mean
          /\ Size(Eligible) * Raw(t) \in Int
       /\ Mean \in Int
  BY CentredIs
<1> QED BY <1>7, <1>9, <1>10

\* A stratum above the average of the eligible samples is credited more than one
\* below it, for every group, shrinkage and clip (_stratum_advantages).
THEOREM BetterStratumHolds == Spec => []BetterStratumGainsMore
<1>1. CreditInv => BetterStratumGainsMore
  <2> SUFFICES ASSUME CreditInv, pc
      = "done", NEW s \in Observed, NEW t \in Observed,
                      Gap(s) >= 0, Gap(t) <= 0
               PROVE  IF Gap(s) = Gap(t) THEN behaviour.num[s] = behaviour.num[t]
                      ELSE behaviour.num[s] > behaviour.num[t]
    BY DEF BetterStratumGainsMore, Gap
  <2>1. Bag /\ behaviour = Earned
    BY DEF CreditInv
  <2>2. CASE s = t
    BY <2>2
  <2>3. CASE s # t
    <3>1. behaviour = Scaled
      BY <2>1, <2>3, Two DEF Earned
    <3>2. s \in Strata /\ t \in Strata
      BY DEF Observed
    <3>3. Centred(s) \in Int /\ Centred(t) \in Int
      BY <2>1, CentredIs
    <3>4. /\ Gap(s) = Gap(t) => Centred(s) = Centred(t)
          /\ Gap(s) # Gap(t) => Centred(s) > Centred(t)
      BY <2>1, GapOrdersGain
    <3>5. CASE TooLarge
      <4>1. behaviour.num[s] = Clip.num * Centred(s)
            /\ behaviour.num[t] = Clip.num * Centred(t)
        BY <3>1, <3>2, <3>5 DEF Scaled
      <4>2. Centred(s) > Centred(t) => Clip.num * Centred(s) > Clip.num * Centred(t)
        BY <3>3, Constants, Scale
      <4> QED BY <3>4, <4>1, <4>2
    <3>6. CASE ~TooLarge
      <4>1. behaviour.num[s] = Centred(s) /\ behaviour.num[t] = Centred(t)
        BY <3>1, <3>2, <3>6 DEF Scaled
      <4> QED BY <3>4, <4>1
    <3> QED BY <3>5, <3>6
  <2> QED BY <2>2, <2>3
<1> QED BY <1>1, CreditInvHolds, PTL

-----------------------------------------------------------------------------
(* What moves the group.                                                   *)

\* Centred scores cancel over the group.
LEMMA OutcomesCancel ==
  ASSUME CreditInv
  PROVE  SumFunction([x \in Samples |-> group[x] * outcome[x]]) = 0
<1> DEFINE h == [x \in Samples |-> group[x] * outcome[x]]
<1>0. Bag /\ SumFunction(h) = SumFunctionOnSet(h, Samples)
  BY DEF CreditInv, SumFunction
<1> SUFFICES SumFunctionOnSet(h, Samples) = 0
  BY <1>0
<1>1. CASE outcome = [x \in Samples |-> 0]
  <2>1. \A x \in Samples : h[x] = 0
    BY <1>0, <1>1 DEF Bag
  <2> HIDE DEF h
  <2> QED BY <2>1, SamplesFinite, SumZero
<1>2. CASE ~(outcome = [x \in Samples |-> 0])
  <2>1. outcome = [x \in Samples |-> N * x.score - ScoreSum(Samples)]
        /\ Size(Samples) = N
    BY <1>2 DEF CreditInv
  <2>2. N \in Int /\ ScoreSum(Samples) \in Int /\ -ScoreSum(Samples) \in Int
    BY <1>0, Counts, Constants
  <2>3. \A x \in Samples : Points[x] \in Int /\ group[x] \in Int
                           /\ h[x] = N * Points[x] + (-ScoreSum(Samples)) * group[x]
    <3>1. TAKE x \in Samples
    <3>2. x.score \in Int /\ group[x] \in Int /\ Points[x] \in Int
      BY <1>0, PointsType
    <3>3. h[x] = group[x] * (N * x.score - ScoreSum(Samples))
          /\ Points[x] = group[x] * x.score
      BY <2>1 DEF Points
    <3>4. \A g, s, m, n \in Int : g * (n * s - m) = n * (g * s) + (-m) * g
      OBVIOUS
    <3> HIDE DEF h
    <3> QED BY <2>2, <3>2, <3>3, <3>4
  <2>4. SumFunctionOnSet(h, Samples) =
            N * SumFunctionOnSet(Points, Samples)
                + (-ScoreSum(Samples)) * SumFunctionOnSet(group, Samples)
    <3> HIDE DEF h
    <3> QED BY <2>2, <2>3, SamplesFinite, SumLinear
  <2>5. SumFunctionOnSet(Points, Samples) = ScoreSum(Samples)
        /\ SumFunctionOnSet(group, Samples) = N
    BY <1>0, <2>1, SumsNat DEF Size
  <2>6. N * ScoreSum(Samples) + (-ScoreSum(Samples)) * N = 0
    BY <2>2
  <2> HIDE DEF h
  <2> QED BY <2>4, <2>5, <2>6
<1> QED BY <1>1, <1>2

\* What the strata receive, counted sample by sample and stratum by stratum.
LEMMA PerStratum ==
  ASSUME Bag, behaviour.num \in [Strata -> Int]
  PROVE  SumFunction([x \in Samples |-> group[x] * Behaviour(x)]) =
             Three([s \in Strata |-> Count(s) * behaviour.num[s]])
<1> DEFINE h == [x \in Samples |-> group[x] * Behaviour(x)]
           g == [s \in Strata |-> Count(s) * behaviour.num[s]]
<1>1. \A x \in Samples : Stratum(x) # "other" => Stratum(x) \in Strata
  BY DEF Stratum, Strata
<1>2. \A x \in Samples : group[x] \in Int /\ Behaviour(x) \in Int /\ h[x] \in Int
  <2>1. TAKE x \in Samples
  <2>2. group[x] \in Int /\ Behaviour(x) \in Int
    BY <1>1 DEF Bag, Behaviour
  <2> QED BY <2>2, ProductInt
<1>3. ASSUME NEW s \in Strata
      PROVE  SumFunctionOnSet(h, In(s)) = g[s] /\ g[s] \in Int
  <2>1. behaviour.num[s] \in Int /\ Count(s) \in Int
    BY Counts
  <2>2. \A x \in In(s) : group[x] \in Int /\ h[x] \in Int
                         /\ h[x] = behaviour.num[s] * group[x] + 0 * group[x]
    <3>1. TAKE x \in In(s)
    <3>2. x \in Samples /\ Stratum(x) = s
      BY DEF In
    <3>3. Behaviour(x) = behaviour.num[s]
      <4>1. s # "other"
        BY DEF Strata
      <4> QED BY <3>2, <4>1 DEF Behaviour
    <3>4. h[x] = group[x] * behaviour.num[s]
      BY <3>2, <3>3
    <3> HIDE DEF h
    <3> QED BY <1>2, <2>1, <3>2, <3>4
  <2>3. IsFiniteSet(In(s))
    BY Parts, Within
  <2>4. SumFunctionOnSet(h, In(s)) =
            behaviour.num[s] * SumFunctionOnSet(group, In(s))
                + 0 * SumFunctionOnSet(group, In(s))
    <3> HIDE DEF h
    <3> QED BY <2>1, <2>2, <2>3, SumLinear
  <2>5. SumFunctionOnSet(group, In(s)) = Count(s)
    BY DEF Count, Size
  <2>6. g[s] = Count(s) * behaviour.num[s]
    OBVIOUS
  <2>7. Count(s) * behaviour.num[s] = behaviour.num[s] * Count(s) + 0 * Count(s)
        /\ Count(s) * behaviour.num[s] \in Int
    BY <2>1, ProductInt
  <2> HIDE DEF h, g
  <2> QED BY <2>4, <2>5, <2>6, <2>7
<1>4. SumFunctionOnSet(h, In("other")) = 0
  <2>1. \A x \in In("other") : h[x] = 0
    BY <1>2 DEF In, Behaviour
  <2>2. IsFiniteSet(In("other"))
    BY Parts, Within
  <2> HIDE DEF h
  <2> QED BY <2>1, <2>2, SumZero
<1>5. /\ SumFunctionOnSet(h, Eligible) =
             SumFunctionOnSet(h, In("no_read")) + SumFunctionOnSet(h, In("oracle"))
                 + SumFunctionOnSet(h, In("misleading"))
      /\ SumFunctionOnSet(h, Samples) =
             SumFunctionOnSet(h, Eligible) + SumFunctionOnSet(h, In("other"))
  <2> HIDE DEF h
  <2> QED BY <1>2, Partition
<1>6. "no_read" \in Strata /\ "oracle" \in Strata /\ "misleading" \in Strata
  BY DEF Strata
<1>7. SumFunctionOnSet(h, Samples) = Three(g)
  <2> HIDE DEF h, g
  <2>1. SumFunctionOnSet(h, Eligible) = g["no_read"] + g["oracle"] + g["misleading"]
    BY <1>3, <1>5, <1>6
  <2>2. SumFunctionOnSet(h, Eligible) \in Int
    BY <1>3, <1>6, <2>1
  <2> QED BY <1>4, <1>5, <2>1, <2>2 DEF Three
<1>8. SumFunction(h) = SumFunctionOnSet(h, Samples)
  BY DEF SumFunction
<1> QED BY <1>7, <1>8

\* Centring brings the strata into balance, shrunk as they are.
LEMMA CentredCancel ==
  ASSUME Bag
  PROVE  Three([s \in Strata |-> Count(s) * Centred(s)]) = 0
<1> DEFINE e == Size(Eligible)
<1>1. ASSUME NEW s \in Strata
      PROVE  Count(s) * Centred(s) = e * Weighted[s] - Mean * Count(s)
             /\ Weighted[s] \in Int /\ Count(s) \in Int
  <2>1. Centred(s) = e * Raw(s) - Mean /\ Mean \in Int
        /\ Weighted[s] = Count(s) * Raw(s)
    BY CentredIs DEF Weighted
  <2>2. Raw(s) \in Int /\ Count(s) \in Int /\ e \in Int /\ Count(s) * Raw(s) \in Int
    BY RawInt, Counts
  <2>3. \A a, b, c, m \in Int : a * (b * c - m) = b * (a * c) - m * a
    OBVIOUS
  <2> HIDE DEF e
  <2> QED BY <2>1, <2>2, <2>3
<1>2. "no_read" \in Strata /\ "oracle" \in Strata /\ "misleading" \in Strata
  BY DEF Strata
<1>3. Mean = Weighted["no_read"] + Weighted["oracle"] + Weighted["misleading"]
      /\ Mean \in Int
  BY CentredIs DEF Mean, Three
<1>4. e = Count("no_read") + Count("oracle") + Count("misleading") /\ e \in Int
  BY Counts, <1>2 DEF Three
<1>5. Three([s \in Strata |-> Count(s) * Centred(s)]) =
          Count("no_read") * Centred("no_read")
              + Count("oracle") * Centred("oracle")
              + Count("misleading") * Centred("misleading")
  BY <1>2 DEF Three
<1>6. \A a, b, c, x, y, z \in Int :
         ((a + b + c) * x - (x + y + z) * a) + ((a + b + c) * y - (x + y + z) * b)
             + ((a + b + c) * z - (x + y + z) * c) = 0
  OBVIOUS
<1>7. ((Count("no_read") + Count("oracle")
      + Count("misleading")) * Weighted["no_read"]
        - (Weighted["no_read"] + Weighted["oracle"]
            + Weighted["misleading"]) * Count("no_read"))
      + ((Count("no_read") + Count("oracle")
      + Count("misleading")) * Weighted["oracle"]
        - (Weighted["no_read"] + Weighted["oracle"]
            + Weighted["misleading"]) * Count("oracle"))
      + ((Count("no_read") + Count("oracle")
      + Count("misleading")) * Weighted["misleading"]
        - (Weighted["no_read"] + Weighted["oracle"]
            + Weighted["misleading"]) * Count("misleading")) = 0
  BY <1>1, <1>2, <1>6
<1> HIDE DEF e
<1> QED BY <1>1, <1>2, <1>3, <1>4, <1>5, <1>7

\* The credits of the strata cancel over the group, clipped or not.
LEMMA BehavioursCancel ==
  ASSUME CreditInv
  PROVE  SumFunction([x \in Samples |-> group[x] * Behaviour(x)]) = 0
<1>1. Bag /\ behaviour \in {Earned, Nothing}
  BY DEF CreditInv
<1>2. behaviour.num \in [Strata -> Int]
  BY <1>1, EarnedType DEF Nothing
<1> DEFINE g == [s \in Strata |-> Count(s) * behaviour.num[s]]
           k == [s \in Strata |-> Count(s) * Centred(s)]
<1>3. "no_read" \in Strata /\ "oracle" \in Strata /\ "misleading" \in Strata
  BY DEF Strata
<1>4. Three(g) = 0
  <2>1. CASE behaviour = Nothing
    <3>1. \A s \in Strata : g[s] = 0
      BY <1>1, <2>1, Counts DEF Nothing
    <3> HIDE DEF g
    <3> QED BY <1>3, <3>1 DEF Three
  <2>2. CASE behaviour = Scaled
    <3> DEFINE c == IF TooLarge THEN Clip.num ELSE 1
    <3>1. c \in Int
      BY Constants
    <3>2. \A s \in Strata : g[s] = c * k[s] /\ k[s] \in Int
      <4>1. TAKE s \in Strata
      <4>2. Count(s) \in Int /\ Centred(s) \in Int /\ Count(s) * Centred(s) \in Int
        BY <1>1, Counts, CentredIs, ProductInt
      <4>3. CASE s \notin Observed
        <5>1. Count(s) = 0
          BY <1>1, <4>3, Counts DEF Observed
        <5>2. behaviour.num[s] = 0
          BY <2>2, <4>3 DEF Scaled
        <5> HIDE DEF c
        <5> QED BY <3>1, <4>2, <5>1, <5>2
      <4>4. CASE s \in Observed
        <5>1. behaviour.num[s] = c * Centred(s)
          BY <2>2, <4>2, <4>4 DEF Scaled
        <5>2. \A i, j \in Int : i * (c * j) = c * (i * j)
          <6> HIDE DEF c
          <6> QED BY <3>1
        <5> HIDE DEF c
        <5> QED BY <4>2, <5>1, <5>2
      <4> QED BY <4>3, <4>4
    <3>3. Three(k) = 0
      BY <1>1, CentredCancel
    <3> HIDE DEF c, g, k
    <3>4. k["no_read"] + k["oracle"] + k["misleading"] = 0
      BY <3>3 DEF Three
    <3>5. c * k["no_read"] + c * k["oracle"] + c * k["misleading"]
          = c * (k["no_read"] + k["oracle"] + k["misleading"])
      BY <1>3, <3>1, <3>2
    <3>6. c * 0 = 0
      BY <3>1
    <3> QED BY <1>3, <3>2, <3>4, <3>5, <3>6 DEF Three
  <2> QED BY <1>1, <2>1, <2>2 DEF Earned
<1> QED BY <1>1, <1>2, <1>4, PerStratum

\* The clip holds for every sample.
LEMMA WithinClip ==
  ASSUME CreditInv, NEW x \in Samples
  PROVE  Abs(Behaviour(x)) * Clip.den <= Clip.num * behaviour.den
<1>1. Bag /\ behaviour \in {Earned, Nothing}
  BY DEF CreditInv
<1>2. Clip.num \in Nat /\ Clip.den \in Nat
  BY Constants
<1>3. behaviour.den \in Nat \ {0}
  BY <1>1, EarnedType DEF Nothing
<1>4. Clip.num * behaviour.den \in Nat
  BY <1>2, <1>3, Product
<1>5. CASE Behaviour(x) = 0
  BY <1>2, <1>4, <1>5 DEF Abs
<1>6. CASE Behaviour(x) # 0
  <2> DEFINE s == Stratum(x)
  <2>1. s \in Strata /\ Behaviour(x) = behaviour.num[s]
    BY <1>6 DEF Behaviour, Stratum, Strata
  <2>2. behaviour = Scaled /\ s \in Observed
    <3>1. behaviour # Nothing
      BY <1>6, <2>1 DEF Nothing
    <3>2. behaviour = Scaled
      BY <1>1, <3>1 DEF Earned
    <3> QED BY <1>6, <2>1, <3>2 DEF Scaled
  <2> HIDE DEF s
  <2>3. Abs(Centred(s)) \in Nat /\ Abs(Centred(s)) <= Largest
        /\ Largest \in Nat /\ Centred(s) \in Int
    BY <1>1, <2>2, LargestIs, CentredIs
  <2>4. CASE TooLarge
    <3>1. Behaviour(x) = Clip.num * Centred(s) /\ behaviour.den = Clip.den * Largest
      BY <2>1, <2>2, <2>4 DEF Scaled
    <3>2. Abs(Clip.num * Centred(s)) = Clip.num * Abs(Centred(s))
      BY <2>3, Constants, Scale, ProductInt DEF Abs
    <3>3. \A a, b, c, d \in Nat : a <= b => (c * a) * d <= c * (d * b)
      <4>1. TAKE a, b, c, d \in Nat
      <4>2. c * d \in Nat /\ (a <= b => b - a \in Nat)
        BY Product
      <4>3. a <= b => (c * d) * (b - a) \in Nat
        BY <4>2, Product
      <4>4. (c * d) * (b - a) = c * (d * b) - (c * a) * d
        OBVIOUS
      <4>5. c * (d * b) \in Int /\ (c * a) * d \in Int
        BY ProductInt
      <4> QED BY <4>3, <4>4, <4>5
    <3> QED BY <1>2, <2>3, <3>1, <3>2, <3>3
  <2>5. CASE ~TooLarge
    <3>1. Behaviour(x) = Centred(s) /\ behaviour.den = RawDen * Size(Eligible)
      BY <2>1, <2>2, <2>5 DEF Scaled
    <3>2. Largest * Clip.den <= Clip.num * RawDen * Size(Eligible)
      <4>1. Observed # {}
        BY <2>2
      <4>2. Largest * Clip.den \in Int /\ Clip.num * RawDen \in Int
        BY <1>1, <1>2, <2>3, <4>1, Positive, ProductInt
      <4>3. Clip.num * RawDen * Size(Eligible) \in Int
        BY <1>1, <4>1, <4>2, Positive, ProductInt
      <4> QED BY <2>5, <4>2, <4>3 DEF TooLarge
    <3>3. Clip.num * RawDen * Size(Eligible) = Clip.num * (RawDen * Size(Eligible))
      <4>1. RawDen \in Nat /\ Size(Eligible) \in Nat
        BY <1>1, <2>2, Positive
      <4> QED BY <1>2, <4>1
    <3>4. \A a, b, c \in Nat : a <= b => a * c <= b * c
      <4>1. TAKE a, b, c \in Nat
      <4>2. a <= b => (b - a) * c \in Nat
        BY Product
      <4>3. (b - a) * c = b * c - a * c /\ b * c \in Int /\ a * c \in Int
        BY ProductInt
      <4> QED BY <4>2, <4>3
    <3>5. Abs(Centred(s)) * Clip.den <= Largest * Clip.den
      BY <1>2, <2>3, <3>4
    <3>6. {Abs(Centred(s)) * Clip.den, Largest * Clip.den,
          Clip.num * behaviour.den} \subseteq Int
      BY <1>2, <1>4, <2>3, ProductInt
    <3> QED BY <3>1, <3>2, <3>3, <3>5, <3>6
  <2> QED BY <2>4, <2>5
<1> QED BY <1>5, <1>6

\* The shift of a paired group has the sign of the better arm.
LEMMA RegretSign ==
  ASSUME CreditInv, pc = "done", noSkill # Unpaired, Coef.num > 0
  PROVE  /\ shift > 0 <=> ScoreSum(Samples) > noSkill
         /\ shift < 0 <=> ScoreSum(Samples) < noSkill
<1>1. shift = Coef.num * Delta /\ Delta = ScoreSum(Samples) - noSkill
  BY DEF CreditInv, Delta
<1>2. noSkill \in Int
  <2>1. N * Top \in Nat
    BY Constants, Product
  <2> QED BY <2>1, SlateCreditAssumption DEF CreditInv
<1>3. ScoreSum(Samples) \in Int
  BY Counts DEF CreditInv
<1>4. Delta \in Int /\ Coef.num \in Nat \ {0}
  BY <1>1, <1>2, <1>3, Constants
<1>5. Coef.num * Delta = Delta * Coef.num
  BY <1>4
<1>6. (Delta > 0 => shift > 0) /\ (Delta < 0 => shift < 0)
      /\ (Delta = 0 => shift = 0)
  BY <1>1, <1>4, <1>5, Scale
<1>7. shift \in Int
  BY <1>1, <1>4, ProductInt
<1> QED BY <1>1, <1>2, <1>3, <1>4, <1>6, <1>7

\* Only the regret moves a group as a whole, and the clip is passed by no sample,
\* for every group, shrinkage and clip.  A coefficient that is not positive, which
\* the environment variable may give, would turn the sign of the regret.
THEOREM OnlyRegretHolds ==
  ASSUME Coef.num > 0
  PROVE  Spec => []OnlyRegretMovesGroup
<1>1. CreditInv => OnlyRegretMovesGroup
  BY OutcomesCancel, BehavioursCancel, WithinClip,
      RegretSign DEF OnlyRegretMovesGroup
<1> QED BY <1>1, CreditInvHolds, PTL

-----------------------------------------------------------------------------
(* The verifier decides.                                                   *)

\* Products keep the order of their factors.
LEMMA Monotone ==
  ASSUME NEW a \in Int, NEW b \in Int, NEW c \in Nat
  PROVE  /\ a <= b => a * c <= b * c /\ c * a <= c * b
         /\ a < b /\ c > 0 => a * c < b * c /\ c * a < c * b
         /\ a * c < b * c => a < b
         /\ {a * c, b * c, c * a, c * b} \subseteq Int
<1>1. {a * c, b * c, c * a, c * b} \subseteq Int /\ c * a = a * c /\ c * b = b * c
  BY ProductInt
<1>2. b * c - a * c = (b - a) * c
  OBVIOUS
<1>3. a <= b => (b - a) * c \in Nat
  <2>1. a <= b => b - a \in Nat
    OBVIOUS
  <2> QED BY <2>1, Product
<1>4. a < b /\ c > 0 => (b - a) * c \in Nat \ {0}
  <2>1. a < b => b - a \in Nat \ {0}
    OBVIOUS
  <2> QED BY <2>1, ProductPos
<1>5. a <= b => a * c <= b * c
  BY <1>1, <1>2, <1>3
<1>6. a < b /\ c > 0 => a * c < b * c
  BY <1>1, <1>2, <1>4
<1>7. a * c < b * c => a < b
  <2>1. b <= a => b * c <= a * c
    <3>1. b <= a => a - b \in Nat
      OBVIOUS
    <3>2. b <= a => (a - b) * c \in Nat
      BY <3>1, Product
    <3>3. a * c - b * c = (a - b) * c
      OBVIOUS
    <3> QED BY <1>1, <3>2, <3>3
  <2> QED BY <1>1, <2>1
<1> QED BY <1>1, <1>5, <1>6, <1>7

\* Squares are not negative.
LEMMA Square ==
  ASSUME NEW a \in Int
  PROVE  a * a >= 0 /\ a * a \in Int
<1>1. CASE a >= 0
  BY <1>1, Product
<1>2. CASE a < 0
  <2>1. -a \in Nat
    BY <1>2
  <2>2. (-a) * (-a) = a * a
    OBVIOUS
  <2> QED BY <2>1, <2>2, Product
<1> QED BY <1>1, <1>2

\* An exact quotient.
LEMMA Divides ==
  ASSUME NEW n \in Nat \ {0}, NEW k \in Int
  PROVE  (n * k) \div n = k
OBVIOUS

\* The arithmetic of the verdict: a loss of at most twice the clip, in a group whose
\* variance is as large as it can be, against a gain of one unit of score.
LEMMA Outweighs ==
  ASSUME NEW l \in Nat \ {0}, NEW w \in Nat \ {0}, NEW v \in Int,
         NEW d \in Nat \ {0},
         NEW n \in Nat \ {0}, NEW top \in Nat \ {0}, NEW cn \in Nat \ {0},
             NEW cd \in Nat \ {0},
         l * cd <= 2 * (cn * d),
         4 * v <= (n * top) * (n * top),
         cn * cn * top * top * n < cd * cd * (n - 1)
  PROVE  l * l * v < w * w * n * (n - 1) * d * d
<1> DEFINE p == l * cd
           q == cn * d
           A == n * top
           room == d * d * n
           small == cn * cn * top * top * n
           ww == w * w
           big == n * (n - 1) * d * d
<1>1. p \in Nat \ {0} /\ q \in Nat \ {0} /\ A \in Nat \ {0}
      /\ cd * cd \in Nat \ {0} /\ ww \in Nat \ {0}
      /\ d * d \in Nat \ {0} /\ l * l \in Nat \ {0} /\ cn * cn \in Nat \ {0}
  BY ProductPos
<1>2. room \in Nat \ {0} /\ small \in Nat \ {0}
  <2>1. cn * cn * top \in Nat \ {0}
    BY <1>1, ProductPos
  <2>2. cn * cn * top * top \in Nat \ {0}
    BY <2>1, ProductPos
  <2> QED BY <1>1, <2>2, ProductPos
<1>3. n - 1 \in Nat \ {0}
  <2>1. cd * cd * (n - 1) \in Int
    BY <1>1, ProductInt
  <2>2. n - 1 # 0
    <3>1. cd * cd * 0 = 0
      BY <1>1
    <3> QED BY <1>2, <3>1
  <2> QED BY <2>2
<1>4. big \in Nat \ {0}
  <2>1. n * (n - 1) \in Nat \ {0}
    BY <1>3, ProductPos
  <2>2. n * (n - 1) * d \in Nat \ {0}
    BY <2>1, ProductPos
  <2> QED BY <2>2, ProductPos
<1>5. w * w * n * (n - 1) * d * d = ww * big
  OBVIOUS
<1>6. big <= ww * big
  <2>1. 1 <= ww
    BY <1>1
  <2> HIDE DEF ww, big
  <2>2. 1 * big <= ww * big
    BY <1>1, <1>4, <2>1, Monotone
  <2> QED BY <1>4, <2>2
<1>7. CASE v <= 0
  <2>1. l * l * v <= 0
    <3>1. l * l * v <= l * l * 0
      BY <1>1, <1>7, Monotone
    <3> QED BY <1>1, <3>1
  <2>2. l * l * v \in Int /\ ww * big \in Int
    BY <1>1, <1>4, ProductInt
  <2> HIDE DEF ww, big
  <2> QED BY <1>4, <1>5, <1>6, <2>1, <2>2
<1>8. CASE v > 0
  <2>1. p * p <= (2 * q) * (2 * q)
    <3> HIDE DEF p, q
    <3>1. p <= 2 * q
      BY DEF p, q
    <3>2. p * p <= (2 * q) * p /\ {p * p, (2 * q) * p} \subseteq Int
      BY <1>1, <3>1, Monotone
    <3>3. (2 * q) * p <= (2 * q) * (2 * q) /\ (2 * q) * (2 * q) \in Int
      BY <1>1, <3>1, Monotone
    <3> QED BY <3>2, <3>3
  <2>2. (p * p) * (4 * v) <= ((2 * q) * (2 * q)) * (A * A)
    <3> HIDE DEF p, q, A
    <3>1. p * p \in Nat /\ (2 * q) * (2 * q) \in Nat /\ 4 * v \in Nat
          /\ A * A \in Nat
      BY <1>1, <1>8, Product
    <3>2. (p * p) * (4 * v) <= ((2 * q) * (2 * q)) * (4 * v)
      BY <2>1, <3>1, Monotone
    <3>3. 4 * v <= A * A
      BY DEF A
    <3>4. ((2 * q) * (2 * q)) * (4 * v) <= ((2 * q) * (2 * q)) * (A * A)
      BY <3>1, <3>3, Monotone
    <3>5. {(p * p) * (4 * v), ((2 * q) * (2 * q)) * (4 * v),
          ((2 * q) * (2 * q)) * (A * A)} \subseteq Int
      BY <3>1, ProductInt
    <3> QED BY <3>2, <3>4, <3>5
  <2>3. (p * p) * (4 * v) = 4 * ((cd * cd) * (l * l * v))
    OBVIOUS
  <2>4. ((2 * q) * (2 * q)) * (A * A) = 4 * (room * small)
    OBVIOUS
  <2>5. room * small < (cd * cd) * big
    <3>1. room * small < room * (cd * cd * (n - 1))
      <4>1. cd * cd * (n - 1) \in Int /\ small < cd * cd * (n - 1)
        BY <1>1, ProductInt
      <4> HIDE DEF room, small
      <4> QED BY <1>2, <4>1, Monotone
    <3>2. room * (cd * cd * (n - 1)) = (cd * cd) * big
      OBVIOUS
    <3> QED BY <3>1, <3>2
  <2>6. l * l * v \in Int
    BY <1>1, ProductInt
  <2>7. (cd * cd) * (l * l * v) < (cd * cd) * big
    <3> DEFINE a == (cd * cd) * (l * l * v)
               b == room * small
               c == (cd * cd) * big
    <3>1. a \in Int /\ b \in Int /\ c \in Int
      BY <1>1, <1>2, <1>4, <2>6, ProductInt
    <3>2. 4 * a <= 4 * b
      BY <2>2, <2>3, <2>4
    <3>3. b < c
      BY <2>5
    <3> HIDE DEF a, b, c, room, small, big
    <3>4. a < c
      BY <3>1, <3>2, <3>3
    <3> QED BY <3>4 DEF a, c
  <2>8. l * l * v < big
    <3> HIDE DEF big
    <3>1. (l * l * v) * (cd * cd) < big * (cd * cd)
      <4>1. (cd * cd) * (l * l * v) = (l * l * v) * (cd * cd)
            /\ (cd * cd) * big = big * (cd * cd)
        BY <1>1, <1>4, <2>6, Distribute
      <4> QED BY <2>7, <4>1
    <3> QED BY <1>1, <1>4, <2>6, <3>1, Monotone
  <2>9. ww * big \in Int
    BY <1>1, <1>4, ProductInt
  <2> HIDE DEF ww, big
  <2> QED BY <1>4, <1>5, <1>6, <2>6, <2>8, <2>9
<1> QED BY <1>7, <1>8

\* The variance of scores between 0 and Top.
LEMMA VarianceBound ==
  ASSUME Bag, Size(Samples) = N,
         NEW q, q = SumFunction([x \in Samples |-> group[x] * x.score * x.score])
  PROVE  LET total == ScoreSum(Samples)
         IN  /\ N * q - total * total \in Int
             /\ 4 * (N * q - total * total) <= (N * Top) * (N * Top)
<1> DEFINE total == ScoreSum(Samples)
           h == [x \in Samples |-> group[x] * x.score * x.score]
           k == [x \in Samples |-> Top * Points[x]]
<1>1. total \in Nat /\ total = SumFunctionOnSet(Points, Samples) /\ N \in Nat
      /\ Top \in Nat
  BY SumsNat, Constants
<1>2. q = SumFunctionOnSet(h, Samples)
  BY DEF SumFunction
<1>3. \A x \in Samples : h[x] \in Int /\ k[x] \in Int /\ h[x] <= k[x]
  <2>1. TAKE x \in Samples
  <2>2. Points[x] \in Nat /\ x.score \in Nat /\ x.score <= Top
    BY <1>1, PointsType
  <2>3. h[x] = Points[x] * x.score /\ k[x] = Top * Points[x]
    BY DEF Points
  <2>4. Points[x] * x.score <= Points[x] * Top /\ Points[x] * Top = Top * Points[x]
    BY <1>1, <2>2, Monotone, Distribute
  <2>5. Points[x] * x.score \in Int /\ Top * Points[x] \in Int
    BY <1>1, <2>2, ProductInt
  <2> HIDE DEF h, k
  <2> QED BY <2>3, <2>4, <2>5
<1>4. SumFunctionOnSet(h, Samples) <= SumFunctionOnSet(k, Samples)
      /\ SumFunctionOnSet(h, Samples) \in Int
  <2> HIDE DEF h, k
  <2> QED BY <1>3, SamplesFinite, SumLess, SumInt
<1>5. SumFunctionOnSet(k, Samples) = Top * total
  <2>1. \A x \in Samples : Points[x] \in Int
        /\ k[x] = Top * Points[x] + 0 * Points[x]
    <3>1. TAKE x \in Samples
    <3>2. Points[x] \in Nat /\ Top * Points[x] \in Int
      BY <1>1, PointsType, ProductInt
    <3> QED BY <3>2
  <2>2. SumFunctionOnSet(k, Samples)
        = Top * SumFunctionOnSet(Points, Samples)
            + 0 * SumFunctionOnSet(Points, Samples)
    <3>1. Top \in Int /\ 0 \in Int
      BY <1>1
    <3> HIDE DEF k, h
    <3> QED BY <2>1, <3>1, SamplesFinite, SumLinear
  <2>3. Top * total + 0 * total = Top * total
    <3>1. Top * total \in Int
      BY <1>1, ProductInt
    <3> HIDE DEF total
    <3> QED BY <1>1, <3>1
  <2> QED BY <1>1, <2>2, <2>3
<1>6. q \in Int /\ q <= Top * total
  BY <1>2, <1>4, <1>5
<1>7. N * q <= N * (Top * total)
      /\ {N * q, N * (Top * total), total * total} \subseteq Int
  <2>1. Top * total \in Int
    BY <1>1, ProductInt
  <2> HIDE DEF total
  <2> QED BY <1>1, <1>6, <2>1, Monotone, ProductInt
<1> DEFINE A == N * Top
<1>8. A \in Int /\ N * (Top * total) = A * total
  <2> HIDE DEF total
  <2> QED BY <1>1, ProductInt
<1>9. (A - 2 * total) * (A - 2 * total) >= 0
  BY <1>1, <1>8, Square
<1>10. (A - 2 * total) * (A - 2 * total) = A * A - 4 * (A * total - total * total)
  <2> HIDE DEF A, total
  <2> QED BY <1>1, <1>8
<1>11. A * A \in Int /\ A * total \in Int
  BY <1>1, <1>8, ProductInt
<1>12. 4 * (N * q - total * total) <= A * A
  <2> DEFINE a == N * q
             b == total * total
             c == A * total
             e == A * A
             z == (A - 2 * total) * (A - 2 * total)
  <2>1. a <= c /\ a \in Int /\ b \in Int /\ c \in Int /\ e \in Int /\ z >= 0
        /\ z = e - 4 * (c - b)
    BY <1>7, <1>8, <1>9, <1>10, <1>11
  <2> HIDE DEF a, b, c, e, z
  <2>2. 4 * (a - b) <= e
    BY <2>1
  <2> QED BY <2>2 DEF a, b, e
<1> QED BY <1>7, <1>12

\* RELAX_SLATE_STRATIFIED_ADV_CLIP against the steps of the grading.
ClipIsSmall ==
    Clip.num * Clip.num * Top * Top * N < Clip.den * Clip.den * (N - 1)

\* The verifier decides whenever the clip is small enough for the grading (for
\* scores that pass or fail and the clip of 1/2 of the profile: in every group of two or
\* more).  The run's clip of 1/3 satisfies it for six samples with scores in halves.
THEOREM VerifierHolds ==
  ASSUME ClipIsSmall
  PROVE  Spec => []VerifierDecides
<1>1. CreditInv => VerifierDecides
  <2> DEFINE total == ScoreSum(Samples)
             squares == SumFunction([x \in Samples |-> group[x] * x.score * x.score])
             variance == N * squares - total * total
             lost(x, y) == Behaviour(y) - Behaviour(x)
             won(x, y) == (outcome[x] - outcome[y]) \div N
  <2> SUFFICES ASSUME CreditInv, pc
      = "done", NEW x \in Present, NEW y \in Present, x.score > y.score
               PROVE  /\ won(x, y) > 0
                      /\ lost(x, y) > 0 =>
                             lost(x, y) * lost(x, y) * variance
                                 < won(x, y) * won(x, y) * N * (N - 1)
                                       * behaviour.den * behaviour.den
    BY DEF VerifierDecides
  <2>1. Bag /\ Size(Samples) = N /\ behaviour = Earned
        /\ outcome = [z \in Samples |-> N * z.score - ScoreSum(Samples)]
    BY DEF CreditInv
  <2>2. x \in Samples /\ y \in Samples
    BY DEF Present
  <2>3. x.score \in Int /\ y.score \in Int /\ N \in Nat \ {0} /\ total \in Int
    BY <2>1, <2>2, PointsType, Counts, Constants
  <2>4. won(x, y) = x.score - y.score
    <3>1. outcome[x] - outcome[y] = (N * x.score - total) - (N * y.score - total)
      BY <2>1, <2>2
    <3>2. (N * x.score - total) - (N * y.score - total) = N * (x.score - y.score)
      <4> HIDE DEF total
      <4> QED BY <2>3
    <3>3. (N * (x.score - y.score)) \div N = x.score - y.score
      BY <2>3, Divides
    <3> QED BY <3>1, <3>2, <3>3
  <2>5. won(x, y) \in Nat \ {0}
    BY <2>3, <2>4
  <2>6. behaviour.den \in Nat \ {0} /\ behaviour.num \in [Strata -> Int]
    BY <2>1, EarnedType
  <2>7. Behaviour(x) \in Int /\ Behaviour(y) \in Int
    <3>1. \A z \in Samples : Stratum(z) # "other" => Stratum(z) \in Strata
      BY DEF Stratum, Strata
    <3> QED BY <2>2, <2>6, <3>1 DEF Behaviour
  <2>8. lost(x, y) * Clip.den <= 2 * (Clip.num * behaviour.den)
    <3> DEFINE bx == Behaviour(x)
               by == Behaviour(y)
               c == Clip.den
               m == Clip.num * behaviour.den
    <3>1. Abs(bx) * c <= m /\ Abs(by) * c <= m
      BY <2>2, WithinClip
    <3>2. c \in Nat /\ m \in Int /\ bx \in Int /\ by \in Int
      BY <2>6, <2>7, Constants, ProductInt
    <3>3. by <= Abs(by) /\ -bx <= Abs(bx) /\ Abs(bx) \in Int /\ Abs(by) \in Int
      BY <3>2 DEF Abs
    <3> HIDE DEF bx, by, c, m
    <3>4. by * c <= Abs(by) * c /\ (-bx) * c <= Abs(bx) * c
      BY <3>2, <3>3, Monotone
    <3>5. (by - bx) * c = by * c + (-bx) * c
      BY <3>2
    <3>6. {by * c, (-bx) * c, Abs(by) * c, Abs(bx) * c} \subseteq Int
      BY <3>2, <3>3, ProductInt
    <3>7. (by - bx) * c <= 2 * m
      BY <3>1, <3>2, <3>4, <3>5, <3>6
    <3> QED BY <3>7 DEF bx, by, c, m
  <2>9. variance \in Int /\ 4 * variance <= (N * Top) * (N * Top)
    BY <2>1, VarianceBound
  <2>10. lost(x, y) > 0 => lost(x, y) \in Nat \ {0}
    BY <2>7
  <2> HIDE DEF lost, won, variance
  <2> QED BY <2>3, <2>5, <2>6, <2>8, <2>9, <2>10, Constants,
      Outweighs DEF ClipIsSmall
<1> QED BY <1>1, CreditInvHolds, PTL

=============================================================================
