-------------------------------- MODULE SumsProofs --------------------------------
(* What Total is, for any finite set.                                          *)
EXTENDS Sums, FiniteSetTheorems, WellFoundedInduction, TLAPS

\* Induction over a finite set, for a property given as a set of subsets.
LEMMA SubsetInduction ==
    ASSUME NEW S, IsFiniteSet(S), NEW Good, {} \in Good,
           \A U \in Good, x \in S : U \subseteq S /\ x \notin U => U \cup {x} \in Good
    PROVE  S \in Good
<1> SUFFICES ASSUME S \notin Good PROVE FALSE
  OBVIOUS
<1> DEFINE bad == (SUBSET S) \ Good
<1>1. S \in bad /\ bad \subseteq FiniteSubsetsOf(S)
  BY FS_FiniteSubsetsOfFinite
<1>2. PICK U \in bad : \A V \in bad : <<V, U>> \notin StrictSubsetOrdering(S)
  BY <1>1, FS_StrictSubsetOrderingWellFounded, WFMin
<1>3. PICK x \in U : TRUE
  OBVIOUS
<1> DEFINE V == U \ {x}
<1>4. V \in SUBSET S /\ V \cup {x} = U /\ x \in S /\ x \notin V
  OBVIOUS
<1>5. <<V, U>> \in StrictSubsetOrdering(S)
  BY <1>4 DEF StrictSubsetOrdering
<1>6. V \in Good
  BY <1>2, <1>4, <1>5
<1> QED
  BY <1>4, <1>6

LEMMA UnitsFinite ==
    ASSUME NEW S, IsFiniteSet(S), NEW f, \A x \in S : f[x] \in Nat
    PROVE  IsFiniteSet(Units(f, S)) /\ Total(f, S) \in Nat
<1> DEFINE part == [x \in S |-> {x} \X (1..f[x])]
           parts == {{x} \X (1..f[x]) : x \in S}
<1>1. \A x \in S : IsFiniteSet({x} \X (1..f[x]))
  <2> SUFFICES ASSUME NEW x \in S PROVE IsFiniteSet({x} \X (1..f[x]))
    OBVIOUS
  <2>1. IsFiniteSet({x})
    BY FS_Singleton
  <2>2. IsFiniteSet(1..f[x])
    BY FS_Interval
  <2> QED
    BY <2>1, <2>2, FS_Product
<1>2. part \in Surjection(S, parts)
  BY DEF Surjection
<1>3. IsFiniteSet(parts)
  BY <1>2, FS_Surjection
<1>4. \A T \in parts : IsFiniteSet(T)
  BY <1>1
<1> HIDE DEF parts
<1>5. IsFiniteSet(UNION parts)
  BY <1>3, <1>4, FS_UNION
<1> QED
  BY <1>5, FS_CardinalityType DEF Units, Total, parts

LEMMA TotalEmpty == ASSUME NEW f PROVE Total(f, {}) = 0
<1>1. Units(f, {}) = {}
  BY DEF Units
<1> QED
  BY <1>1, FS_EmptySet DEF Total

\* One more element adds its value.
LEMMA TotalOne ==
    ASSUME NEW S, IsFiniteSet(S), NEW x, x \notin S, NEW f, \A y \in S \cup {x} : f[y] \in Nat
    PROVE  Total(f, S \cup {x}) = Total(f, S) + f[x]
<1> DEFINE A == Units(f, S)
           B == {x} \X (1..f[x])
<1>1. Units(f, S \cup {x}) = A \cup B /\ A \cap B = {}
  BY DEF Units
<1>2. IsFiniteSet(A) /\ Cardinality(A) \in Nat /\ Cardinality(A) = Total(f, S)
  BY UnitsFinite DEF Total
<1>3. IsFiniteSet(B) /\ Cardinality(B) = f[x]
  <2>1. IsFiniteSet({x}) /\ Cardinality({x}) = 1
    BY FS_Singleton
  <2>2. IsFiniteSet(1..f[x]) /\ Cardinality(1..f[x]) = f[x]
    BY FS_Interval
  <2>3. IsFiniteSet(B) /\ Cardinality(B) = Cardinality({x}) * Cardinality(1..f[x])
    BY <2>1, <2>2, FS_Product
  <2> QED
    BY <2>1, <2>2, <2>3
<1>4. Total(f, S \cup {x}) = Cardinality(A \cup B)
  BY <1>1 DEF Total
<1> HIDE DEF A, B
<1>5. Cardinality(A \cup B) = Cardinality(A) + Cardinality(B) - Cardinality(A \cap B)
  BY <1>2, <1>3, FS_Union
<1>6. Cardinality(A \cap B) = 0
  BY <1>1, FS_EmptySet
<1> QED
  BY <1>2, <1>3, <1>4, <1>5, <1>6

\* Only the values count.
LEMMA TotalSame ==
    ASSUME NEW S, NEW f, NEW g, \A x \in S : f[x] = g[x]
    PROVE  Total(f, S) = Total(g, S)
<1>1. Units(f, S) = Units(g, S)
  BY DEF Units
<1> QED
  BY <1>1 DEF Total

\* Raising one value raises the sum.
LEMMA TotalRaised ==
    ASSUME NEW S, IsFiniteSet(S), NEW f, NEW g, NEW x \in S, NEW n \in Nat,
           \A y \in S : f[y] \in Nat, g[x] = f[x] + n, \A y \in S \ {x} : g[y] = f[y]
    PROVE  Total(g, S) = Total(f, S) + n
<1> DEFINE T == S \ {x}
<1>1. IsFiniteSet(T) /\ x \notin T /\ T \cup {x} = S
  BY FS_RemoveElement
<1> HIDE DEF T
<1>2. \A y \in T \cup {x} : f[y] \in Nat /\ g[y] \in Nat
  BY <1>1
<1>3. Total(f, T) = Total(g, T)
  BY <1>1, TotalSame DEF T
<1>4. Total(f, T) \in Nat
  BY <1>1, <1>2, UnitsFinite
<1>5. /\ Total(f, T \cup {x}) = Total(f, T) + f[x]
      /\ Total(g, T \cup {x}) = Total(g, T) + g[x]
  BY <1>1, <1>2, TotalOne
<1> QED
  BY <1>1, <1>2, <1>3, <1>4, <1>5

\* What is worth nothing does not count.
LEMMA TotalPositive ==
    ASSUME NEW S, NEW f, \A x \in S : f[x] \in Nat
    PROVE  Total(f, S) = Total(f, {x \in S : f[x] > 0})
<1>1. \A x \in S : 1..f[x] # {} => f[x] > 0
  OBVIOUS
<1>2. Units(f, S) = Units(f, {x \in S : f[x] > 0})
  BY <1>1 DEF Units
<1> QED
  BY <1>2 DEF Total

\* name gives every element of S a name of its own in T, and T has no others.
Names(name, S, T) ==
    T = {name[x] : x \in S} /\ \A x, y \in S : name[x] = name[y] => x = y

\* A sum over the images of a set under an injection is a sum over the set.
LEMMA TotalRenamed ==
    ASSUME NEW S, IsFiniteSet(S), NEW T, NEW name, Names(name, S, T), NEW f,
           NEW g, \A x \in S : g[x] \in Nat /\ f[name[x]] = g[x]
    PROVE  /\ IsFiniteSet(T) /\ Cardinality(T) = Cardinality(S)
           /\ Total(f, T) = Total(g, S)
<1> USE DEF Names
<1>1. IsFiniteSet(T) /\ Cardinality(T) = Cardinality(S)
  <2> DEFINE n == [x \in S |-> name[x]]
  <2>1. n \in Bijection(S, T)
    BY DEF Bijection, Injection, IsInjective, Surjection
  <2> HIDE DEF n
  <2> QED
    BY <2>1, FS_Bijection DEF ExistsBijection
<1>2. Total(f, T) = Total(g, S)
  <2> DEFINE A == Units(g, S)
             B == Units(f, T)
             n == [u \in A |-> <<name[u[1]], u[2]>>]
  <2>1. /\ \A u : u \in A <=> \E x \in S : \E i \in 1..g[x] : u = <<x, i>>
        /\ \A u : u \in B <=> \E x \in S : \E i \in 1..g[x] : u = <<name[x], i>>
    BY DEF Units
  <2>2. IsFiniteSet(A)
    BY UnitsFinite
  <2> HIDE DEF A, B
  <2>3. \A u \in A : n[u] \in B
    BY <2>1
  <2>4. ASSUME NEW u \in B PROVE \E v \in A : n[v] = u
    <3>1. PICK x \in S : \E i \in 1..g[x] : u = <<name[x], i>>
      BY <2>1
    <3>2. PICK i \in 1..g[x] : u = <<name[x], i>>
      BY <3>1
    <3>3. <<x, i>> \in A
      BY <2>1
    <3>4. n[<<x, i>>] = u
      BY <3>2, <3>3
    <3> QED
      BY <3>3, <3>4
  <2>5. \A u, v \in A : n[u] = n[v] => u = v
    <3> SUFFICES ASSUME NEW u \in A, NEW v \in A, n[u] = n[v] PROVE u = v
      OBVIOUS
    <3>1. PICK x \in S : \E i \in 1..g[x] : u = <<x, i>>
      BY <2>1
    <3>2. PICK y \in S : \E i \in 1..g[y] : v = <<y, i>>
      BY <2>1
    <3>3. u = <<x, u[2]>> /\ v = <<y, v[2]>>
      BY <3>1, <3>2
    <3>4. name[x] = name[y] /\ u[2] = v[2]
      BY <3>3
    <3> QED
      BY <3>3, <3>4
  <2>6. n \in Bijection(A, B)
    BY <2>3, <2>4, <2>5 DEF Bijection, Injection, IsInjective, Surjection
  <2> HIDE DEF n
  <2>7. Cardinality(A) = Cardinality(B)
    BY <2>2, <2>6, FS_Bijection DEF ExistsBijection
  <2> QED
    BY <2>7 DEF Total, A, B
<1> QED
  BY <1>1, <1>2

\* j times x and k times y differ by at most m.
Near(j, x, k, y, m) == j * x - k * y <= m /\ k * y - j * x <= m

\* When that holds of two values for each element, it holds of their sums with m
\* for each element.
LEMMA TotalNear ==
    ASSUME NEW S, IsFiniteSet(S), NEW f, NEW g, \A x \in S : f[x] \in Nat /\ g[x] \in Nat,
           NEW j \in Nat, NEW k \in Nat, NEW m \in Nat,
           \A x \in S : Near(j, f[x], k, g[x], m)
    PROVE  Near(j, Total(f, S), k, Total(g, S), m * Cardinality(S))
<1> USE DEF Near
<1> DEFINE Good == {U \in SUBSET S :
                       Near(j, Total(f, U), k, Total(g, U), m * Cardinality(U))}
<1>1. {} \in Good
  <2>1. Total(f, {}) = 0 /\ Total(g, {}) = 0 /\ Cardinality({}) = 0
    BY TotalEmpty, FS_EmptySet
  <2> QED
    BY <2>1
<1>2. ASSUME NEW U \in Good, NEW x \in S, x \notin U PROVE U \cup {x} \in Good
  <2>1. IsFiniteSet(U) /\ U \subseteq S
    BY FS_Subset
  <2>2. f[x] \in Nat /\ g[x] \in Nat
    OBVIOUS
  <2>3. Total(f, U) \in Nat /\ Total(g, U) \in Nat /\ Cardinality(U) \in Nat
    BY <2>1, UnitsFinite, FS_CardinalityType
  <2>4. /\ Total(f, U \cup {x}) = Total(f, U) + f[x]
        /\ Total(g, U \cup {x}) = Total(g, U) + g[x]
    BY <2>1, <1>2, TotalOne
  <2>5. Cardinality(U \cup {x}) = Cardinality(U) + 1
    BY <2>1, <1>2, FS_AddElement
  <2>6. /\ j * (Total(f, U) + f[x]) = j * Total(f, U) + j * f[x]
        /\ k * (Total(g, U) + g[x]) = k * Total(g, U) + k * g[x]
        /\ m * (Cardinality(U) + 1) = m * Cardinality(U) + m
    BY <2>2, <2>3
  <2>7. /\ j * Total(f, U) \in Int /\ j * f[x] \in Int /\ k * Total(g, U) \in Int
        /\ k * g[x] \in Int /\ m * Cardinality(U) \in Int
    BY <2>2, <2>3
  <2>8. j * f[x] - k * g[x] <= m /\ k * g[x] - j * f[x] <= m
    OBVIOUS
  <2>9. /\ j * Total(f, U) - k * Total(g, U) <= m * Cardinality(U)
        /\ k * Total(g, U) - j * Total(f, U) <= m * Cardinality(U)
    OBVIOUS
  <2>10. Near(j, Total(f, U \cup {x}), k, Total(g, U \cup {x}), m * Cardinality(U \cup {x}))
    BY <2>4, <2>5, <2>6, <2>7, <2>8, <2>9
  <2> QED
    BY <2>10
<1>3. S \in Good
  BY <1>1, <1>2, SubsetInduction
<1> QED
  BY <1>3
===============================================================================
