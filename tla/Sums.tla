---------------------------------- MODULE Sums ----------------------------------
(***************************************************************************)
(* What adding up the values of a function over a finite set does when some  *)
(* of the values change: SumFunctionOnSet of the community module Functions, *)
(* for the books of LaunchGuardrail and the balances of Unwrap.             *)
(***************************************************************************)
EXTENDS Integers, Functions, FiniteSetTheorems, WellFoundedInduction, TLAPS

Pick(s) == CHOOSE x \in s : TRUE

\* g has the sums of f over the subsets of S.
Sums(g, f, S) ==
    \A s \in SUBSET S : g[s] = IF s = {} THEN 0 ELSE f[Pick(s)] + g[s \ {Pick(s)}]

\* The table that SumFunctionOnSet looks its result up in.
Table(f, S) ==
    CHOOSE g : g = [s \in SUBSET S |-> IF s = {} THEN 0 ELSE f[Pick(s)] + g[s \ {Pick(s)}]]

LEMMA SumIsInTable ==
    ASSUME NEW f, NEW S
    PROVE  SumFunctionOnSet(f, S) = Table(f, S)[S]
BY DEF SumFunctionOnSet, FoldFunctionOnSet, MapThenFoldSet, Table, Pick

\* What holds of the subsets of a finite set unless there is a smallest one of which
\* it does not.
LEMMA Smallest ==
    ASSUME NEW S, IsFiniteSet(S), NEW Bad \in SUBSET (SUBSET S), Bad # {}
    PROVE  \E T \in Bad : \A U \in Bad : U \subseteq T => U = T
<1>1. IsWellFoundedOn(StrictSubsetOrdering(S), SUBSET S)
  BY FS_StrictSubsetOrderingWellFounded, FS_FiniteSubsetsOfFinite
<1>2. \E T \in Bad : \A U \in Bad : <<U, T>> \notin StrictSubsetOrdering(S)
  BY <1>1, WFMin
<1>3. QED
  BY <1>2 DEF StrictSubsetOrdering

LEMMA Picked ==
    ASSUME NEW T, T # {}
    PROVE  Pick(T) \in T
BY DEF Pick

\* Two tables agree where both are filled in.
LEMMA SumsUnique ==
    ASSUME NEW f, NEW S, IsFiniteSet(S), NEW T \in SUBSET S, NEW g, NEW h,
           Sums(g, f, T), Sums(h, f, T)
    PROVE  \A s \in SUBSET T : g[s] = h[s]
<1> DEFINE Bad == {s \in SUBSET T : g[s] # h[s]}
<1> SUFFICES ASSUME Bad # {} PROVE FALSE
  OBVIOUS
<1>1. PICK s \in Bad : \A u \in Bad : u \subseteq s => u = s
  <2>1. Bad \in SUBSET (SUBSET S)
    OBVIOUS
  <2> HIDE DEF Bad
  <2>2. QED
    BY <2>1, Smallest
<1>2. CASE s = {}
  BY <1>1, <1>2 DEF Sums
<1>3. CASE s # {}
  <2>1. Pick(s) \in s
    BY <1>3, Picked
  <2>2. g[s \ {Pick(s)}] = h[s \ {Pick(s)}]
    BY <1>1, <2>1
  <2>3. QED
    BY <1>1, <1>3, <2>2 DEF Sums
<1>4. QED
  BY <1>2, <1>3

\* Every finite set has its table.
LEMMA SumsExist ==
    ASSUME NEW f, NEW S, IsFiniteSet(S)
    PROVE  \E g : Sums(g, f, S)
<1> DEFINE Bad == {T \in SUBSET S : ~\E g : Sums(g, f, T)}
<1> SUFFICES ASSUME Bad # {} PROVE FALSE
  OBVIOUS
<1>1. PICK T \in Bad : \A U \in Bad : U \subseteq T => U = T
  <2>1. Bad \in SUBSET (SUBSET S)
    OBVIOUS
  <2> HIDE DEF Bad
  <2>2. QED
    BY <2>1, Smallest
<1> DEFINE of(U) == CHOOSE g : Sums(g, f, U)
           value(U) == IF U = {} THEN 0 ELSE f[Pick(U)] + of(U \ {Pick(U)})[U \ {Pick(U)}]
           t == [U \in SUBSET T |-> value(U)]
<1>2. \A U \in SUBSET T : U # T => Sums(of(U), f, U)
  BY <1>1
<1>3. ASSUME NEW U \in SUBSET T, U # T
      PROVE  of(U)[U] = value(U)
  <2> HIDE DEF of
  <2>1. CASE U = {}
    <3>1. Sums(of(U), f, U)
      BY <1>2, <1>3
    <3>2. QED
      BY <2>1, <3>1 DEF Sums
  <2>2. CASE U # {}
    <3> DEFINE V == U \ {Pick(U)}
    <3>1. Pick(U) \in U /\ V \in SUBSET U /\ V \in SUBSET T /\ V # T
      BY <1>3, <2>2, Picked
    <3>2. Sums(of(U), f, U) /\ Sums(of(V), f, V)
      BY <1>2, <1>3, <3>1
    <3>3. Sums(of(U), f, V)
      BY <3>1, <3>2 DEF Sums
    <3>4. V \in SUBSET S /\ V \in SUBSET V
      BY <3>1
    <3>5. of(U)[V] = of(V)[V]
      BY <3>2, <3>3, <3>4, SumsUnique
    <3>6. of(U)[U] = f[Pick(U)] + of(U)[V]
      BY <2>2, <3>2 DEF Sums
    <3>7. QED
      BY <2>2, <3>5, <3>6
  <2>3. QED
    BY <2>1, <2>2
<1>4. Sums(t, f, T)
  <2> SUFFICES ASSUME NEW U \in SUBSET T
               PROVE  t[U] = IF U = {} THEN 0 ELSE f[Pick(U)] + t[U \ {Pick(U)}]
    BY DEF Sums
  <2>1. CASE U = {}
    BY <2>1
  <2>2. CASE U # {}
    <3> DEFINE V == U \ {Pick(U)}
    <3>1. Pick(U) \in U /\ V \in SUBSET T /\ V # T
      BY <2>2, Picked
    <3>2. t[V] = of(V)[V]
      BY <1>3, <3>1
    <3>3. QED
      BY <2>2, <3>2
  <2>3. QED
    BY <2>1, <2>2
<1>5. QED
  BY <1>4

LEMMA TableSums ==
    ASSUME NEW f, NEW S, IsFiniteSet(S)
    PROVE  Sums(Table(f, S), f, S)
<1> DEFINE Step(g) == [s \in SUBSET S |-> IF s = {} THEN 0 ELSE f[Pick(s)] + g[s \ {Pick(s)}]]
<1>1. PICK g : Sums(g, f, S)
  BY SumsExist
<1>2. [s \in SUBSET S |-> g[s]] = Step([s \in SUBSET S |-> g[s]])
  <2>1. \A s \in SUBSET S : s # {} => s \ {Pick(s)} \in SUBSET S
    OBVIOUS
  <2>2. QED
    BY <1>1, <2>1 DEF Sums
<1>3. Table(f, S) = Step(Table(f, S))
  BY <1>2 DEF Table
<1>4. QED
  BY <1>3 DEF Sums

-------------------------------------------------------------------------------
(* What the model needs of sums *)

LEMMA SumEquation ==
    ASSUME NEW f, NEW S, IsFiniteSet(S)
    PROVE  \E g : Sums(g, f, S) /\ SumFunctionOnSet(f, S) = g[S]
BY TableSums, SumIsInTable

LEMMA SumEmpty ==
    ASSUME NEW g, NEW f, NEW S, Sums(g, f, S)
    PROVE  g[{}] = 0
<1>1. {} \in SUBSET S
  OBVIOUS
<1>2. QED
  BY <1>1 DEF Sums

\* A sum is of the type of what is added up.
LEMMA SumType ==
    ASSUME NEW Type, 0 \in Type, \A x, y \in Type : x + y \in Type,
           NEW f, NEW S, IsFiniteSet(S), \A x \in S : f[x] \in Type
    PROVE  SumFunctionOnSet(f, S) \in Type
<1>1. PICK g : Sums(g, f, S) /\ SumFunctionOnSet(f, S) = g[S]
  BY SumEquation
<1> DEFINE Bad == {s \in SUBSET S : g[s] \notin Type}
<1> SUFFICES ASSUME Bad # {} PROVE FALSE
  BY <1>1
<1>2. PICK s \in Bad : \A u \in Bad : u \subseteq s => u = s
  <2>1. Bad \in SUBSET (SUBSET S)
    OBVIOUS
  <2> HIDE DEF Bad
  <2>2. QED
    BY <2>1, Smallest
<1>3. s # {}
  BY <1>1, <1>2, SumEmpty
<1>4. Pick(s) \in s
  BY <1>3, Picked
<1>5. g[s \ {Pick(s)}] \in Type
  BY <1>2, <1>4
<1>6. QED
  BY <1>1, <1>2, <1>3, <1>4, <1>5 DEF Sums

LEMMA SumInt ==
    ASSUME NEW f, NEW S, IsFiniteSet(S), \A x \in S : f[x] \in Int
    PROVE  SumFunctionOnSet(f, S) \in Int
<1>1. 0 \in Int /\ \A x, y \in Int : x + y \in Int
  OBVIOUS
<1>2. QED
  BY <1>1, SumType

LEMMA SumNat ==
    ASSUME NEW f, NEW S, IsFiniteSet(S), \A x \in S : f[x] \in Nat
    PROVE  SumFunctionOnSet(f, S) \in Nat
<1>1. 0 \in Nat /\ \A x, y \in Nat : x + y \in Nat
  OBVIOUS
<1>2. QED
  BY <1>1, SumType

\* A sum of nothing but zeros is zero.
LEMMA SumZero ==
    ASSUME NEW f, NEW S, IsFiniteSet(S), \A x \in S : f[x] = 0
    PROVE  SumFunctionOnSet(f, S) = 0
<1>1. 0 \in {0} /\ \A x, y \in {0} : x + y \in {0}
  OBVIOUS
<1>2. \A x \in S : f[x] \in {0}
  OBVIOUS
<1>3. SumFunctionOnSet(f, S) \in {0}
  BY <1>1, <1>2, SumType
<1>4. QED
  BY <1>3

\* Only the values on the set count.
LEMMA SumSame ==
    ASSUME NEW f, NEW g, NEW S, IsFiniteSet(S), \A x \in S : g[x] = f[x]
    PROVE  SumFunctionOnSet(g, S) = SumFunctionOnSet(f, S)
<1>1. PICK h : Sums(h, f, S) /\ SumFunctionOnSet(f, S) = h[S]
  BY SumEquation
<1>2. PICK k : Sums(k, g, S) /\ SumFunctionOnSet(g, S) = k[S]
  BY SumEquation
<1>3. Sums(k, f, S)
  BY <1>2, Picked DEF Sums
<1>4. k[S] = h[S]
  BY <1>1, <1>3, SumsUnique, S \in SUBSET S
<1>5. QED
  BY <1>1, <1>2, <1>4

\* A sum changes by what one value changes by.
LEMMA SumChanges ==
    ASSUME NEW f, NEW g, NEW S, IsFiniteSet(S), NEW a \in S, NEW n \in Int,
           \A x \in S : f[x] \in Int,
           \A x \in S \ {a} : g[x] = f[x],
           g[a] = f[a] + n
    PROVE  SumFunctionOnSet(g, S) = SumFunctionOnSet(f, S) + n
<1>1. PICK h : Sums(h, f, S) /\ SumFunctionOnSet(f, S) = h[S]
  BY SumEquation
<1>2. PICK k : Sums(k, g, S) /\ SumFunctionOnSet(g, S) = k[S]
  BY SumEquation
<1>3. \A T \in SUBSET S : SumFunctionOnSet(f, T) \in Int /\ h[T] = SumFunctionOnSet(f, T)
  <2> SUFFICES ASSUME NEW T \in SUBSET S
               PROVE  SumFunctionOnSet(f, T) \in Int /\ h[T] = SumFunctionOnSet(f, T)
    OBVIOUS
  <2>1. IsFiniteSet(T)
    BY FS_Subset
  <2>2. PICK j : Sums(j, f, T) /\ SumFunctionOnSet(f, T) = j[T]
    BY <2>1, SumEquation
  <2>3. Sums(h, f, T)
    BY <1>1 DEF Sums
  <2>4. h[T] = j[T]
    BY <2>2, <2>3, SumsUnique, T \in SUBSET T
  <2>5. QED
    BY <2>1, <2>2, <2>4, SumInt
<1> DEFINE Bad == {s \in SUBSET S : k[s] # h[s] + (IF a \in s THEN n ELSE 0)}
<1> SUFFICES ASSUME Bad # {} PROVE FALSE
  <2>1. k[S] = h[S] + n
    OBVIOUS
  <2>2. QED
    BY <1>1, <1>2, <2>1
<1>4. PICK s \in Bad : \A u \in Bad : u \subseteq s => u = s
  <2>1. Bad \in SUBSET (SUBSET S)
    OBVIOUS
  <2> HIDE DEF Bad
  <2>2. QED
    BY <2>1, Smallest
<1>5. s # {}
  <2>1. h[{}] = 0 /\ k[{}] = 0
    BY <1>1, <1>2, SumEmpty
  <2>2. ASSUME s = {} PROVE FALSE
    <3>1. a \notin s /\ k[s] = 0 /\ h[s] = 0
      BY <2>1, <2>2
    <3>2. k[s] # h[s] + (IF a \in s THEN n ELSE 0)
      BY <1>4
    <3>3. QED
      BY <3>1, <3>2
  <2>3. QED
    BY <2>2
<1> DEFINE x == Pick(s)
           u == s \ {x}
<1>6. x \in s /\ x \in S /\ u \in SUBSET S /\ u # s
  BY <1>4, <1>5, Picked
<1> HIDE DEF x
<1>7. k[u] = h[u] + (IF a \in u THEN n ELSE 0) /\ h[u] \in Int
  BY <1>3, <1>4, <1>6
<1>8. k[s] = g[x] + k[u] /\ h[s] = f[x] + h[u]
  BY <1>1, <1>2, <1>4, <1>5 DEF Sums, x
<1>9. k[s] # h[s] + (IF a \in s THEN n ELSE 0)
  BY <1>4
<1>10. CASE x = a
  <2>1. a \in s /\ a \notin u
    BY <1>6, <1>10
  <2>2. f[x] \in Int
    BY <1>6
  <2>3. QED
    BY <1>7, <1>8, <1>9, <1>10, <2>1, <2>2
<1>11. CASE x # a
  <2>1. a \in s <=> a \in u
    BY <1>11
  <2>2. f[x] \in Int /\ g[x] = f[x]
    BY <1>6, <1>11
  <2>3. QED
    BY <1>7, <1>8, <1>9, <2>1, <2>2
<1>12. QED
  BY <1>10, <1>11

-------------------------------------------------------------------------------
(* Sums over parts of a set *)

LEMMA SumOfNone ==
    ASSUME NEW f
    PROVE  SumFunctionOnSet(f, {}) = 0
<1>1. IsFiniteSet({})
  BY FS_EmptySet
<1>2. PICK g : Sums(g, f, {}) /\ SumFunctionOnSet(f, {}) = g[{}]
  BY <1>1, SumEquation
<1>3. QED
  BY <1>2, SumEmpty

LEMMA SumPicked ==
    ASSUME NEW f, NEW T, IsFiniteSet(T), T # {}
    PROVE  SumFunctionOnSet(f, T) = f[Pick(T)] + SumFunctionOnSet(f, T \ {Pick(T)})
<1> DEFINE U == T \ {Pick(T)}
<1>1. IsFiniteSet(U) /\ U \in SUBSET T /\ U \in SUBSET U /\ T \in SUBSET T
  BY FS_Subset
<1>2. PICK g : Sums(g, f, T) /\ SumFunctionOnSet(f, T) = g[T]
  BY SumEquation
<1>3. PICK h : Sums(h, f, U) /\ SumFunctionOnSet(f, U) = h[U]
  BY <1>1, SumEquation
<1>4. Sums(g, f, U)
  BY <1>1, <1>2 DEF Sums
<1>5. g[U] = h[U]
  BY <1>1, <1>3, <1>4, SumsUnique
<1>6. g[T] = f[Pick(T)] + g[U]
  BY <1>1, <1>2 DEF Sums
<1>7. QED
  BY <1>2, <1>3, <1>5, <1>6

\* Any element may be taken out first, not only the one that is picked.
LEMMA SumWithout ==
    ASSUME NEW f, NEW S, IsFiniteSet(S), \A x \in S : f[x] \in Int, NEW a \in S
    PROVE  SumFunctionOnSet(f, S) = f[a] + SumFunctionOnSet(f, S \ {a})
<1> DEFINE sum(T) == SumFunctionOnSet(f, T)
           Bad == {T \in SUBSET S : \E x \in T : sum(T) # f[x] + sum(T \ {x})}
<1>1. \A T \in SUBSET S : IsFiniteSet(T) /\ sum(T) \in Int
  <2> SUFFICES ASSUME NEW T \in SUBSET S
               PROVE  IsFiniteSet(T) /\ sum(T) \in Int
    OBVIOUS
  <2>1. IsFiniteSet(T)
    BY FS_Subset
  <2>2. QED
    BY <2>1, SumInt
<1>2. \A T \in SUBSET S : T # {} => sum(T) = f[Pick(T)] + sum(T \ {Pick(T)})
  BY <1>1, SumPicked
<1> HIDE DEF sum
<1>3. Bad = {}
  <2> SUFFICES ASSUME Bad # {} PROVE FALSE
    OBVIOUS
  <2>1. PICK T \in Bad : \A U \in Bad : U \subseteq T => U = T
    <3>1. Bad \in SUBSET (SUBSET S)
      OBVIOUS
    <3> HIDE DEF Bad
    <3>2. QED
      BY <3>1, Smallest
  <2>2. PICK x \in T : sum(T) # f[x] + sum(T \ {x})
    BY <2>1
  <2>3. PICK p \in T : p = Pick(T)
    BY <2>2, Picked
  <2>4. sum(T) = f[p] + sum(T \ {p})
    BY <1>2, <2>1, <2>3
  <2>5. p # x
    BY <2>2, <2>4
  <2> DEFINE rest == (T \ {p}) \ {x}
  <2>6. rest = (T \ {x}) \ {p} /\ rest \in SUBSET S
    BY <2>1
  <2>7. sum(T \ {p}) = f[x] + sum(rest)
    <3>1. T \ {p} \in SUBSET S /\ T \ {p} # T /\ x \in T \ {p}
      BY <2>1, <2>5
    <3>2. T \ {p} \notin Bad
      BY <2>1, <3>1
    <3> HIDE DEF rest
    <3>3. QED
      BY <3>1, <3>2 DEF rest
  <2>8. sum(T \ {x}) = f[p] + sum(rest)
    BY <2>1, <2>5, <2>6
  <2>9. f[x] \in Int /\ f[p] \in Int /\ sum(rest) \in Int
    BY <1>1, <2>1, <2>6
  <2> HIDE DEF rest
  <2>10. QED
    BY <2>2, <2>4, <2>7, <2>8, <2>9
<1>4. QED
  BY <1>3 DEF sum

\* A set may be added up in two parts.
LEMMA SumOfParts ==
    ASSUME NEW f, NEW S, IsFiniteSet(S), \A x \in S : f[x] \in Int, NEW A \in SUBSET S
    PROVE  SumFunctionOnSet(f, S) = SumFunctionOnSet(f, A) + SumFunctionOnSet(f, S \ A)
<1> DEFINE sum(T) == SumFunctionOnSet(f, T)
           Bad == {T \in SUBSET S : sum(T) # sum(T \cap A) + sum(T \ A)}
<1>1. \A T \in SUBSET S : sum(T) \in Int
  <2> SUFFICES ASSUME NEW T \in SUBSET S
               PROVE  sum(T) \in Int
    OBVIOUS
  <2>1. IsFiniteSet(T)
    BY FS_Subset
  <2>2. QED
    BY <2>1, SumInt
<1>2. \A T \in SUBSET S : \A x \in T : sum(T) = f[x] + sum(T \ {x})
  <2> SUFFICES ASSUME NEW T \in SUBSET S, NEW x \in T
               PROVE  sum(T) = f[x] + sum(T \ {x})
    OBVIOUS
  <2>1. IsFiniteSet(T)
    BY FS_Subset
  <2>2. QED
    BY <2>1, SumWithout
<1>3. sum({}) = 0
  BY SumOfNone
<1> HIDE DEF sum
<1>4. Bad = {}
  <2> SUFFICES ASSUME Bad # {} PROVE FALSE
    OBVIOUS
  <2>1. PICK T \in Bad : \A U \in Bad : U \subseteq T => U = T
    <3>1. Bad \in SUBSET (SUBSET S)
      OBVIOUS
    <3> HIDE DEF Bad
    <3>2. QED
      BY <3>1, Smallest
  <2>2. T # {}
    <3>1. {} \cap A = {} /\ {} \ A = {}
      OBVIOUS
    <3>2. sum({} \cap A) + sum({} \ A) = 0
      BY <1>3, <3>1
    <3>3. sum(T) # sum(T \cap A) + sum(T \ A)
      BY <2>1
    <3>4. QED
      BY <1>3, <3>2, <3>3
  <2>3. PICK x \in T : TRUE
    BY <2>2
  <2>4. sum(T \ {x}) = sum((T \ {x}) \cap A) + sum((T \ {x}) \ A)
    BY <2>1
  <2>5. sum(T) = f[x] + sum(T \ {x})
    BY <1>2, <2>1
  <2>6. /\ f[x] \in Int /\ sum((T \ {x}) \cap A) \in Int /\ sum((T \ {x}) \ A) \in Int
        /\ T \cap A \in SUBSET S /\ T \ A \in SUBSET S
    BY <1>1, <2>1
  <2>whole. sum(T) # sum(T \cap A) + sum(T \ A)
    BY <2>1
  <2>7. CASE x \in A
    <3>1. (T \ {x}) \cap A = (T \cap A) \ {x} /\ (T \ {x}) \ A = T \ A
      BY <2>7
    <3>2. sum(T \cap A) = f[x] + sum((T \cap A) \ {x})
      BY <1>2, <2>6, <2>7
    <3>3. sum(T \ {x}) = sum((T \cap A) \ {x}) + sum(T \ A)
      BY <2>4, <3>1
    <3>4. sum((T \cap A) \ {x}) \in Int /\ sum(T \ A) \in Int /\ f[x] \in Int
      BY <2>6, <3>1
    <3>5. QED
      BY <2>5, <2>whole, <3>2, <3>3, <3>4
  <2>8. CASE x \notin A
    <3>1. (T \ {x}) \ A = (T \ A) \ {x} /\ (T \ {x}) \cap A = T \cap A
      BY <2>8
    <3>2. sum(T \ A) = f[x] + sum((T \ A) \ {x})
      BY <1>2, <2>6, <2>8
    <3>3. sum(T \ {x}) = sum(T \cap A) + sum((T \ A) \ {x})
      BY <2>4, <3>1
    <3>4. sum(T \cap A) \in Int /\ sum((T \ A) \ {x}) \in Int /\ f[x] \in Int
      BY <2>6, <3>1
    <3>5. QED
      BY <2>5, <2>whole, <3>2, <3>3, <3>4
  <2>9. QED
    BY <2>7, <2>8
<1>5. sum(S) = sum(S \cap A) + sum(S \ A) /\ S \cap A = A
  BY <1>4
<1>6. QED
  BY <1>5 DEF sum

\* Of natural numbers, a part adds up to no more than the whole.
LEMMA SumOfPart ==
    ASSUME NEW f, NEW S, IsFiniteSet(S), \A x \in S : f[x] \in Nat, NEW A \in SUBSET S
    PROVE  /\ SumFunctionOnSet(f, A) \in Nat
           /\ SumFunctionOnSet(f, A) <= SumFunctionOnSet(f, S)
<1>1. IsFiniteSet(A) /\ IsFiniteSet(S \ A)
  BY FS_Subset
<1>2. SumFunctionOnSet(f, A) \in Nat /\ SumFunctionOnSet(f, S \ A) \in Nat
  BY <1>1, SumNat
<1>3. SumFunctionOnSet(f, S) = SumFunctionOnSet(f, A) + SumFunctionOnSet(f, S \ A)
  BY SumOfParts
<1>4. QED
  BY <1>2, <1>3
================================================================================
