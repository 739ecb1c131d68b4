------------------------------ MODULE SumLaws ------------------------------
(***************************************************************************)
(* What the proofs of this project need to know of sums over the rows of a *)
(* table: stock reserved by orders, points left in lots, quantities of the *)
(* lines of a requisition.  The models write them with MapThenSumSet,      *)
(* whose value is a recursive function chosen for each set; the lemmas get *)
(* at it by induction over the subsets of a finite set, which is stated    *)
(* for a set G of subsets and not for a predicate.                         *)
(***************************************************************************)
EXTENDS Integers, FiniteSets, FiniteSetsExt, FiniteSetTheorems,
        WellFoundedInduction, TLAPS

(* Induction over the subsets of a finite set. *)
LEMMA SubsetInduction ==
    ASSUME NEW S, IsFiniteSet(S), NEW G,
           \A T \in SUBSET S : (\A U \in SUBSET T : U # T => U \in G) => T \in G
    PROVE  SUBSET S \subseteq G
<1> DEFINE R == StrictSubsetOrdering(S)
           Bad == (SUBSET S) \ G
<1>1. IsWellFoundedOn(R, SUBSET S)
  BY FS_StrictSubsetOrderingWellFounded, FS_FiniteSubsetsOfFinite
<1>2. SUFFICES ASSUME Bad # {}
               PROVE  FALSE
  OBVIOUS
<1>3. PICK T \in Bad : \A U \in Bad : <<U, T>> \notin R
  <2> HIDE DEF R, Bad
  <2>1. Bad \subseteq SUBSET S
    BY DEF Bad
  <2> QED BY <1>1, <1>2, <2>1, WFMin
<1>4. \A U \in SUBSET T : U # T => U \in G
  <2> SUFFICES ASSUME NEW U \in SUBSET T, U # T, U \notin G
               PROVE  FALSE
    OBVIOUS
  <2>1. <<U, T>> \in R
    BY DEF StrictSubsetOrdering
  <2> QED BY <1>3, <2>1
<1> QED BY <1>3, <1>4

(* Induction over the natural numbers. *)
LEMMA NumberInduction ==
    ASSUME NEW G, 0 \in G, \A n \in Nat : n \in G => n + 1 \in G
    PROVE  Nat \subseteq G
<1> SUFFICES ASSUME NEW n \in Nat
             PROVE  n \in G
  OBVIOUS
<1> DEFINE I == 1..n
           H == {T \in SUBSET I : \A m \in 0..n : T = 1..m => m \in G}
<1>1. IsFiniteSet(I)
  BY FS_Interval
<1>2. ASSUME NEW T \in SUBSET I, \A U \in SUBSET T : U # T => U \in H
      PROVE  T \in H
  <2> SUFFICES ASSUME NEW m \in 0..n, T = 1..m
               PROVE  m \in G
    OBVIOUS
  <2>1. CASE m = 0
    BY <2>1
  <2>2. CASE m # 0
    <3> DEFINE U == 1..(m - 1)
    <3>1. U \in SUBSET T /\ U # T
      BY <2>2
    <3>2. U \in H
      BY <3>1, <1>2
    <3>3. m - 1 \in 0..n /\ m - 1 \in Nat /\ m = (m - 1) + 1
      BY <2>2
    <3>4. m - 1 \in G
      BY <3>2, <3>3
    <3> QED BY <3>3, <3>4
  <2> QED BY <2>1, <2>2
<1>3. SUBSET I \subseteq H
  <2> HIDE DEF I, H
  <2> QED BY <1>1, <1>2, SubsetInduction
<1>4. I \in H
  BY <1>3
<1> QED BY <1>4

-----------------------------------------------------------------------------
(* The sum of f[i] over S, as the models write it with MapThenSumSet.         *)
SumOf(f, S) == MapThenSumSet(LAMBDA i : f[i], S)

(* The element that the fold takes next.                                      *)
Some(s) == CHOOSE x \in s : TRUE

(* it is the table of the sums of f over the sets in D.                       *)
SumsUp(it, f, D) ==
    it = [s \in D |-> IF s = {} THEN 0 ELSE f[Some(s)] + it[s \ {Some(s)}]]

(* A sum is a value of the table that MapThenFoldSet builds.                  *)
LEMMA SumByTable ==
    ASSUME NEW S, NEW f
    PROVE  SumOf(f, S) = (CHOOSE it : SumsUp(it, f, SUBSET S))[S]
  BY DEF SumOf, SumsUp, Some, MapThenSumSet, MapThenFoldSet

(* The table exists: by induction over the size of the sets it is defined     *)
(* for.                                                                       *)
LEMMA TableExists ==
    ASSUME NEW S, IsFiniteSet(S), NEW f
    PROVE  \E it : SumsUp(it, f, SUBSET S)
<1> DEFINE D(n) == {s \in SUBSET S : Cardinality(s) <= n}
           G == {n \in Nat : \E it : SumsUp(it, f, D(n))}
<1>0. \A s \in SUBSET S : /\ IsFiniteSet(s) /\ Cardinality(s) \in Nat
                          /\ Cardinality(s) = 0 <=> s = {}
                          /\ Cardinality(s) <= Cardinality(S)
  BY FS_Subset, FS_CardinalityType, FS_EmptySet
<1>a. \A s \in SUBSET S : s # {} => /\ s \ {Some(s)} \in SUBSET S
                                     /\ Cardinality(s \ {Some(s)}) = Cardinality(s) - 1
  BY <1>0, FS_RemoveElement DEF Some
<1>1. 0 \in G
  <2>1. D(0) = {{}}
    BY <1>0
  <2>2. SumsUp([s \in D(0) |-> 0], f, D(0))
    BY <2>1 DEF SumsUp
  <2> QED BY <2>2
<1>2. \A n \in Nat : n \in G => n + 1 \in G
  <2> SUFFICES ASSUME NEW n \in Nat, NEW it, SumsUp(it, f, D(n))
               PROVE  \E u : SumsUp(u, f, D(n + 1))
    <3> HIDE DEF D
    <3> QED OBVIOUS
  <2> DEFINE u == [s \in D(n + 1) |-> IF s = {} THEN 0 ELSE f[Some(s)] + it[s \ {Some(s)}]]
  <2>1. \A s \in D(n) : s \in D(n + 1) /\ u[s] = it[s]
    <3> TAKE s \in D(n)
    <3>1. s \in D(n + 1)
      BY <1>0
    <3>2. it[s] = IF s = {} THEN 0 ELSE f[Some(s)] + it[s \ {Some(s)}]
      BY DEF SumsUp
    <3> QED BY <3>1, <3>2
  <2>2. \A s \in D(n + 1) : s # {} => s \ {Some(s)} \in D(n)
    BY <1>0, <1>a
  <2>3. u = [s \in D(n + 1) |-> IF s = {} THEN 0 ELSE f[Some(s)] + u[s \ {Some(s)}]]
    <3>1. \A s \in D(n + 1) : s # {} => u[s \ {Some(s)}] = it[s \ {Some(s)}]
      BY <2>1, <2>2
    <3> HIDE DEF D
    <3> QED BY <3>1
  <2>4. SumsUp(u, f, D(n + 1))
    BY <2>3 DEF SumsUp
  <2> QED BY <2>4
<1>3. Cardinality(S) \in G
  <2> HIDE DEF G
  <2> QED BY <1>1, <1>2, NumberInduction, FS_CardinalityType
<1>4. D(Cardinality(S)) = SUBSET S
  BY <1>0
<1> QED BY <1>3, <1>4

(* A sum, and the table it is read from.                                      *)
LEMMA SumTable ==
    ASSUME NEW S, IsFiniteSet(S), NEW f
    PROVE  \E it : SumsUp(it, f, SUBSET S) /\ SumOf(f, S) = it[S]
  BY TableExists, SumByTable

(* Any table gives the sum over any part of its set: two tables agree on the   *)
(* sets on which the two functions do, by induction over these sets.          *)
LEMMA SumFromTable ==
    ASSUME NEW S, IsFiniteSet(S), NEW T \in SUBSET S, NEW f, NEW g,
           \A x \in T : f[x] = g[x], NEW it, SumsUp(it, f, SUBSET S)
    PROVE  SumOf(g, T) = it[T]
<1>0. PICK u : SumsUp(u, g, SUBSET T) /\ SumOf(g, T) = u[T]
  BY FS_Subset, SumTable
<1> DEFINE G == {s \in SUBSET T : it[s] = u[s]}
<1>1. ASSUME NEW s \in SUBSET T, \A r \in SUBSET s : r # s => r \in G
      PROVE  s \in G
  <2>1. it[s] = IF s = {} THEN 0 ELSE f[Some(s)] + it[s \ {Some(s)}]
    BY DEF SumsUp
  <2>2. u[s] = IF s = {} THEN 0 ELSE g[Some(s)] + u[s \ {Some(s)}]
    BY <1>0 DEF SumsUp
  <2>3. CASE s = {}
    BY <2>1, <2>2, <2>3
  <2>4. CASE s # {}
    <3>1. Some(s) \in s
      BY <2>4 DEF Some
    <3>2. s \ {Some(s)} \in SUBSET s /\ s \ {Some(s)} # s
      BY <3>1
    <3>3. s \ {Some(s)} \in G
      BY <3>2, <1>1
    <3>4. f[Some(s)] = g[Some(s)] /\ it[s \ {Some(s)}] = u[s \ {Some(s)}]
      BY <3>1, <3>3
    <3> QED BY <2>1, <2>2, <2>4, <3>4
  <2> QED BY <2>3, <2>4
<1>2. IsFiniteSet(T)
  BY FS_Subset
<1>3. SUBSET T \subseteq G
  <2> HIDE DEF G
  <2> QED BY <1>1, <1>2, SubsetInduction
<1> QED BY <1>0, <1>3

(* A sum depends on the values on its set only: a row that is not written     *)
(* leaves the sums over it alone.                                             *)
LEMMA SumSame ==
    ASSUME NEW S, IsFiniteSet(S), NEW f, NEW g, \A x \in S : f[x] = g[x]
    PROVE  SumOf(f, S) = SumOf(g, S)
<1>1. PICK it : SumsUp(it, f, SUBSET S)
  BY TableExists
<1> QED BY <1>1, SumFromTable

(* The sum, one element taken out.                                            *)
LEMMA SumStep ==
    ASSUME NEW S, IsFiniteSet(S), NEW f
    PROVE  SumOf(f, S) = IF S = {} THEN 0 ELSE f[Some(S)] + SumOf(f, S \ {Some(S)})
<1>1. PICK it : SumsUp(it, f, SUBSET S)
  BY TableExists
<1>2. SumOf(f, S) = it[S]
  BY <1>1, SumFromTable
<1>3. SumOf(f, S \ {Some(S)}) = it[S \ {Some(S)}]
  BY <1>1, SumFromTable
<1>4. it[S] = IF S = {} THEN 0 ELSE f[Some(S)] + it[S \ {Some(S)}]
  <2>1. S \in SUBSET S
    OBVIOUS
  <2> QED BY <1>1, <2>1 DEF SumsUp
<1> QED BY <1>2, <1>3, <1>4

(* Nothing adds up to 0.                                                      *)
LEMMA SumEmpty == ASSUME NEW f PROVE SumOf(f, {}) = 0
  BY SumStep, FS_EmptySet

(* A sum of integers is an integer, and any element may be taken out of it.   *)
LEMMA SumRemove ==
    ASSUME NEW S, IsFiniteSet(S), NEW f, \A y \in S : f[y] \in Int
    PROVE  /\ SumOf(f, S) \in Int
           /\ \A x \in S : SumOf(f, S) = f[x] + SumOf(f, S \ {x})
<1> DEFINE G == {T \in SUBSET S : /\ SumOf(f, T) \in Int
                                  /\ \A x \in T : SumOf(f, T) = f[x] + SumOf(f, T \ {x})}
<1>1. ASSUME NEW T \in SUBSET S, \A U \in SUBSET T : U # T => U \in G
      PROVE  T \in G
  <2>1. IsFiniteSet(T)
    BY FS_Subset
  <2>2. CASE T = {}
    BY <2>2, SumEmpty
  <2>3. CASE T # {}
    <3> DEFINE c == Some(T)
    <3>1. c \in T /\ SumOf(f, T) = f[c] + SumOf(f, T \ {c}) /\ f[c] \in Int
      BY <2>1, <2>3, SumStep DEF Some
    <3> HIDE DEF c
    <3>2. T \ {c} \in SUBSET T /\ T \ {c} # T
      BY <3>1
    <3>3. T \ {c} \in G
      BY <3>2, <1>1
    <3>4. SumOf(f, T) \in Int
      BY <3>1, <3>3
    <3>5. ASSUME NEW x \in T
          PROVE  SumOf(f, T) = f[x] + SumOf(f, T \ {x})
      <4>1. CASE x = c
        BY <4>1, <3>1
      <4>2. CASE x # c
        <5>1. T \ {x} \in SUBSET T /\ T \ {x} # T
          OBVIOUS
        <5>2. T \ {x} \in G
          BY <5>1, <1>1
        <5>3. x \in T \ {c} /\ c \in T \ {x}
          BY <4>2, <3>1
        <5>4. SumOf(f, T \ {c}) = f[x] + SumOf(f, (T \ {c}) \ {x})
          BY <3>3, <5>3
        <5>5. SumOf(f, T \ {x}) = f[c] + SumOf(f, (T \ {x}) \ {c})
          BY <5>2, <5>3
        <5>6. (T \ {x}) \ {c} = (T \ {c}) \ {x}
          OBVIOUS
        <5>7. (T \ {x}) \ {c} \in SUBSET T /\ (T \ {x}) \ {c} # T
          OBVIOUS
        <5>8. SumOf(f, (T \ {x}) \ {c}) \in Int
          BY <5>7, <1>1
        <5>9. f[x] \in Int /\ f[c] \in Int
          BY <3>1
        <5>10. SumOf(f, T \ {c}) = f[x] + SumOf(f, (T \ {x}) \ {c})
          BY <5>4, <5>6
        <5> DEFINE a == SumOf(f, (T \ {x}) \ {c})
        <5>11. SumOf(f, T) = f[c] + (f[x] + a)
          BY <3>1, <5>10
        <5>12. SumOf(f, T \ {x}) = f[c] + a
          BY <5>5
        <5>13. f[c] + (f[x] + a) = f[x] + (f[c] + a)
          BY <5>8, <5>9
        <5> QED BY <5>11, <5>12, <5>13
      <4> QED BY <4>1, <4>2
    <3> QED BY <3>4, <3>5
  <2> QED BY <2>2, <2>3
<1>2. SUBSET S \subseteq G
  <2> HIDE DEF G
  <2> QED BY <1>1, SubsetInduction
<1>3. S \in G
  BY <1>2
<1> QED BY <1>3

(* A row that is added adds its number.                                       *)
LEMMA SumAdd ==
    ASSUME NEW S, IsFiniteSet(S), NEW f, NEW x, x \notin S,
           \A y \in S \cup {x} : f[y] \in Int
    PROVE  SumOf(f, S \cup {x}) = SumOf(f, S) + f[x]
<1>1. IsFiniteSet(S \cup {x}) /\ (S \cup {x}) \ {x} = S
  BY FS_AddElement
<1>2. SumOf(f, S) \in Int /\ f[x] \in Int
  BY SumRemove
<1>3. SumOf(f, S \cup {x}) = f[x] + SumOf(f, (S \cup {x}) \ {x})
  BY <1>1, SumRemove
<1>4. SumOf(f, S \cup {x}) = f[x] + SumOf(f, S)
  BY <1>1, <1>3
<1>5. f[x] + SumOf(f, S) = SumOf(f, S) + f[x]
  BY <1>2
<1> QED BY <1>4, <1>5

(* The same, for the parts of a set.                                          *)
LEMMA SumAddWithin ==
    ASSUME NEW S, IsFiniteSet(S), NEW f, \A y \in S : f[y] \in Int
    PROVE  \A T \in SUBSET S, x \in S :
              x \notin T => SumOf(f, T \cup {x}) = SumOf(f, T) + f[x]
<1> SUFFICES ASSUME NEW T \in SUBSET S, NEW x \in S, x \notin T
             PROVE  SumOf(f, T \cup {x}) = SumOf(f, T) + f[x]
  OBVIOUS
<1>1. IsFiniteSet(T)
  BY FS_Subset
<1>2. \A y \in T \cup {x} : f[y] \in Int
  OBVIOUS
<1> QED BY <1>1, <1>2, SumAdd

(* One row that is written changes the sum by what the row changed: a counter *)
(* and the rows it counts move together.                                      *)
LEMMA SumChange ==
    ASSUME NEW S, IsFiniteSet(S), NEW f, NEW g, NEW x \in S,
           \A y \in S : f[y] \in Int /\ g[y] \in Int,
           \A y \in S \ {x} : g[y] = f[y]
    PROVE  SumOf(g, S) = SumOf(f, S) + g[x] - f[x]
<1>1. IsFiniteSet(S \ {x})
  BY FS_RemoveElement
<1>2. SumOf(g, S \ {x}) = SumOf(f, S \ {x}) /\ SumOf(f, S \ {x}) \in Int
  BY <1>1, SumSame, SumRemove
<1>3. SumOf(f, S) = f[x] + SumOf(f, S \ {x}) /\ SumOf(g, S) = g[x] + SumOf(g, S \ {x})
  BY SumRemove
<1> QED BY <1>2, <1>3

(* A sum of numbers that are not negative is none that is, and no less than   *)
(* any of them.                                                               *)
LEMMA SumNatural ==
    ASSUME NEW S, IsFiniteSet(S), NEW f, \A y \in S : f[y] \in Nat
    PROVE  SumOf(f, S) \in Nat /\ \A x \in S : f[x] <= SumOf(f, S)
<1> DEFINE G == {T \in SUBSET S : SumOf(f, T) \in Nat}
<1>1. ASSUME NEW T \in SUBSET S, \A U \in SUBSET T : U # T => U \in G
      PROVE  T \in G
  <2>1. IsFiniteSet(T)
    BY FS_Subset
  <2>2. CASE T = {}
    BY <2>2, SumEmpty
  <2>3. CASE T # {}
    <3>1. PICK x \in T : TRUE
      BY <2>3
    <3>2. SumOf(f, T) = f[x] + SumOf(f, T \ {x})
      BY <2>1, SumRemove
    <3>3. T \ {x} \in SUBSET T /\ T \ {x} # T
      OBVIOUS
    <3>4. SumOf(f, T \ {x}) \in Nat
      BY <3>3, <1>1
    <3> QED BY <3>2, <3>4
  <2> QED BY <2>2, <2>3
<1>2. SUBSET S \subseteq G
  <2> HIDE DEF G
  <2> QED BY <1>1, SubsetInduction
<1>3. \A x \in S : SumOf(f, S) = f[x] + SumOf(f, S \ {x})
  BY SumRemove
<1>4. SumOf(f, S) \in Nat /\ \A x \in S : SumOf(f, S \ {x}) \in Nat
  BY <1>2
<1>5. ASSUME NEW x \in S
      PROVE  f[x] <= SumOf(f, S)
  <2>1. f[x] \in Nat /\ SumOf(f, S \ {x}) \in Nat
    BY <1>4
  <2>2. f[x] <= f[x] + SumOf(f, S \ {x})
    BY <2>1
  <2> QED BY <1>3, <2>2
<1> QED BY <1>4, <1>5

(* Rows that count for nothing add up to 0.                                   *)
LEMMA SumZero ==
    ASSUME NEW S, IsFiniteSet(S), NEW f, \A y \in S : f[y] = 0
    PROVE  SumOf(f, S) = 0
<1> DEFINE G == {T \in SUBSET S : SumOf(f, T) = 0}
<1>1. ASSUME NEW T \in SUBSET S, \A U \in SUBSET T : U # T => U \in G
      PROVE  T \in G
  <2>1. IsFiniteSet(T)
    BY FS_Subset
  <2>2. CASE T = {}
    BY <2>2, SumEmpty
  <2>3. CASE T # {}
    <3>1. PICK x \in T : TRUE
      BY <2>3
    <3>2. SumOf(f, T) = f[x] + SumOf(f, T \ {x})
      BY <2>1, SumRemove
    <3>3. T \ {x} \in SUBSET T /\ T \ {x} # T
      OBVIOUS
    <3>4. SumOf(f, T \ {x}) = 0
      BY <3>3, <1>1
    <3> QED BY <3>2, <3>4
  <2> QED BY <2>2, <2>3
<1>2. SUBSET S \subseteq G
  <2> HIDE DEF G
  <2> QED BY <1>1, SubsetInduction
<1> QED BY <1>2

(* Rows of one value c add up to c times their number.                        *)
LEMMA SumConstant ==
    ASSUME NEW S, IsFiniteSet(S), NEW c \in Int, NEW f, \A y \in S : f[y] = c
    PROVE  SumOf(f, S) = c * Cardinality(S)
<1> DEFINE G == {T \in SUBSET S : SumOf(f, T) = c * Cardinality(T)}
<1>1. ASSUME NEW T \in SUBSET S, \A U \in SUBSET T : U # T => U \in G
      PROVE  T \in G
  <2>1. IsFiniteSet(T) /\ Cardinality(T) \in Nat
    BY FS_Subset, FS_CardinalityType
  <2>2. CASE T = {}
    <3>1. SumOf(f, T) = 0 /\ Cardinality(T) = 0
      BY <2>2, SumEmpty, FS_EmptySet
    <3> QED BY <3>1
  <2>3. CASE T # {}
    <3>1. PICK x \in T : TRUE
      BY <2>3
    <3>2. SumOf(f, T) = f[x] + SumOf(f, T \ {x})
      BY <2>1, SumRemove
    <3>3. T \ {x} \in SUBSET T /\ T \ {x} # T
      OBVIOUS
    <3>4. SumOf(f, T \ {x}) = c * Cardinality(T \ {x})
      BY <3>3, <1>1
    <3>5. Cardinality(T \ {x}) = Cardinality(T) - 1
      BY <2>1, FS_RemoveElement
    <3>6. \A n \in Nat : c + c * (n - 1) = c * n
      OBVIOUS
    <3>7. f[x] = c
      OBVIOUS
    <3> QED BY <2>1, <3>2, <3>4, <3>5, <3>6, <3>7
  <2> QED BY <2>2, <2>3
<1>2. SUBSET S \subseteq G
  <2> HIDE DEF G
  <2> QED BY <1>1, SubsetInduction
<1> QED BY <1>2

(* Rows that count for one at most add up to no more than there are.          *)
LEMMA SumOfOnes ==
    ASSUME NEW S, IsFiniteSet(S), NEW f, \A y \in S : f[y] \in 0..1
    PROVE  SumOf(f, S) <= Cardinality(S)
<1> DEFINE G == {T \in SUBSET S : SumOf(f, T) \in Int /\ SumOf(f, T) <= Cardinality(T)}
<1>1. ASSUME NEW T \in SUBSET S, \A U \in SUBSET T : U # T => U \in G
      PROVE  T \in G
  <2>1. IsFiniteSet(T)
    BY FS_Subset
  <2>2. CASE T = {}
    BY <2>2, SumEmpty, FS_EmptySet
  <2>3. CASE T # {}
    <3>1. PICK x \in T : TRUE
      BY <2>3
    <3>2. SumOf(f, T) = f[x] + SumOf(f, T \ {x}) /\ f[x] \in 0..1
      BY <2>1, SumRemove
    <3>3. T \ {x} \in SUBSET T /\ T \ {x} # T
      OBVIOUS
    <3>4. SumOf(f, T \ {x}) \in Int /\ SumOf(f, T \ {x}) <= Cardinality(T \ {x})
      BY <3>3, <1>1
    <3>5. Cardinality(T \ {x}) = Cardinality(T) - 1 /\ Cardinality(T) \in Nat
      BY <2>1, FS_RemoveElement, FS_CardinalityType
    <3> QED BY <3>2, <3>4, <3>5
  <2> QED BY <2>2, <2>3
<1>2. SUBSET S \subseteq G
  <2> HIDE DEF G
  <2> QED BY <1>1, SubsetInduction
<1> QED BY <1>2

(* A set of rows may be summed in two parts.                                  *)
LEMMA SumSplit ==
    ASSUME NEW S, IsFiniteSet(S), NEW f, \A y \in S : f[y] \in Int
    PROVE  \A T \in SUBSET S : SumOf(f, S) = SumOf(f, T) + SumOf(f, S \ T)
<1> DEFINE G == {T \in SUBSET S : SumOf(f, S) = SumOf(f, T) + SumOf(f, S \ T)}
<1>0. \A U \in SUBSET S : IsFiniteSet(U) /\ SumOf(f, U) \in Int
  BY FS_Subset, SumRemove
<1>1. ASSUME NEW T \in SUBSET S, \A U \in SUBSET T : U # T => U \in G
      PROVE  T \in G
  <2>2. CASE T = {}
    <3>1. S \ T = S /\ SumOf(f, T) = 0 /\ SumOf(f, S) \in Int
      BY <2>2, <1>0, SumEmpty
    <3>2. SumOf(f, S \ T) = SumOf(f, S)
      BY <3>1
    <3> QED BY <3>1, <3>2
  <2>3. CASE T # {}
    <3>1. PICK x \in T : TRUE
      BY <2>3
    <3> DEFINE U == T \ {x}
               V == S \ T
    <3>2. U \in SUBSET T /\ U # T /\ S \ U = V \cup {x} /\ x \notin V /\ V \in SUBSET S
      OBVIOUS
    <3>3. SumOf(f, S) = SumOf(f, U) + SumOf(f, V \cup {x})
      BY <3>2, <1>1
    <3>4. SumOf(f, T) = f[x] + SumOf(f, U)
      BY <1>0, SumRemove
    <3>5. SumOf(f, V \cup {x}) = SumOf(f, V) + f[x]
      BY <1>0, <3>2, SumAdd
    <3>6. SumOf(f, U) \in Int /\ SumOf(f, V) \in Int /\ f[x] \in Int
      BY <1>0
    <3> QED BY <3>3, <3>4, <3>5, <3>6
  <2> QED BY <2>2, <2>3
<1>2. SUBSET S \subseteq G
  <2> HIDE DEF G
  <2> QED BY <1>1, SubsetInduction
<1> QED BY <1>2

(* Part of the rows sum to no more than all of them.                          *)
LEMMA SumOfPart ==
    ASSUME NEW S, IsFiniteSet(S), NEW f, \A y \in S : f[y] \in Nat, NEW T \in SUBSET S
    PROVE  SumOf(f, T) \in Nat /\ SumOf(f, T) <= SumOf(f, S)
<1>1. SumOf(f, S) = SumOf(f, T) + SumOf(f, S \ T)
  BY SumSplit
<1>2. \A U \in SUBSET S : IsFiniteSet(U) /\ SumOf(f, U) \in Nat
  BY FS_Subset, SumNatural
<1>3. SumOf(f, T) \in Nat /\ SumOf(f, S \ T) \in Nat
  BY <1>2
<1> QED BY <1>1, <1>3
====
