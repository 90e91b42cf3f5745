----------------------------- MODULE TimeProofs -----------------------------
(***************************************************************************)
(* Where the time goes, for every workload, every algorithm and any number *)
(* of processes.                                                           *)
(*                                                                         *)
(* The properties add up times with MapThenSumSet, whose definition is a   *)
(* recursive function on the subsets of a finite set.  The first part      *)
(* proves what a sum does, once, for a function g: that the recursive      *)
(* function exists, that the order in which it takes the elements does not *)
(* matter, and what the sum becomes when an element or a term changes.     *)
(* Then the Gantt chart accounts for all time, what Execute records of a   *)
(* completed process agrees with its life, every process finishes in the   *)
(* time the workload allows, the metrics agree with each other, and        *)
(* without a quantum the waiting times are exact.                          *)
(***************************************************************************)
EXTENDS TickProofs

(* f is the table of the sums of g over the sets in F.                      *)
Pick(s) == CHOOSE x \in s : TRUE
SumTable(f, F, g) ==
    f = [s \in F |-> IF s = {} THEN 0 ELSE g[Pick(s)] + f[s \ {Pick(s)}]]

Sums(g, D) == CHOOSE f : SumTable(f, SUBSET D, g)
Sum(g, D) == Sums(g, D)[D]

(* Sum is the library's MapThenSumSet.                                      *)
LEMMA SumIsFold ==
  ASSUME NEW g, NEW D
  PROVE  MapThenSumSet(LAMBDA x : g[x], D) = Sum(g, D)
BY DEF MapThenSumSet, MapThenFoldSet, Sum, Sums, SumTable, Pick

LEMMA PickIn ==
  ASSUME NEW s, s # {}
  PROVE  Pick(s) \in s
BY DEF Pick

(* Every nonempty set of finite sets has a member of least size.            *)
LEMMA LeastSet ==
  ASSUME NEW F, F # {}, \A s \in F : IsFiniteSet(s)
  PROVE  \E s \in F : \A r \in F : Cardinality(s) <= Cardinality(r)
<1> DEFINE T == {Cardinality(s) : s \in F}
<1>1. T \in SUBSET Nat /\ T # {}
  BY FS_CardinalityType
<1>2. PICK n \in T : \A m \in T : n <= m
  <2> HIDE DEF T
  <2> QED BY <1>1, LeastNat
<1> QED BY <1>2

(* Taking out the element Pick chooses leaves a smaller set.                *)
LEMMA RestIsSmaller ==
  ASSUME NEW s, IsFiniteSet(s), NEW x \in s
  PROVE  /\ IsFiniteSet(s \ {x})
         /\ Cardinality(s \ {x}) = Cardinality(s) - 1
         /\ Cardinality(s) \in Nat /\ Cardinality(s \ {x}) \in Nat
BY FS_RemoveElement, FS_CardinalityType

(* Induction over the subsets of a finite set D, for a set G of them.       *)
LEMMA SubsetInduction ==
  ASSUME NEW D, IsFiniteSet(D), NEW G, {} \in G,
         \A s \in SUBSET D : s # {} /\ s \ {Pick(s)} \in G => s \in G
  PROVE  D \in G
<1> DEFINE T == {s \in SUBSET D : s \notin G}
<1> SUFFICES ASSUME T # {} PROVE FALSE
  OBVIOUS
<1>1. PICK s \in T : \A r \in T : Cardinality(s) <= Cardinality(r)
  <2>1. \A r \in T : IsFiniteSet(r)
    BY FS_Subset
  <2> HIDE DEF T
  <2> QED BY <2>1, LeastSet
<1>2. IsFiniteSet(s) /\ s \in SUBSET D /\ s # {}
  <2>1. s \in SUBSET D /\ s \notin G
    BY <1>1
  <2> QED BY <2>1, FS_Subset
<1>3. Pick(s) \in s
  BY <1>2, PickIn
<1>4. /\ Cardinality(s \ {Pick(s)}) = Cardinality(s) - 1
      /\ Cardinality(s) \in Nat
  BY <1>2, <1>3, RestIsSmaller
<1>5. ~ (Cardinality(s) <= Cardinality(s \ {Pick(s)}))
  BY <1>4
<1>6. s \ {Pick(s)} \notin T
  <2> HIDE DEF T
  <2> QED BY <1>1, <1>5
<1> QED BY <1>1, <1>2, <1>6

----------------------------------------------------------------------------
(* The table for the sets of at most n + 1 elements from that for n.        *)
Small(D, n) == {s \in SUBSET D : Cardinality(s) <= n}

LEMMA TableNext ==
  ASSUME NEW D, IsFiniteSet(D), NEW g, NEW n \in Nat, NEW f, SumTable(f, Small(D, n), g)
  PROVE  \E h : SumTable(h, Small(D, n + 1), g)
<1> DEFINE h == [s \in Small(D, n + 1) |->
                    IF s = {} THEN 0 ELSE g[Pick(s)] + f[s \ {Pick(s)}]]
<1>1. ASSUME NEW s \in Small(D, n + 1), s # {}
      PROVE  s \ {Pick(s)} \in Small(D, n)
  <2>1. IsFiniteSet(s) /\ Pick(s) \in s /\ s \in SUBSET D /\ Cardinality(s) <= n + 1
    BY <1>1, PickIn, FS_Subset DEF Small
  <2>2. Cardinality(s \ {Pick(s)}) = Cardinality(s) - 1 /\ Cardinality(s) \in Nat
    BY <2>1, RestIsSmaller
  <2> QED BY <2>1, <2>2 DEF Small
<1>2. ASSUME NEW s \in Small(D, n)
      PROVE  s \in Small(D, n + 1)
  <2>1. IsFiniteSet(s)
    BY FS_Subset DEF Small
  <2> QED BY <2>1, FS_CardinalityType DEF Small
<1>3. ASSUME NEW s \in Small(D, n)
      PROVE  h[s] = f[s]
  <2>1. f[s] = IF s = {} THEN 0 ELSE g[Pick(s)] + f[s \ {Pick(s)}]
    BY DEF SumTable
  <2> QED BY <1>2, <2>1
<1>4. h = [s \in Small(D, n + 1) |->
              IF s = {} THEN 0 ELSE g[Pick(s)] + h[s \ {Pick(s)}]]
  <2>1. ASSUME NEW s \in Small(D, n + 1)
        PROVE  h[s] = IF s = {} THEN 0 ELSE g[Pick(s)] + h[s \ {Pick(s)}]
    <3>1. CASE s = {}
      BY <3>1
    <3>2. CASE s # {}
      <4>1. h[s \ {Pick(s)}] = f[s \ {Pick(s)}]
        BY <1>1, <1>3, <3>2
      <4>2. h[s] = g[Pick(s)] + f[s \ {Pick(s)}]
        BY <3>2
      <4> HIDE DEF h
      <4> QED BY <3>2, <4>1, <4>2
    <3> QED BY <3>1, <3>2
  <2> QED BY <2>1
<1> HIDE DEF h
<1> QED BY <1>4 DEF SumTable

(* The recursive function exists over a finite set.                         *)
LEMMA TableExists ==
  ASSUME NEW D, IsFiniteSet(D), NEW g
  PROVE  SumTable(Sums(g, D), SUBSET D, g)
<1> DEFINE T == {m \in Nat : ~ \E f : SumTable(f, Small(D, m), g)}
<1>1. T = {}
  <2> SUFFICES ASSUME T # {} PROVE FALSE
    OBVIOUS
  <2>1. PICK m \in T : \A y \in T : m <= y
    BY LeastNat
  <2>2. m # 0
    <3>1. \A s \in SUBSET D : Cardinality(s) <= 0 <=> s = {}
      <4>1. \A s \in SUBSET D : IsFiniteSet(s)
        BY FS_Subset
      <4> QED BY <4>1, FS_CardinalityType, FS_EmptySet
    <3>2. Small(D, 0) = {{}}
      BY <3>1 DEF Small
    <3>3. SumTable([s \in {{}} |-> 0], {{}}, g)
      BY DEF SumTable
    <3> QED BY <2>1, <3>2, <3>3
  <2>3. m - 1 \in Nat /\ m - 1 \notin T
    BY <2>1, <2>2
  <2>4. PICK f : SumTable(f, Small(D, m - 1), g)
    BY <2>3
  <2>5. \E h : SumTable(h, Small(D, (m - 1) + 1), g)
    BY <2>3, <2>4, TableNext
  <2> QED BY <2>1, <2>5
<1>2. Small(D, Cardinality(D)) = SUBSET D
  BY FS_Subset DEF Small
<1>3. \E f : SumTable(f, SUBSET D, g)
  <2>1. PICK n \in Nat : n = Cardinality(D)
    BY FS_CardinalityType
  <2>2. n \notin T
    BY <1>1
  <2>3. \E f : SumTable(f, Small(D, n), g)
    BY <2>2
  <2> QED BY <1>2, <2>1, <2>3
<1> QED BY <1>3 DEF Sums

Agree(f, h, S) == \A x \in S : f[x] = h[x]

(* Two tables agree on the sets on which the functions summed agree.        *)
LEMMA TablesAgree ==
  ASSUME NEW D, NEW S \in SUBSET D, IsFiniteSet(D), NEW g, NEW k, Agree(g, k, S),
         NEW f, SumTable(f, SUBSET D, g), NEW h, SumTable(h, SUBSET S, k)
  PROVE  Agree(f, h, SUBSET S)
<1> DEFINE T == {s \in SUBSET S : f[s] # h[s]}
<1> SUFFICES ASSUME T # {} PROVE FALSE
  BY DEF Agree
<1>1. PICK s \in T : \A r \in T : Cardinality(s) <= Cardinality(r)
  <2>1. \A r \in T : IsFiniteSet(r)
    BY FS_Subset
  <2> HIDE DEF T
  <2> QED BY <2>1, LeastSet
<1>2. IsFiniteSet(s) /\ s \in SUBSET S /\ s \in SUBSET D
  BY FS_Subset
<1>3. /\ f[s] = IF s = {} THEN 0 ELSE g[Pick(s)] + f[s \ {Pick(s)}]
      /\ h[s] = IF s = {} THEN 0 ELSE k[Pick(s)] + h[s \ {Pick(s)}]
  BY <1>2 DEF SumTable
<1>4. s # {}
  BY <1>1, <1>3
<1>5. Pick(s) \in s /\ Pick(s) \in S
  BY <1>2, <1>4, PickIn
<1>6. s \ {Pick(s)} \notin T
  BY <1>1, <1>2, <1>5, RestIsSmaller
<1> QED BY <1>1, <1>2, <1>3, <1>4, <1>5, <1>6 DEF Agree

(* The sum over a subset is in the table for the set.                       *)
LEMMA SumInTable ==
  ASSUME NEW D, IsFiniteSet(D), NEW g, NEW S \in SUBSET D
  PROVE  Sums(g, D)[S] = Sum(g, S)
<1>1. IsFiniteSet(S)
  BY FS_Subset
<1>2. SumTable(Sums(g, D), SUBSET D, g) /\ SumTable(Sums(g, S), SUBSET S, g)
  BY <1>1, TableExists
<1>3. PICK f, h : f = Sums(g, D) /\ h = Sums(g, S)
  OBVIOUS
<1>4. Agree(f, h, SUBSET S)
  <2>1. SumTable(f, SUBSET D, g) /\ SumTable(h, SUBSET S, g)
    BY <1>2, <1>3
  <2>2. Agree(g, g, S)
    BY DEF Agree
  <2> QED BY <2>1, <2>2, TablesAgree
<1> QED BY <1>3, <1>4 DEF Sum, Agree

(* Any table gives the sum.                                                 *)
LEMMA TableGivesSum ==
  ASSUME NEW D, IsFiniteSet(D), NEW g, NEW f, SumTable(f, SUBSET D, g)
  PROVE  f[D] = Sum(g, D)
<1>1. PICK h : h = Sums(g, D)
  OBVIOUS
<1>2. SumTable(h, SUBSET D, g)
  BY <1>1, TableExists
<1>3. Agree(f, h, SUBSET D)
  <2>1. Agree(g, g, D) /\ D \in SUBSET D
    BY DEF Agree
  <2> QED BY <1>2, <2>1, TablesAgree
<1> QED BY <1>1, <1>3 DEF Sum, Agree

(* The sum depends on the terms only.                                       *)
LEMMA SumAgrees ==
  ASSUME NEW S, IsFiniteSet(S), NEW g, NEW k, Agree(g, k, S)
  PROVE  Sum(g, S) = Sum(k, S)
<1>1. SumTable(Sums(g, S), SUBSET S, g) /\ SumTable(Sums(k, S), SUBSET S, k)
  BY TableExists
<1>2. PICK f, h : f = Sums(g, S) /\ h = Sums(k, S)
  OBVIOUS
<1>3. Agree(f, h, SUBSET S)
  <2>1. SumTable(f, SUBSET S, g) /\ SumTable(h, SUBSET S, k) /\ S \in SUBSET S
    BY <1>1, <1>2
  <2> QED BY <2>1, TablesAgree
<1> QED BY <1>2, <1>3 DEF Sum, Agree

(* The equation of the recursive function, for the sum.                     *)
LEMMA SumEquation ==
  ASSUME NEW S, IsFiniteSet(S), NEW g
  PROVE  /\ S = {} => Sum(g, S) = 0
         /\ S # {} => Sum(g, S) = g[Pick(S)] + Sum(g, S \ {Pick(S)})
<1>1. SumTable(Sums(g, S), SUBSET S, g)
  BY TableExists
<1>2. Sums(g, S)[S] = IF S = {} THEN 0 ELSE g[Pick(S)] + Sums(g, S)[S \ {Pick(S)}]
  BY <1>1 DEF SumTable
<1>3. Sums(g, S)[S \ {Pick(S)}] = Sum(g, S \ {Pick(S)})
  BY SumInTable
<1> QED BY <1>2, <1>3 DEF Sum

(* A sum of integers is one.                                                *)
LEMMA SumIsInt ==
  ASSUME NEW D, IsFiniteSet(D), NEW g, \A x \in D : g[x] \in Int
  PROVE  Sum(g, D) \in Int
<1> DEFINE G == {s \in SUBSET D : Sum(g, s) \in Int}
<1>1. {} \in G
  <2>1. Sum(g, {}) = 0
    BY FS_EmptySet, SumEquation
  <2> QED BY <2>1
<1>2. ASSUME NEW s \in SUBSET D, s # {}, s \ {Pick(s)} \in G
      PROVE  s \in G
  <2>1. IsFiniteSet(s) /\ Pick(s) \in D
    BY <1>2, PickIn, FS_Subset
  <2>2. Sum(g, s) = g[Pick(s)] + Sum(g, s \ {Pick(s)})
    BY <1>2, <2>1, SumEquation
  <2> QED BY <1>2, <2>1, <2>2
<1> HIDE DEF G
<1>3. D \in G
  BY <1>1, <1>2, SubsetInduction
<1> QED BY <1>3 DEF G

(* The order does not matter: any element can be taken out first.           *)
LEMMA SumTakesAny ==
  ASSUME NEW D, IsFiniteSet(D), NEW g, \A x \in D : g[x] \in Int, NEW x \in D
  PROVE  Sum(g, D) = g[x] + Sum(g, D \ {x})
<1> DEFINE T == {s \in SUBSET D : \E y \in s : Sum(g, s) # g[y] + Sum(g, s \ {y})}
<1> SUFFICES ASSUME T # {} PROVE FALSE
  OBVIOUS
<1>1. PICK s \in T : \A r \in T : Cardinality(s) <= Cardinality(r)
  <2>1. \A r \in T : IsFiniteSet(r)
    BY FS_Subset
  <2> HIDE DEF T
  <2> QED BY <2>1, LeastSet
<1>2. IsFiniteSet(s) /\ s \in SUBSET D
  BY FS_Subset
<1>3. PICK y \in s : Sum(g, s) # g[y] + Sum(g, s \ {y})
  BY <1>1
<1>4. PICK z : z = Pick(s)
  OBVIOUS
<1>5. Sum(g, s) = g[z] + Sum(g, s \ {z}) /\ z \in s
  BY <1>2, <1>3, <1>4, SumEquation, PickIn
<1>6. y # z
  BY <1>3, <1>5
<1>7. /\ s \ {z} \in SUBSET D /\ s \ {z} \notin T
      /\ s \ {y} \in SUBSET D /\ s \ {y} \notin T
  <2>1. ASSUME NEW a \in s
        PROVE  s \ {a} \in SUBSET D /\ s \ {a} \notin T
    <3>1. Cardinality(s \ {a}) = Cardinality(s) - 1 /\ Cardinality(s) \in Nat
      BY <1>2, RestIsSmaller
    <3>2. ~ (Cardinality(s) <= Cardinality(s \ {a}))
      BY <3>1
    <3>3. s \ {a} \notin T
      <4> HIDE DEF T
      <4> QED BY <1>1, <3>2
    <3> QED BY <1>2, <3>3
  <2> QED BY <1>5, <2>1
<1>8. /\ Sum(g, s \ {z}) = g[y] + Sum(g, (s \ {z}) \ {y})
      /\ Sum(g, s \ {y}) = g[z] + Sum(g, (s \ {y}) \ {z})
  BY <1>5, <1>6, <1>7
<1>9. (s \ {z}) \ {y} = (s \ {y}) \ {z}
  OBVIOUS
<1>10. Sum(g, (s \ {z}) \ {y}) \in Int
  <2>1. IsFiniteSet((s \ {z}) \ {y})
    BY <1>2, FS_Subset
  <2> QED BY <1>2, <2>1, SumIsInt
<1>11. g[y] \in Int /\ g[z] \in Int
  BY <1>2, <1>5
<1>12. PICK n : n = Sum(g, (s \ {z}) \ {y})
  OBVIOUS
<1>13. Sum(g, s) = g[z] + (g[y] + n) /\ Sum(g, s \ {y}) = g[z] + n /\ n \in Int
  BY <1>5, <1>8, <1>9, <1>10, <1>12
<1>14. g[z] + (g[y] + n) = g[y] + (g[z] + n)
  BY <1>11, <1>13
<1> QED BY <1>3, <1>13, <1>14
LEMMA SumInserts ==
  ASSUME NEW S, IsFiniteSet(S), NEW g, NEW x, x \notin S, \A y \in S \cup {x} : g[y] \in Int
  PROVE  Sum(g, S \cup {x}) = g[x] + Sum(g, S)
<1>1. IsFiniteSet(S \cup {x})
  BY FS_AddElement
<1>2. (S \cup {x}) \ {x} = S
  OBVIOUS
<1> QED BY <1>1, <1>2, SumTakesAny

(* One term changes.                                                        *)
LEMMA SumChanges ==
  ASSUME NEW S, IsFiniteSet(S), NEW g, NEW h, NEW x \in S, Agree(g, h, S \ {x}),
         \A y \in S : g[y] \in Int, h[x] \in Int
  PROVE  Sum(h, S) = Sum(g, S) + (h[x] - g[x])
<1>1. IsFiniteSet(S \ {x})
  BY FS_Subset
<1>2. Sum(g, S \ {x}) = Sum(h, S \ {x})
  BY <1>1, SumAgrees
<1>3. \A y \in S : h[y] \in Int
  BY DEF Agree
<1>4. Sum(g, S) = g[x] + Sum(g, S \ {x})
  BY SumTakesAny
<1>5. Sum(h, S) = h[x] + Sum(h, S \ {x})
  BY <1>3, SumTakesAny
<1>6. Sum(g, S \ {x}) \in Int /\ g[x] \in Int
  BY <1>1, SumIsInt
<1> QED BY <1>2, <1>4, <1>5, <1>6

LEMMA SumOfZeros ==
  ASSUME NEW D, IsFiniteSet(D), NEW g, \A x \in D : g[x] = 0
  PROVE  Sum(g, D) = 0
<1> DEFINE G == {s \in SUBSET D : Sum(g, s) = 0}
<1>1. {} \in G
  BY FS_EmptySet, SumEquation
<1>2. ASSUME NEW s \in SUBSET D, s # {}, s \ {Pick(s)} \in G
      PROVE  s \in G
  <2>1. IsFiniteSet(s) /\ Pick(s) \in D
    BY <1>2, PickIn, FS_Subset
  <2>2. Sum(g, s) = g[Pick(s)] + Sum(g, s \ {Pick(s)})
    BY <1>2, <2>1, SumEquation
  <2> QED BY <1>2, <2>1, <2>2
<1> HIDE DEF G
<1>3. D \in G
  BY <1>1, <1>2, SubsetInduction
<1> QED BY <1>3 DEF G

(* Terms that are sums.                                                     *)
LEMMA SumPlus ==
  ASSUME NEW D, IsFiniteSet(D), NEW g, NEW h, NEW k,
         \A x \in D : g[x] \in Int /\ h[x] \in Int /\ k[x] = g[x] + h[x]
  PROVE  Sum(k, D) = Sum(g, D) + Sum(h, D)
<1> DEFINE G == {s \in SUBSET D : Sum(k, s) = Sum(g, s) + Sum(h, s)}
<1>1. {} \in G
  <2>1. Sum(k, {}) = 0 /\ Sum(g, {}) = 0 /\ Sum(h, {}) = 0
    BY FS_EmptySet, SumEquation
  <2> QED BY <2>1
<1>2. ASSUME NEW s \in SUBSET D, s # {}, s \ {Pick(s)} \in G
      PROVE  s \in G
  <2>1. PICK x : x = Pick(s)
    OBVIOUS
  <2>2. IsFiniteSet(s) /\ x \in D /\ IsFiniteSet(s \ {x})
    BY <1>2, <2>1, PickIn, FS_Subset
  <2>3. /\ Sum(k, s) = k[x] + Sum(k, s \ {x})
        /\ Sum(g, s) = g[x] + Sum(g, s \ {x})
        /\ Sum(h, s) = h[x] + Sum(h, s \ {x})
    BY <1>2, <2>1, <2>2, SumEquation
  <2>4. Sum(g, s \ {x}) \in Int /\ Sum(h, s \ {x}) \in Int
    <3>1. \A y \in s \ {x} : g[y] \in Int /\ h[y] \in Int
      OBVIOUS
    <3> QED BY <2>2, <3>1, SumIsInt
  <2>5. Sum(k, s \ {x}) = Sum(g, s \ {x}) + Sum(h, s \ {x})
    BY <1>2, <2>1
  <2> QED BY <2>2, <2>3, <2>4, <2>5
<1> HIDE DEF G
<1>3. D \in G
  BY <1>1, <1>2, SubsetInduction
<1> QED BY <1>3 DEF G

(* A sum of natural numbers is one.                                         *)
LEMMA SumIsNat ==
  ASSUME NEW D, IsFiniteSet(D), NEW g, \A x \in D : g[x] \in Nat
  PROVE  Sum(g, D) \in Nat
<1> DEFINE G == {s \in SUBSET D : Sum(g, s) \in Nat}
<1>1. {} \in G
  BY FS_EmptySet, SumEquation
<1>2. ASSUME NEW s \in SUBSET D, s # {}, s \ {Pick(s)} \in G
      PROVE  s \in G
  <2>1. IsFiniteSet(s) /\ Pick(s) \in D
    BY <1>2, PickIn, FS_Subset
  <2>2. Sum(g, s) = g[Pick(s)] + Sum(g, s \ {Pick(s)})
    BY <1>2, <2>1, SumEquation
  <2> QED BY <1>2, <2>1, <2>2
<1> HIDE DEF G
<1>3. D \in G
  BY <1>1, <1>2, SubsetInduction
<1> QED BY <1>3 DEF G

(* It is no smaller than any of its terms.                                  *)
LEMMA SumOfNats ==
  ASSUME NEW D, IsFiniteSet(D), NEW g, \A x \in D : g[x] \in Nat, NEW x \in D
  PROVE  g[x] <= Sum(g, D)
<1>1. Sum(g, D) = g[x] + Sum(g, D \ {x})
  BY SumTakesAny
<1>2. IsFiniteSet(D \ {x})
  BY FS_Subset
<1>3. Sum(g, D \ {x}) \in Nat
  BY <1>2, SumIsNat
<1> QED BY <1>1, <1>3

(* Terms that are no smaller have a sum that is no smaller; it is larger if *)
(* one of them is.                                                          *)
LEMMA SumMono ==
  ASSUME NEW D, IsFiniteSet(D), NEW g, NEW h,
         \A x \in D : g[x] \in Int /\ h[x] \in Int /\ g[x] <= h[x]
  PROVE  /\ Sum(g, D) <= Sum(h, D)
         /\ (\E x \in D : g[x] < h[x]) => Sum(g, D) < Sum(h, D)
<1> DEFINE d == [x \in D |-> h[x] - g[x]]
<1>1. \A x \in D : d[x] \in Nat /\ d[x] = h[x] - g[x]
  OBVIOUS
<1> HIDE DEF d
<1>2. \A x \in D : h[x] = g[x] + d[x]
  BY <1>1
<1>3. Sum(h, D) = Sum(g, D) + Sum(d, D)
  BY <1>1, <1>2, SumPlus
<1>4. Sum(g, D) \in Int /\ Sum(d, D) \in Nat /\ \A x \in D : d[x] <= Sum(d, D)
  BY <1>1, SumIsInt, SumIsNat, SumOfNats
<1>5. ASSUME NEW x \in D, g[x] < h[x]
      PROVE  0 < Sum(d, D)
  BY <1>1, <1>4, <1>5
<1> QED BY <1>3, <1>4, <1>5

(* Only the terms in S count if the others are zero.                        *)
LEMMA SumPart ==
  ASSUME NEW D, IsFiniteSet(D), NEW S \in SUBSET D, NEW g, \A x \in D : g[x] \in Int,
         \A x \in D \ S : g[x] = 0
  PROVE  Sum(g, S) = Sum(g, D)
<1> DEFINE G == {s \in SUBSET D : Sum(g, s \cap S) = Sum(g, s)}
<1>1. {} \in G
  <2>1. {} \cap S = {}
    OBVIOUS
  <2> QED BY <2>1
<1>2. ASSUME NEW s \in SUBSET D, s # {}, s \ {Pick(s)} \in G
      PROVE  s \in G
  <2>1. PICK x : x = Pick(s)
    OBVIOUS
  <2>2. IsFiniteSet(s) /\ x \in s /\ x \in D /\ IsFiniteSet(s \cap S)
    BY <1>2, <2>1, PickIn, FS_Subset
  <2>3. Sum(g, s) = g[x] + Sum(g, s \ {x})
    BY <1>2, <2>1, <2>2, SumEquation
  <2>4. Sum(g, (s \ {x}) \cap S) = Sum(g, s \ {x})
    BY <1>2, <2>1
  <2>5. CASE x \in S
    <3>1. (s \ {x}) \cap S = (s \cap S) \ {x} /\ x \in s \cap S
      BY <2>2, <2>5
    <3>2. \A y \in s \cap S : g[y] \in Int
      OBVIOUS
    <3>3. Sum(g, s \cap S) = g[x] + Sum(g, (s \cap S) \ {x})
      BY <2>2, <3>1, <3>2, SumTakesAny
    <3> QED BY <2>3, <2>4, <3>1, <3>3
  <2>6. CASE x \notin S
    <3>1. (s \ {x}) \cap S = s \cap S
      BY <2>6
    <3>2. g[x] = 0
      BY <2>2, <2>6
    <3>3. Sum(g, s \ {x}) \in Int
      <4>1. IsFiniteSet(s \ {x}) /\ \A y \in s \ {x} : g[y] \in Int
        BY <2>2, FS_Subset
      <4> QED BY <4>1, SumIsInt
    <3>4. Sum(g, s \cap S) = Sum(g, s \ {x})
      BY <2>4, <3>1
    <3>5. Sum(g, s \cap S) = Sum(g, s)
      BY <2>3, <3>2, <3>3, <3>4
    <3> QED BY <3>5
  <2> QED BY <2>5, <2>6
<1> HIDE DEF G
<1>3. D \in G
  BY <1>1, <1>2, SubsetInduction
<1>4. D \cap S = S
  OBVIOUS
<1> QED BY <1>3, <1>4 DEF G

(* More natural terms make no smaller a sum.                                *)
LEMMA SumOfMore ==
  ASSUME NEW D, IsFiniteSet(D), NEW S \in SUBSET D, NEW g, \A x \in D : g[x] \in Nat
  PROVE  Sum(g, S) <= Sum(g, D)
<1> DEFINE h == [x \in D |-> IF x \in S THEN g[x] ELSE 0]
<1>1. /\ \A x \in D : h[x] \in Int /\ g[x] \in Int /\ h[x] <= g[x]
      /\ \A x \in D \ S : h[x] = 0
      /\ \A x \in S : g[x] = h[x]
  OBVIOUS
<1> HIDE DEF h
<1>2. Sum(h, S) = Sum(h, D)
  BY <1>1, SumPart
<1>3. Sum(h, D) <= Sum(g, D)
  BY <1>1, SumMono
<1>4. Sum(g, S) = Sum(h, S)
  <2>1. IsFiniteSet(S) /\ Agree(g, h, S)
    BY <1>1, FS_Subset DEF Agree
  <2> QED BY <2>1, SumAgrees
<1> QED BY <1>2, <1>3, <1>4

(* Ones are counted.                                                        *)
LEMMA SumOfOnes ==
  ASSUME NEW D, IsFiniteSet(D), NEW g, \A x \in D : g[x] = 1
  PROVE  Sum(g, D) = Cardinality(D)
<1> DEFINE G == {s \in SUBSET D : Sum(g, s) = Cardinality(s)}
<1>1. {} \in G
  BY FS_EmptySet, SumEquation
<1>2. ASSUME NEW s \in SUBSET D, s # {}, s \ {Pick(s)} \in G
      PROVE  s \in G
  <2>1. IsFiniteSet(s) /\ Pick(s) \in s /\ Pick(s) \in D
    BY <1>2, PickIn, FS_Subset
  <2>2. Sum(g, s) = g[Pick(s)] + Sum(g, s \ {Pick(s)})
    BY <1>2, <2>1, SumEquation
  <2>3. /\ Cardinality(s \ {Pick(s)}) = Cardinality(s) - 1
        /\ Cardinality(s) \in Nat
    BY <2>1, RestIsSmaller
  <2> QED BY <1>2, <2>1, <2>2, <2>3
<1> HIDE DEF G
<1>3. D \in G
  BY <1>1, <1>2, SubsetInduction
<1> QED BY <1>3 DEF G

----------------------------------------------------------------------------
(* The Gantt chart.                                                         *)
SliceLengths(chart) == [i \in DOMAIN chart |-> chart[i].end - chart[i].start]
SlicesOf(chart, pid) == {i \in DOMAIN chart : chart[i].pid = pid}
Charged(chart, pid) == Sum(SliceLengths(chart), SlicesOf(chart, pid))

(* A chart without gaps or overlaps that ends now.                          *)
Seamless(chart, now) ==
    /\ \A i \in DOMAIN chart :
          /\ chart[i].start < chart[i].end
          /\ chart[i].start = IF i = 1 THEN 0 ELSE chart[i-1].end
          /\ i > 1 => chart[i].pid # chart[i-1].pid
    /\ now = IF chart = << >> THEN 0 ELSE chart[Len(chart)].end

LEMMA SlicesFinite ==
  ASSUME NEW chart \in Seq(GanttEntry), NEW pid
  PROVE  /\ IsFiniteSet(SlicesOf(chart, pid))
         /\ \A i \in DOMAIN chart : SliceLengths(chart)[i] \in Int
         /\ Charged(chart, pid) \in Int
<1>1. DOMAIN chart = 1..Len(chart) /\ Len(chart) \in Nat
  BY LenProperties
<1>2. IsFiniteSet(SlicesOf(chart, pid))
  <2>1. IsFiniteSet(1..Len(chart)) /\ SlicesOf(chart, pid) \subseteq 1..Len(chart)
    BY <1>1, FS_Interval DEF SlicesOf
  <2> QED BY <2>1, FS_Subset
<1>3. \A i \in DOMAIN chart : SliceLengths(chart)[i] \in Int
  <2>1. \A i \in DOMAIN chart : chart[i] \in GanttEntry
    BY <1>1, ElementOfSeq
  <2> QED BY <2>1 DEF SliceLengths, GanttEntry
<1>4. Charged(chart, pid) \in Int
  <2>1. \A i \in SlicesOf(chart, pid) : SliceLengths(chart)[i] \in Int
    BY <1>3 DEF SlicesOf
  <2> QED BY <1>2, <2>1, SumIsInt DEF Charged
<1> QED BY <1>2, <1>3, <1>4

(* addGanttEntry charges one more tick to a PID.                            *)
LEMMA ChartGrows ==
  ASSUME NEW chart \in Seq(GanttEntry), NEW now \in Nat, Seamless(chart, now),
         NEW pid \in Int, NEW new, new = addGanttEntry(chart, pid, now)
  PROVE  /\ Seamless(new, now + 1)
         /\ \A q \in Int : Charged(new, q) = IF q = pid THEN Charged(chart, q) + 1
                                             ELSE Charged(chart, q)
<1> DEFINE n == Len(chart)
<1>1. DOMAIN chart = 1..n /\ n \in Nat
  BY LenProperties
<1>2. \A i \in 1..n : /\ chart[i] \in GanttEntry
                      /\ chart[i].start \in Nat /\ chart[i].end \in Nat /\ chart[i].pid \in Int
  <2>1. \A i \in 1..n : chart[i] \in GanttEntry
    BY <1>1, ElementOfSeq
  <2> QED BY <2>1 DEF GanttEntry
<1>3. chart = << >> <=> n = 0
  BY EmptySeq
<1>4. CASE n > 0 /\ chart[n].pid = pid
  <2>1. chart[n].end = now /\ n \in 1..n
    BY <1>1, <1>3, <1>4 DEF Seamless
  <2> DEFINE e == [chart[n] EXCEPT !.end = now + 1]
  <2>2. new = [chart EXCEPT ![n] = e]
    BY <1>3, <1>4, <2>1 DEF addGanttEntry
  <2>3. e.pid = pid /\ e.start = chart[n].start /\ e.end = now + 1
    BY <1>2, <1>4, <2>1 DEF GanttEntry
  <2> HIDE DEF e
  <2>4. DOMAIN new = 1..n /\ new[n] = e /\ \A i \in 1..n : i # n => new[i] = chart[i]
    BY <1>1, <2>1, <2>2
  <2>5. new \in Seq(GanttEntry) /\ Len(new) = n /\ new # << >>
    <3>1. e \in GanttEntry
      <4>1. PICK b \in GanttEntry : b = chart[n]
        BY <1>2, <2>1
      <4>2. PICK m \in Nat : m = now + 1
        OBVIOUS
      <4>3. [b EXCEPT !.end = m] \in GanttEntry
        BY DEF GanttEntry
      <4> QED BY <4>1, <4>2, <4>3 DEF e
    <3>2. new \in Seq(GanttEntry) /\ Len(new) = n
      BY <2>1, <2>2, <3>1, ExceptSeq
    <3> QED BY <1>4, <3>2, EmptySeq
  <2>6. Seamless(new, now + 1)
    <3>1. ASSUME NEW i \in 1..n
          PROVE  /\ new[i].start < new[i].end
                 /\ new[i].start = IF i = 1 THEN 0 ELSE new[i-1].end
                 /\ i > 1 => new[i].pid # new[i-1].pid
      <4>1. /\ chart[i].start < chart[i].end
            /\ chart[i].start = IF i = 1 THEN 0 ELSE chart[i-1].end
            /\ i > 1 => chart[i].pid # chart[i-1].pid
        BY <1>1 DEF Seamless
      <4>2. i > 1 => i - 1 \in 1..n /\ new[i-1] = chart[i-1]
        <5> HIDE DEF n
        <5>1. i > 1 => i - 1 \in 1..n /\ i - 1 # n
          BY <1>1
        <5> QED BY <2>4, <5>1
      <4>3. CASE i = n
        BY <1>2, <1>4, <2>1, <2>3, <2>4, <4>1, <4>2, <4>3
      <4>4. CASE i # n
        BY <2>4, <4>1, <4>2, <4>4
      <4> QED BY <4>3, <4>4
    <3> QED BY <2>3, <2>4, <2>5, <3>1 DEF Seamless
  <2>7. ASSUME NEW q \in Int
        PROVE  Charged(new, q) = IF q = pid THEN Charged(chart, q) + 1 ELSE Charged(chart, q)
    <3> DEFINE S == SlicesOf(chart, q)
               g == SliceLengths(chart)
               h == SliceLengths(new)
    <3>1. SlicesOf(new, q) = S
      BY <1>1, <1>4, <2>1, <2>3, <2>4 DEF SlicesOf
    <3>2. IsFiniteSet(S) /\ (\A i \in S : g[i] \in Int) /\ S \subseteq 1..n
      BY <1>1, SlicesFinite DEF SlicesOf
    <3>3. \A i \in 1..n : i # n => g[i] = h[i]
      BY <1>1, <2>4 DEF SliceLengths
    <3>4. h[n] = g[n] + 1 /\ h[n] \in Int /\ g[n] \in Int
      <4>1. g[n] = now - chart[n].start /\ h[n] = (now + 1) - chart[n].start
        BY <1>1, <2>1, <2>3, <2>4 DEF SliceLengths
      <4>2. chart[n].start \in Nat
        BY <1>2, <2>1
      <4> HIDE DEF g, h
      <4> QED BY <4>1, <4>2
    <3>5. CASE q = pid
      <4>1. n \in S
        BY <1>1, <1>4, <2>1, <3>5 DEF SlicesOf
      <4>2. Agree(g, h, S \ {n})
        BY <3>2, <3>3 DEF Agree
      <4> HIDE DEF S, g, h
      <4>3. Sum(h, S) = Sum(g, S) + (h[n] - g[n])
        BY <3>2, <3>4, <4>1, <4>2, SumChanges
      <4>4. Sum(g, S) \in Int
        BY <3>2, SumIsInt
      <4>5. Sum(h, S) = Sum(g, S) + 1
        BY <3>4, <4>3, <4>4
      <4> QED BY <3>1, <3>5, <4>5 DEF Charged, S, g, h
    <3>6. CASE q # pid
      <4>1. n \notin S
        BY <1>1, <1>4, <2>1, <3>6 DEF SlicesOf
      <4>2. Agree(g, h, S)
        BY <3>2, <3>3, <4>1 DEF Agree
      <4> HIDE DEF S, g, h
      <4>3. Sum(g, S) = Sum(h, S)
        BY <3>2, <4>2, SumAgrees
      <4> QED BY <3>1, <3>6, <4>3 DEF Charged, S, g, h
    <3> QED BY <3>5, <3>6
  <2> QED BY <2>6, <2>7
<1>5. CASE ~ (n > 0 /\ chart[n].pid = pid)
  <2> DEFINE e == [pid |-> pid, start |-> now, end |-> now + 1]
  <2>1. new = Append(chart, e)
    <3>1. ~ (chart # << >> /\ chart[Len(chart)].pid = pid)
      <4> HIDE DEF n
      <4>1. chart # << >> => n > 0
        BY <1>1, <1>3
      <4> QED BY <1>5, <4>1 DEF n
    <3> QED BY <3>1 DEF addGanttEntry
  <2>2. e \in GanttEntry /\ e.pid = pid /\ e.start = now /\ e.end = now + 1
    BY DEF GanttEntry
  <2> HIDE DEF e
  <2>3. /\ new \in Seq(GanttEntry) /\ Len(new) = n + 1 /\ new[n + 1] = e
        /\ \A i \in 1..n : new[i] = chart[i]
    BY <2>1, <2>2, AppendProperties
  <2>4. DOMAIN new = 1..(n + 1) /\ new # << >>
    BY <1>1, <2>3, LenProperties, EmptySeq
  <2>5. Seamless(new, now + 1)
    <3>1. ASSUME NEW i \in 1..(n + 1)
          PROVE  /\ new[i].start < new[i].end
                 /\ new[i].start = IF i = 1 THEN 0 ELSE new[i-1].end
                 /\ i > 1 => new[i].pid # new[i-1].pid
      <4>1. i > 1 => i - 1 \in 1..n /\ new[i-1] = chart[i-1]
        BY <1>1, <2>3
      <4>2. CASE i = n + 1
        <5>1. CASE n = 0
          <6>1. now = 0
            BY <1>3, <5>1 DEF Seamless
          <6> QED BY <2>2, <2>3, <4>2, <5>1, <6>1
        <5>2. CASE n # 0
          <6>1. now = chart[n].end /\ chart[n].pid # pid /\ i > 1 /\ i # 1 /\ i - 1 = n
            BY <1>1, <1>3, <1>5, <4>2, <5>2 DEF Seamless
          <6> QED BY <2>2, <2>3, <4>1, <4>2, <6>1
        <5> QED BY <5>1, <5>2
      <4>3. CASE i # n + 1
        <5>1. i \in 1..n
          BY <1>1, <4>3
        <5>2. /\ chart[i].start < chart[i].end
              /\ chart[i].start = IF i = 1 THEN 0 ELSE chart[i-1].end
              /\ i > 1 => chart[i].pid # chart[i-1].pid
          BY <1>1, <5>1 DEF Seamless
        <5> QED BY <1>1, <2>3, <4>1, <5>1, <5>2
      <4> QED BY <4>2, <4>3
    <3>2. new[Len(new)].end = now + 1
      BY <2>2, <2>3
    <3> QED BY <2>4, <3>1, <3>2 DEF Seamless
  <2>6. ASSUME NEW q \in Int
        PROVE  Charged(new, q) = IF q = pid THEN Charged(chart, q) + 1 ELSE Charged(chart, q)
    <3> DEFINE S == SlicesOf(chart, q)
               g == SliceLengths(chart)
               h == SliceLengths(new)
    <3>1. IsFiniteSet(S) /\ (\A i \in S : g[i] \in Int) /\ S \subseteq 1..n
      BY <1>1, SlicesFinite DEF SlicesOf
    <3>2. Agree(g, h, S)
      <4>1. \A i \in 1..n : i \in 1..(n + 1)
        BY <1>1
      <4> QED BY <1>1, <2>3, <2>4, <3>1, <4>1 DEF SliceLengths, Agree
    <3>3. h[n + 1] = 1 /\ n + 1 \notin S
      <4>1. n + 1 \in 1..(n + 1) /\ n + 1 \notin 1..n
        BY <1>1
      <4> QED BY <2>2, <2>3, <2>4, <3>1, <4>1 DEF SliceLengths
    <3>3a. SlicesOf(new, q) = IF q = pid THEN S \cup {n + 1} ELSE S
      <4>1. 1..(n + 1) = 1..n \cup {n + 1} /\ n + 1 \notin 1..n
        BY <1>1
      <4> QED BY <1>1, <2>2, <2>3, <2>4, <4>1 DEF SlicesOf
    <3> HIDE DEF S, g, h
    <3>4. Sum(g, S) = Sum(h, S) /\ Sum(g, S) \in Int
      BY <3>1, <3>2, SumAgrees, SumIsInt
    <3>5. CASE q = pid
      <4>1. \A y \in S \cup {n + 1} : h[y] \in Int
        BY <3>1, <3>2, <3>3 DEF Agree
      <4>2. Sum(h, S \cup {n + 1}) = h[n + 1] + Sum(h, S)
        BY <3>1, <3>3, <4>1, SumInserts
      <4>3. Sum(h, S \cup {n + 1}) = Sum(g, S) + 1
        BY <3>3, <3>4, <4>2
      <4> QED BY <3>3a, <3>5, <4>3 DEF Charged, S, g, h
    <3>6. CASE q # pid
      BY <3>3a, <3>4, <3>6 DEF Charged, S, g, h
    <3> QED BY <3>5, <3>6
  <2> QED BY <2>5, <2>6
<1> QED BY <1>4, <1>5

----------------------------------------------------------------------------
(* The process a tick serves, and where the tick is charged.                *)
LEMMA ClocksCompose ==
  ASSUME NEW a, NEW b, NEW c, SameClock(a, b), SameClock(b, c)
  PROVE  SameClock(a, c)
BY DEF SameClock

LEMMA DispatchKeepsChart ==
  ASSUME Static, NEW s, Sound(s), NEW draw \in Nat, NEW t, t = dispatch(s, draw)
  PROVE  SameClock(s, t)
<1>1. CASE s.currentProcess = None
  <2>1. t = scheduleNextProcess(s, draw)
    BY <1>1 DEF dispatch
  <2> QED BY <1>1, <2>1, ScheduleDoes
<1>2. CASE s.currentProcess # None /\ ~ Preempt(s)
  <2>1. t = s
    BY <1>2, DispatchDoes
  <2> QED BY <2>1 DEF SameClock
<1>3. CASE s.currentProcess # None /\ Preempt(s)
  <2>1. PICK u : u = preemptCurrentProcess(s)
    OBVIOUS
  <2>2. t = scheduleNextProcess(u, draw)
    BY <1>3, <2>1, CurrentIncomplete DEF dispatch
  <2>3. Sound(u) /\ u.currentProcess = None
    BY <1>3, <2>1, PreemptSound
  <2>4. SameClock(s, u)
    BY <1>3, <2>1, PreemptDoes
  <2>5. SameClock(u, t)
    BY <2>2, <2>3, ScheduleDoes
  <2> QED BY <2>4, <2>5, ClocksCompose
<1> QED BY <1>1, <1>2, <1>3

LEMMA ExpireKeepsChart ==
  ASSUME Static, NEW s, Sound(s), NEW draw \in Nat, NEW t, t = expireQuantum(s, draw)
  PROVE  SameClock(s, t)
<1>1. CASE t = s
  BY <1>1 DEF SameClock
<1>2. CASE t # s
  <2>1. PICK p : p = s.currentProcess
    OBVIOUS
  <2>2. PICK u : u = requeueExpired(s, p)
    OBVIOUS
  <2>3. s.currentProcess # None /\ t = scheduleNextProcess(u, draw)
    BY <1>2, <2>1, <2>2 DEF expireQuantum
  <2>4. Sound(u) /\ u.currentProcess = None
    BY <2>1, <2>2, <2>3, RequeueExpiredSound, RequeueExpiredDoes
  <2>5. SameClock(s, u)
    BY <2>1, <2>2, <2>3, RequeueExpiredDoes
  <2>6. SameClock(u, t)
    BY <2>3, <2>4, ScheduleDoes
  <2> QED BY <2>5, <2>6, ClocksCompose
<1> QED BY <1>1, <1>2

(* What every tick does to the clock and to the struct before the CPU is    *)
(* used.                                                                    *)
LEMMA BeforeServing ==
  ASSUME Static, NEW s, Sound(s), NEW draw \in Nat, NEW redraw \in Nat, NEW t,
         NEW i, NEW d, NEW w, Stages(s, t, draw, redraw, i, d, w)
  PROVE  /\ SameClock(s, d)
         /\ \A p \in Procs : /\ d.pcb[p].remainingTime = s.pcb[p].remainingTime
                             /\ t.pcb[p].remainingTime = w.pcb[p].remainingTime
         /\ t.totalIdleTime = w.totalIdleTime
         /\ t.ganttChart = w.ganttChart
<1>1. /\ i = tickIOQueue(checkArrivals(s)) /\ d = dispatch(i, draw) /\ t = advanceClock(w)
      /\ Sound(i) /\ Sound(d) /\ Sound(w)
  BY DEF Stages
<1>2. SameClock(s, d)
  <2>1. PICK a : a = checkArrivals(s)
    OBVIOUS
  <2>2. Sound(a) /\ i = tickIOQueue(a) /\ SameClock(s, a)
    BY <1>1, <2>1, ArrivalsSound, ArrivalsDo
  <2>3. SameClock(a, i)
    BY <2>2, TickIODoes
  <2>4. SameClock(i, d)
    BY <1>1, DispatchKeepsChart
  <2>5. SameClock(s, i)
    BY <2>2, <2>3, ClocksCompose
  <2> QED BY <2>4, <2>5, ClocksCompose
<1>3. ASSUME NEW p \in Procs
      PROVE  /\ d.pcb[p].remainingTime = s.pcb[p].remainingTime
             /\ t.pcb[p].remainingTime = w.pcb[p].remainingTime
  <2>1. i.pcb[p].remainingTime = s.pcb[p].remainingTime
    BY <1>1, ReadyingDoes
  <2>2. d.pcb[p].remainingTime = i.pcb[p].remainingTime
    BY <1>1, DispatchDoes
  <2>3. t.pcb[p].remainingTime = w.pcb[p].remainingTime
    BY <1>1, AdvanceDoes
  <2> QED BY <2>1, <2>2, <2>3
<1>4. t.totalIdleTime = w.totalIdleTime /\ t.ganttChart = w.ganttChart
  BY <1>1, AdvanceDoes
<1> QED BY <1>2, <1>3, <1>4

(* A tick that serves nobody is charged as idle.                            *)
LEMMA IdleTickCharges ==
  ASSUME Static, NEW s, Sound(s), NEW draw \in Nat, NEW redraw \in Nat, NEW t,
         NEW i, NEW d, NEW w, Stages(s, t, draw, redraw, i, d, w), d.currentProcess = None
  PROVE  /\ t.ganttChart = addGanttEntry(s.ganttChart, IdlePID, s.currentTime)
         /\ t.totalIdleTime = s.totalIdleTime + 1
         /\ \A p \in Procs : t.pcb[p].remainingTime = s.pcb[p].remainingTime
<1>1. w = idle(d) /\ Sound(d)
  BY DEF Stages
<1>2. /\ w.totalIdleTime = d.totalIdleTime + 1
      /\ w.ganttChart = addGanttEntry(d.ganttChart, IdlePID, d.currentTime)
  BY <1>1, IdleDoes
<1>3. w.pcb = d.pcb
  BY <1>1, IdleDoes
<1>4. SameClock(s, d)
  BY BeforeServing
<1>5. \A p \in Procs : /\ d.pcb[p].remainingTime = s.pcb[p].remainingTime
                       /\ t.pcb[p].remainingTime = w.pcb[p].remainingTime
  BY BeforeServing
<1>6. t.totalIdleTime = w.totalIdleTime /\ t.ganttChart = w.ganttChart
  BY BeforeServing
<1> QED BY <1>2, <1>3, <1>4, <1>5, <1>6 DEF SameClock

(* A tick that serves c is charged to the PID of c.                         *)
LEMMA BusyTickCharges ==
  ASSUME Static, NEW s, Sound(s), NEW draw \in Nat, NEW redraw \in Nat, NEW t,
         NEW i, NEW d, NEW w, Stages(s, t, draw, redraw, i, d, w),
         NEW c, c = d.currentProcess, c # None
  PROVE  /\ c \in Procs
         /\ t.ganttChart = addGanttEntry(s.ganttChart, task[c].pid, s.currentTime)
         /\ t.totalIdleTime = s.totalIdleTime
         /\ t.pcb[c].remainingTime = s.pcb[c].remainingTime - 1
         /\ \A p \in Procs : p # c => t.pcb[p].remainingTime = s.pcb[p].remainingTime
<1>1. Sound(d) /\ w = expireQuantum(checkIOBurst(chargeTick(executeProcess(d))), redraw)
  BY DEF Stages
<1>2. c \in Procs
  BY <1>1, CurrentFacts
<1>3. PICK e : e = executeProcess(d)
  OBVIOUS
<1>4. PICK g : g = chargeTick(e)
  OBVIOUS
<1>5. PICK h : h = checkIOBurst(g)
  OBVIOUS
<1>6. Sound(e) /\ Sound(g) /\ Sound(h)
  BY <1>1, <1>3, <1>4, <1>5, ExecuteSound, ChargeSound, CheckIOSound
<1>7. /\ e.currentTime = d.currentTime /\ e.totalIdleTime = d.totalIdleTime
      /\ e.ganttChart = addGanttEntry(d.ganttChart, task[c].pid, d.currentTime)
  BY <1>1, <1>3, ExecuteDoes
<1>8. SameClock(e, w)
  <2>1. SameClock(e, g)
    BY <1>4, <1>6, ChargeDoes
  <2>2. SameClock(g, h)
    <3>1. CASE h = g
      BY <3>1 DEF SameClock
    <3>2. CASE h # g
      BY <1>5, <1>6, <3>2, CheckIODoes
    <3> QED BY <3>1, <3>2
  <2>3. SameClock(h, w)
    BY <1>1, <1>3, <1>4, <1>5, <1>6, ExpireKeepsChart
  <2>4. SameClock(e, h)
    BY <2>1, <2>2, ClocksCompose
  <2> QED BY <2>3, <2>4, ClocksCompose
<1>9. ASSUME NEW r \in Procs
      PROVE  w.pcb[r].remainingTime = IF r = c THEN d.pcb[r].remainingTime - 1
                                      ELSE d.pcb[r].remainingTime
  BY <1>1, ServeDoes
<1>10. SameClock(s, d)
  BY BeforeServing
<1>11. \A p \in Procs : /\ d.pcb[p].remainingTime = s.pcb[p].remainingTime
                        /\ t.pcb[p].remainingTime = w.pcb[p].remainingTime
  BY BeforeServing
<1>12. t.totalIdleTime = w.totalIdleTime /\ t.ganttChart = w.ganttChart
  BY BeforeServing
<1>13. /\ t.pcb[c].remainingTime = s.pcb[c].remainingTime - 1
       /\ \A p \in Procs : p # c => t.pcb[p].remainingTime = s.pcb[p].remainingTime
  BY <1>2, <1>9, <1>11
<1> QED BY <1>2, <1>7, <1>8, <1>10, <1>12, <1>13 DEF SameClock

----------------------------------------------------------------------------
(* The chart charges each PID with the CPU time of its processes, and the   *)
(* IDLE slices are the idle time.                                           *)
UsedTime(s) == [p \in Procs |-> task[p].burstTime - s.pcb[p].remainingTime]
Charted(s) ==
    /\ Seamless(s.ganttChart, s.currentTime)
    /\ Charged(s.ganttChart, IdlePID) = s.totalIdleTime
    /\ \A pid \in Nat : Charged(s.ganttChart, pid) = Sum(UsedTime(s), OfPID(Procs, pid))

LEMMA UsedFacts ==
  ASSUME Static, NEW s, Sound(s), NEW pid
  PROVE  /\ IsFiniteSet(OfPID(Procs, pid))
         /\ \A p \in Procs : UsedTime(s)[p] \in Int
         /\ Sum(UsedTime(s), OfPID(Procs, pid)) \in Int
<1>1. IsFiniteSet(OfPID(Procs, pid)) /\ OfPID(Procs, pid) \subseteq Procs
  BY ProcsAssumption, FS_Subset DEF OfPID
<1>2. ASSUME NEW p \in Procs
      PROVE  UsedTime(s)[p] \in Int
  <2>1. task[p].burstTime \in Nat /\ s.pcb[p].remainingTime \in Nat
    BY SoundFacts DEF Task, PCB
  <2> QED BY <2>1 DEF UsedTime
<1> QED BY <1>1, <1>2, SumIsInt

LEMMA TickCharted ==
  ASSUME Static, NEW s, Sound(s), Charted(s), NEW draw \in Nat, NEW redraw \in Nat,
         NEW t, t = executeTimeUnit(s, draw, redraw)
  PROVE  Charted(t)
<1>1. PICK i, d, w : Stages(s, t, draw, redraw, i, d, w)
  BY TickStages
<1>2. PICK c : c = d.currentProcess
  OBVIOUS
<1>3. Sound(t)
  BY TickSound
<1>4. /\ s.ganttChart \in Seq(GanttEntry) /\ s.currentTime \in Nat /\ s.totalIdleTime \in Nat
  BY DEF Sound, Simulator
<1>5. t.currentTime = s.currentTime + 1
  BY TickClock
<1>6. Seamless(s.ganttChart, s.currentTime)
  BY DEF Charted
<1>7. CASE c = None
  <2>0. d.currentProcess = None
    BY <1>2, <1>7
  <2>1. /\ t.ganttChart = addGanttEntry(s.ganttChart, IdlePID, s.currentTime)
        /\ t.totalIdleTime = s.totalIdleTime + 1
        /\ \A p \in Procs : t.pcb[p].remainingTime = s.pcb[p].remainingTime
    BY <1>1, <2>0, IdleTickCharges
  <2>2. UsedTime(t) = UsedTime(s)
    BY <2>1 DEF UsedTime
  <2>3. IdlePID \in Int /\ IdlePID \notin Nat
    BY DEF IdlePID
  <2>4. /\ Seamless(t.ganttChart, s.currentTime + 1)
        /\ \A q \in Int : Charged(t.ganttChart, q) =
               IF q = IdlePID THEN Charged(s.ganttChart, q) + 1 ELSE Charged(s.ganttChart, q)
    BY <1>4, <1>6, <2>1, <2>3, ChartGrows
  <2>5. Charged(t.ganttChart, IdlePID) = t.totalIdleTime
    BY <2>1, <2>3, <2>4 DEF Charted
  <2>6. \A pid \in Nat : Charged(t.ganttChart, pid) = Sum(UsedTime(t), OfPID(Procs, pid))
    BY <2>2, <2>3, <2>4 DEF Charted
  <2> QED BY <1>5, <2>4, <2>5, <2>6 DEF Charted
<1>8. CASE c # None
  <2>1. /\ c \in Procs
        /\ t.ganttChart = addGanttEntry(s.ganttChart, task[c].pid, s.currentTime)
        /\ t.totalIdleTime = s.totalIdleTime
        /\ t.pcb[c].remainingTime = s.pcb[c].remainingTime - 1
        /\ \A p \in Procs : p # c => t.pcb[p].remainingTime = s.pcb[p].remainingTime
    BY <1>1, <1>2, <1>8, BusyTickCharges
  <2>2. PICK k \in Nat : k = task[c].pid
    BY <2>1, SoundFacts DEF Task
  <2>3. k = PID[c] /\ k # IdlePID /\ IdlePID \in Int /\ k \in Int
    BY <2>1, <2>2 DEF PID, IdlePID
  <2>4. /\ Seamless(t.ganttChart, s.currentTime + 1)
        /\ \A q \in Int : Charged(t.ganttChart, q) =
               IF q = k THEN Charged(s.ganttChart, q) + 1 ELSE Charged(s.ganttChart, q)
    BY <1>4, <1>6, <2>1, <2>2, ChartGrows
  <2>5. Charged(t.ganttChart, IdlePID) = t.totalIdleTime
    BY <2>1, <2>3, <2>4 DEF Charted
  <2>6. /\ UsedTime(t)[c] = UsedTime(s)[c] + 1
        /\ \A p \in Procs : p # c => UsedTime(t)[p] = UsedTime(s)[p]
    <3>1. task[c].burstTime \in Nat /\ s.pcb[c].remainingTime \in Nat
      BY <2>1, SoundFacts DEF Task, PCB
    <3> QED BY <2>1, <3>1 DEF UsedTime
  <2>7. ASSUME NEW pid \in Nat
        PROVE  Charged(t.ganttChart, pid) = Sum(UsedTime(t), OfPID(Procs, pid))
    <3> DEFINE S == OfPID(Procs, pid)
               g == UsedTime(s)
               h == UsedTime(t)
    <3>1. /\ IsFiniteSet(S) /\ S \subseteq Procs
          /\ \A p \in Procs : g[p] \in Int /\ h[p] \in Int
          /\ Sum(g, S) \in Int
      BY <1>3, UsedFacts DEF OfPID
    <3>2. Charged(s.ganttChart, pid) = Sum(g, S)
      BY DEF Charted
    <3>3. CASE pid = k
      <4>1. c \in S
        BY <2>1, <2>3, <3>3 DEF OfPID
      <4>2. Agree(g, h, S \ {c})
        BY <2>6, <3>1 DEF Agree
      <4>3. h[c] = g[c] + 1
        BY <2>6
      <4> HIDE DEF S, g, h
      <4>4. Sum(h, S) = Sum(g, S) + (h[c] - g[c])
        BY <3>1, <4>1, <4>2, SumChanges
      <4>5. g[c] \in Int
        BY <3>1, <4>1
      <4>6. Sum(h, S) = Sum(g, S) + 1
        BY <3>1, <4>3, <4>4, <4>5
      <4> QED BY <2>3, <2>4, <3>2, <3>3, <4>6 DEF S, g, h
    <3>4. CASE pid # k
      <4>1. c \notin S
        BY <2>1, <2>3, <3>4 DEF OfPID
      <4>2. Agree(g, h, S)
        BY <2>6, <3>1, <4>1 DEF Agree
      <4> HIDE DEF S, g, h
      <4>3. Sum(g, S) = Sum(h, S)
        BY <3>1, <4>2, SumAgrees
      <4>4. pid \in Int
        OBVIOUS
      <4> QED BY <2>4, <3>2, <3>4, <4>3, <4>4 DEF S, g, h
    <3> QED BY <3>3, <3>4
  <2> QED BY <1>5, <2>4, <2>5, <2>7 DEF Charted
<1> QED BY <1>7, <1>8

(* A struct in which nobody has run.                                        *)
LEMMA FreshCharted ==
  ASSUME Static, NEW t, t.ganttChart = << >>, t.currentTime = 0, t.totalIdleTime = 0,
         \A p \in Procs : t.pcb[p] = InitialPCB(p)
  PROVE  Charted(t)
<1>1. Seamless(t.ganttChart, t.currentTime)
  <2>1. DOMAIN t.ganttChart = {}
    OBVIOUS
  <2> QED BY <2>1 DEF Seamless
<1>2. \A q \in Int : Charged(t.ganttChart, q) = 0
  <2>1. \A q \in Int : SlicesOf(t.ganttChart, q) = {}
    BY DEF SlicesOf
  <2> QED BY <2>1, SumEquation, FS_EmptySet DEF Charged
<1>3. ASSUME NEW p \in Procs
      PROVE  UsedTime(t)[p] = 0
  <2>1. PICK b : b = t.pcb[p]
    OBVIOUS
  <2>2. b.remainingTime = task[p].burstTime
    BY <2>1, InitialRemaining
  <2>3. task[p].burstTime \in Nat
    BY DEF Static, Task
  <2> QED BY <2>1, <2>2, <2>3 DEF UsedTime
<1>4. ASSUME NEW pid \in Nat
      PROVE  Sum(UsedTime(t), OfPID(Procs, pid)) = 0
  <2>1. IsFiniteSet(OfPID(Procs, pid)) /\ OfPID(Procs, pid) \subseteq Procs
    BY ProcsAssumption, FS_Subset DEF OfPID
  <2> QED BY <1>3, <2>1, SumOfZeros
<1>5. Charged(t.ganttChart, IdlePID) = t.totalIdleTime
  BY <1>2 DEF IdlePID
<1> QED BY <1>1, <1>2, <1>4, <1>5 DEF Charted

(* As for TickInv: the submitted fields do not change.                      *)
LEMMA NextCharted ==
  ASSUME Charted(sim'), UNCHANGED <<alg, task>>
  PROVE  Charted(sim)'
<1>1. UsedTime(sim)' = UsedTime(sim')
  BY DEF UsedTime
<1>2. \A pid \in Nat : OfPID(Procs, pid)' = OfPID(Procs, pid)
  BY DEF OfPID, PID
<1> QED BY <1>1, <1>2 DEF Charted

LEMMA ChartedInductive == Spec => []Charted(sim)
<1>1. Init /\ TickInv => Charted(sim)
  <2> SUFFICES ASSUME Init, TickInv PROVE Charted(sim)
    OBVIOUS
  <2>1. Static
    BY DEF TickInv, EngineInv
  <2>2. /\ sim.ganttChart = << >> /\ sim.currentTime = 0 /\ sim.totalIdleTime = 0
        /\ sim.pcb = [p \in Procs |-> InitialPCB(p)]
    BY DEF Init, NewSimulator
  <2>3. \A p \in Procs : sim.pcb[p] = InitialPCB(p)
    BY <2>2
  <2> QED BY <2>1, <2>2, <2>3, FreshCharted
<1>2. TickInv /\ Charted(sim) /\ [Next]_vars => Charted(sim)'
  <2> SUFFICES ASSUME TickInv, Charted(sim), [Next]_vars PROVE Charted(sim)'
    OBVIOUS
  <2>1. Static /\ Sound(sim) /\ Tracked(sim)
    BY DEF TickInv, EngineInv
  <2>2. ASSUME NEW p \in Procs, AddProcess(p) PROVE Charted(sim)'
    <3>1. /\ sim'.ganttChart = sim.ganttChart /\ sim'.currentTime = sim.currentTime
          /\ sim'.totalIdleTime = sim.totalIdleTime /\ sim'.pcb = sim.pcb
      BY <2>1, <2>2, AddDoes
    <3>2. UsedTime(sim') = UsedTime(sim)
      BY <3>1 DEF UsedTime
    <3>3. Charted(sim')
      BY <3>1, <3>2 DEF Charted
    <3> QED BY <2>2, <3>3, NextCharted DEF AddProcess
  <2>3. CASE Tick
    <3>1. PICK draw \in Nat, redraw \in Nat : sim' = executeTimeUnit(sim, draw, redraw)
      BY <2>3, DrawsAreNat DEF Tick
    <3>2. Charted(sim')
      BY <2>1, <3>1, TickCharted
    <3> QED BY <2>3, <3>2, NextCharted DEF Tick
  <2>4. CASE Reset
    <3>1. /\ sim'.currentTime = 0 /\ \A p \in Procs : sim'.pcb[p] = InitialPCB(p)
      BY <2>1, <2>4, ResetDoes
    <3>2. sim'.ganttChart = << >> /\ sim'.totalIdleTime = 0
      BY <2>1, <2>4 DEF Reset, Sound, Simulator
    <3>3. Charted(sim')
      BY <2>1, <3>1, <3>2, FreshCharted
    <3> QED BY <2>4, <3>3, NextCharted DEF Reset
  <2>5. CASE UNCHANGED vars
    <3>1. sim' = sim /\ UNCHANGED <<alg, task>>
      BY <2>5 DEF vars
    <3> QED BY <3>1, NextCharted
  <2> QED BY <2>2, <2>3, <2>4, <2>5 DEF Next
<1> QED BY <1>1, <1>2, TickInvInductive, PTL DEF Spec

(* The sums in ChartAccountsForTime are sums in the sense of this module.   *)
LEMMA ChartTimeIsSum ==
  ASSUME NEW pid, sim.ganttChart \in Seq(GanttEntry)
  PROVE  ChartTime(pid) = Charged(sim.ganttChart, pid)
<1> DEFINE D == SlicesOf(sim.ganttChart, pid)
           g == SliceLengths(sim.ganttChart)
           term(i) == sim.ganttChart[i].end - sim.ganttChart[i].start
           T(f) == f = [s \in SUBSET D |-> IF s = {} THEN 0
                                           ELSE term(Pick(s)) + f[s \ {Pick(s)}]]
<1>1. IsFiniteSet(D)
  BY SlicesFinite
<1>2. \A f : SumTable(f, SUBSET D, g) <=> T(f)
  BY PickIn DEF SumTable, SlicesOf, SliceLengths
<1>3. PICK k : k = CHOOSE f : T(f)
  OBVIOUS
<1>4. SumTable(Sums(g, D), SUBSET D, g)
  BY <1>1, TableExists
<1>5. SumTable(k, SUBSET D, g)
  <2> HIDE DEF T, D, g
  <2> QED BY <1>2, <1>3, <1>4
<1>6. ChartTime(pid) = k[D]
  BY <1>3 DEF ChartTime, MapThenSumSet, MapThenFoldSet, Pick, SlicesOf
<1>7. k[D] = Sum(g, D)
  <2> HIDE DEF D, g
  <2> QED BY <1>1, <1>5, TableGivesSum
<1> QED BY <1>6, <1>7 DEF Charged

LEMMA CPUTimeIsSum ==
  ASSUME NEW D \in SUBSET Procs
  PROVE  MapThenSumSet(CPUTimeUsed, D) = Sum(UsedTime(sim), D)
<1> DEFINE g == UsedTime(sim)
           T(f) == f = [s \in SUBSET D |-> IF s = {} THEN 0
                                           ELSE CPUTimeUsed(Pick(s)) + f[s \ {Pick(s)}]]
<1>1. IsFiniteSet(D)
  BY ProcsAssumption, FS_Subset
<1>2. \A f : SumTable(f, SUBSET D, g) <=> T(f)
  BY PickIn DEF SumTable, UsedTime, CPUTimeUsed
<1>3. PICK k : k = CHOOSE f : T(f)
  OBVIOUS
<1>4. SumTable(Sums(g, D), SUBSET D, g)
  BY <1>1, TableExists
<1>5. SumTable(k, SUBSET D, g)
  <2> HIDE DEF T, g
  <2> QED BY <1>2, <1>3, <1>4
<1>6. MapThenSumSet(CPUTimeUsed, D) = k[D]
  BY <1>3 DEF MapThenSumSet, MapThenFoldSet, Pick
<1> HIDE DEF g
<1> QED BY <1>1, <1>5, <1>6, TableGivesSum DEF g

(* ChartAccountsForTime for every workload: the chart is seamless, and      *)
(* every tick of it is one that a process used or that was counted idle.    *)
THEOREM TheChartIsComplete == Spec => []ChartAccountsForTime
<1>1. TickInv /\ Charted(sim) => ChartAccountsForTime
  <2> SUFFICES ASSUME TickInv, Charted(sim) PROVE ChartAccountsForTime
    OBVIOUS
  <2>1. Static /\ Sound(sim) /\ sim.ganttChart \in Seq(GanttEntry)
    BY DEF TickInv, EngineInv, Sound, Simulator
  <2>2. ChartTime(IdlePID) = sim.totalIdleTime
    BY <2>1, ChartTimeIsSum DEF Charted
  <2>3. ASSUME NEW p \in Procs
        PROVE  ChartTime(PID[p]) = MapThenSumSet(CPUTimeUsed, {r \in Procs : PID[r] = PID[p]})
    <3>1. PID[p] \in Nat
      BY <2>1 DEF PID, Static, Task
    <3>2. PICK pid \in Nat : pid = PID[p]
      BY <3>1
    <3>3. ChartTime(pid) = Sum(UsedTime(sim), OfPID(Procs, pid))
      BY <2>1, ChartTimeIsSum DEF Charted
    <3>4. PICK D \in SUBSET Procs : D = OfPID(Procs, pid) /\ D = {r \in Procs : PID[r] = PID[p]}
      BY <3>2 DEF OfPID
    <3>5. MapThenSumSet(CPUTimeUsed, D) = Sum(UsedTime(sim), D)
      BY CPUTimeIsSum
    <3> QED BY <3>2, <3>3, <3>4, <3>5
  <2> QED BY <2>2, <2>3 DEF ChartAccountsForTime, Charted, Seamless
<1> QED BY <1>1, TickInvInductive, ChartedInductive, PTL

----------------------------------------------------------------------------
(* The record of a process's life: the fields that, but for the waiting     *)
(* times that advanceClock adds to, only Execute and startIO write.         *)
SameRun(b, c) ==
    /\ c.remainingTime = b.remainingTime
    /\ c.startTime = b.startTime
    /\ c.completionTime = b.completionTime
    /\ c.turnaroundTime = b.turnaroundTime
    /\ c.responseTime = b.responseTime
    /\ c.hasStarted = b.hasStarted
    /\ c.ioCompleted = b.ioCompleted
SamePast(b, c) == SameRun(b, c) /\ c.waitingTime = b.waitingTime
PastKept(s, t) == \A p \in Procs : SamePast(s.pcb[p], t.pcb[p])

(* The ways in which the other methods rewrite a process.                   *)
Moved(b) == {b, [b EXCEPT !.state = "Ready"], [b EXCEPT !.state = "Running"],
             [b EXCEPT !.ioRemaining = 0, !.state = "Ready"],
             [b EXCEPT !.ioRemaining = b.ioRemaining - 1]}

LEMMA MovedKeepsPast ==
  ASSUME NEW b \in PCB, NEW c \in Moved(b)
  PROVE  SamePast(b, c)
BY DEF Moved, PCB, SameRun, SamePast

LEMMA PastsCompose ==
  ASSUME NEW a, NEW b, NEW c, PastKept(a, b), PastKept(b, c)
  PROVE  PastKept(a, c)
BY DEF PastKept, SamePast, SameRun

LEMMA MovingKeepsPast ==
  ASSUME NEW s \in Simulator, NEW t, \A p \in Procs : t.pcb[p] \in Moved(s.pcb[p])
  PROVE  PastKept(s, t)
<1>1. \A p \in Procs : s.pcb[p] \in PCB
  BY DEF Simulator
<1> QED BY <1>1, MovedKeepsPast DEF PastKept

LEMMA ArrivalsKeepPast ==
  ASSUME NEW s \in Simulator, NEW t, t = checkArrivals(s)
  PROVE  PastKept(s, t)
<1>1. ASSUME NEW p \in Procs
      PROVE  t.pcb[p] \in {s.pcb[p], [s.pcb[p] EXCEPT !.state = "Ready"]}
  BY DEF checkArrivals, Simulator
<1>2. \A p \in Procs : t.pcb[p] \in Moved(s.pcb[p])
  BY <1>1 DEF Moved
<1> QED BY <1>2, MovingKeepsPast

LEMMA TickIOKeepsPast ==
  ASSUME NEW s \in Simulator, NEW t, t = tickIOQueue(s)
  PROVE  PastKept(s, t)
<1>1. ASSUME NEW p \in Procs
      PROVE  t.pcb[p] \in {s.pcb[p], [s.pcb[p] EXCEPT !.ioRemaining = 0, !.state = "Ready"],
                           [s.pcb[p] EXCEPT !.ioRemaining = s.pcb[p].ioRemaining - 1]}
  BY DEF tickIOQueue, Simulator, PCB
<1>2. \A p \in Procs : t.pcb[p] \in Moved(s.pcb[p])
  BY <1>1 DEF Moved
<1> QED BY <1>2, MovingKeepsPast

LEMMA ScheduleKeepsPast ==
  ASSUME NEW s \in Simulator, NEW draw, NEW t, t = scheduleNextProcess(s, draw)
  PROVE  PastKept(s, t)
<1>1. ASSUME NEW p \in Procs
      PROVE  t.pcb[p] \in {s.pcb[p], [s.pcb[p] EXCEPT !.state = "Running"]}
  BY DEF scheduleNextProcess, Simulator
<1>2. \A p \in Procs : t.pcb[p] \in Moved(s.pcb[p])
  BY <1>1 DEF Moved
<1> QED BY <1>2, MovingKeepsPast

LEMMA RequeueKeepsPast ==
  ASSUME NEW s \in Simulator, NEW t,
         t = preemptCurrentProcess(s) \/ t = requeueExpired(s, s.currentProcess)
  PROVE  PastKept(s, t)
<1>1. ASSUME NEW p \in Procs
      PROVE  t.pcb[p] \in {s.pcb[p], [s.pcb[p] EXCEPT !.state = "Ready"]}
  <2>1. CASE t = preemptCurrentProcess(s)
    BY <2>1 DEF preemptCurrentProcess, Simulator
  <2>2. CASE t = requeueExpired(s, s.currentProcess)
    BY <2>2 DEF requeueExpired, Simulator
  <2> QED BY <2>1, <2>2
<1>2. \A p \in Procs : t.pcb[p] \in Moved(s.pcb[p])
  BY <1>1 DEF Moved
<1> QED BY <1>2, MovingKeepsPast

(* Before the CPU is used, and after, nothing is recorded.                  *)
LEMMA DispatchKeepsPast ==
  ASSUME Static, NEW s, Sound(s), NEW draw \in Nat, NEW t, t = dispatch(s, draw)
  PROVE  PastKept(s, t)
<1>1. s \in Simulator
  BY DEF Sound
<1>2. CASE s.currentProcess = None
  <2>1. t = scheduleNextProcess(s, draw)
    BY <1>2 DEF dispatch
  <2> QED BY <1>1, <2>1, ScheduleKeepsPast
<1>3. CASE s.currentProcess # None /\ ~ Preempt(s)
  <2>1. t = s
    BY <1>3, DispatchDoes
  <2> QED BY <2>1 DEF PastKept, SamePast, SameRun
<1>4. CASE s.currentProcess # None /\ Preempt(s)
  <2>1. PICK u : u = preemptCurrentProcess(s)
    OBVIOUS
  <2>2. t = scheduleNextProcess(u, draw)
    BY <1>4, <2>1, CurrentIncomplete DEF dispatch
  <2>3. u \in Simulator
    BY <1>4, <2>1, PreemptSound DEF Sound
  <2>4. PastKept(s, u)
    BY <1>1, <2>1, RequeueKeepsPast
  <2>5. PastKept(u, t)
    BY <2>2, <2>3, ScheduleKeepsPast
  <2> QED BY <2>4, <2>5, PastsCompose
<1> QED BY <1>2, <1>3, <1>4

LEMMA ExpireKeepsPast ==
  ASSUME Static, NEW s, Sound(s), NEW draw \in Nat, NEW t, t = expireQuantum(s, draw)
  PROVE  PastKept(s, t)
<1>1. CASE t = s
  BY <1>1 DEF PastKept, SamePast, SameRun
<1>2. CASE t # s
  <2>1. PICK u : u = requeueExpired(s, s.currentProcess)
    OBVIOUS
  <2>2. s.currentProcess # None /\ t = scheduleNextProcess(u, draw)
    BY <1>2, <2>1 DEF expireQuantum
  <2>3. s \in Simulator /\ u \in Simulator
    BY <2>1, <2>2, RequeueExpiredSound DEF Sound
  <2>4. PastKept(s, u)
    BY <2>1, <2>3, RequeueKeepsPast
  <2>5. PastKept(u, t)
    BY <2>2, <2>3, ScheduleKeepsPast
  <2> QED BY <2>4, <2>5, PastsCompose
<1> QED BY <1>1, <1>2

LEMMA ReadyingKeepsPast ==
  ASSUME Static, NEW s, Sound(s), NEW draw \in Nat, NEW redraw \in Nat, NEW t,
         NEW i, NEW d, NEW w, Stages(s, t, draw, redraw, i, d, w)
  PROVE  PastKept(s, d)
<1>1. i = tickIOQueue(checkArrivals(s)) /\ d = dispatch(i, draw) /\ Sound(i)
  BY DEF Stages
<1>2. PICK a : a = checkArrivals(s)
  OBVIOUS
<1>3. s \in Simulator /\ a \in Simulator
  BY <1>2, ArrivalsSound DEF Sound
<1>4. PastKept(s, a)
  BY <1>2, <1>3, ArrivalsKeepPast
<1>5. PastKept(a, i)
  BY <1>1, <1>2, <1>3, TickIOKeepsPast
<1>6. PastKept(i, d)
  BY <1>1, DispatchKeepsPast
<1>7. PastKept(s, i)
  BY <1>4, <1>5, PastsCompose
<1> QED BY <1>6, <1>7, PastsCompose

LEMMA AdvanceKeepsRun ==
  ASSUME NEW s \in Simulator, NEW t, t = advanceClock(s), NEW p \in Procs
  PROVE  SameRun(s.pcb[p], t.pcb[p])
<1>1. PICK b : b = s.pcb[p]
  OBVIOUS
<1>2. PICK c : c = t.pcb[p]
  OBVIOUS
<1>3. b \in PCB
  BY <1>1 DEF Simulator
<1>4. c \in {b, [b EXCEPT !.waitingTime = b.waitingTime + 1]}
  BY <1>1, <1>2, <1>3 DEF advanceClock, Simulator, PCB
<1>5. SameRun(b, c)
  BY <1>3, <1>4 DEF PCB, SameRun
<1> QED BY <1>1, <1>2, <1>5

----------------------------------------------------------------------------
(* What Execute writes into the record of a process.                        *)
LEMMA ExecuteRecords ==
  ASSUME Static, NEW p \in Procs, NEW b \in PCB, NEW now \in Nat, NEW c, c = Execute(b, p, now),
         b.state = "Running", b.remainingTime > 0, PCBSound(b, p)
  PROVE  /\ c.ioCompleted = b.ioCompleted
         /\ c.hasStarted
         /\ b.hasStarted => c.startTime = b.startTime /\ c.responseTime = b.responseTime
         /\ ~ b.hasStarted => /\ c.startTime = now
                              /\ c.responseTime = now - task[p].arrivalTime
         /\ c.state = "Terminated" =>
              /\ c.completionTime = now + 1
              /\ c.turnaroundTime = now + 1 - task[p].arrivalTime
              /\ c.waitingTime = now + 1 - task[p].arrivalTime - task[p].burstTime
         /\ c.state # "Terminated" => c.waitingTime = b.waitingTime
<1> DEFINE response == now - task[p].arrivalTime
           turnaround == now + 1 - task[p].arrivalTime
           waiting == now + 1 - task[p].arrivalTime - task[p].burstTime
           begun == [b EXCEPT !.hasStarted = TRUE, !.startTime = now, !.responseTime = response]
<1>1. task[p].arrivalTime \in Nat /\ task[p].burstTime \in Nat
  BY DEF Static, Task
<1>2. response \in Int /\ turnaround \in Int /\ waiting \in Int
  BY <1>1
<1>3. PICK m : m = markStarted(b, p, now)
  OBVIOUS
<1>4. IF b.hasStarted THEN m = b ELSE m = begun
  BY <1>3 DEF markStarted
<1> HIDE DEF response
<1>5. /\ m \in PCB /\ m.hasStarted
      /\ b.hasStarted => m.startTime = b.startTime /\ m.responseTime = b.responseTime
      /\ ~ b.hasStarted => m.startTime = now /\ m.responseTime = response
      /\ m.waitingTime = b.waitingTime
  <2>1. CASE b.hasStarted
    BY <1>4, <2>1
  <2>2. CASE ~ b.hasStarted
    <3>1. m = begun /\ now \in Int
      BY <1>4, <2>2
    <3> QED BY <1>2, <2>2, <3>1 DEF PCB
  <2> QED BY <2>1, <2>2
<1>6. m.ioCompleted = b.ioCompleted
  BY <1>4 DEF PCB
<1> DEFINE left == m.remainingTime - 1
           granule == VRuntimeScale \div task[p].weight
           runtime == m.vRuntime + granule
           next == now + 1
           ran == [m EXCEPT !.state = "Running", !.remainingTime = left,
                            !.lastExecuted = next, !.vRuntime = runtime]
           done == [ran EXCEPT !.state = "Terminated", !.completionTime = next,
                               !.turnaroundTime = turnaround,
                               !.waitingTime = waiting, !.remainingTime = 0]
<1>7. c = IF ran.remainingTime > 0 THEN ran ELSE done
  BY <1>3 DEF Execute
<1>8. next = now + 1
  OBVIOUS
<1> HIDE DEF left, runtime, next, turnaround, waiting, granule
<1>9. /\ ran.hasStarted = m.hasStarted /\ ran.startTime = m.startTime
      /\ ran.responseTime = m.responseTime /\ ran.waitingTime = m.waitingTime
      /\ ran.ioCompleted = m.ioCompleted /\ ran.state = "Running"
  BY <1>5 DEF PCB
<1>10. /\ done.hasStarted = m.hasStarted /\ done.startTime = m.startTime
       /\ done.responseTime = m.responseTime /\ done.waitingTime = waiting
       /\ done.completionTime = next /\ done.turnaroundTime = turnaround
       /\ done.ioCompleted = m.ioCompleted /\ done.state = "Terminated"
  BY <1>5 DEF PCB
<1> HIDE DEF ran, done
<1>11. CASE c = ran
  BY <1>5, <1>6, <1>9, <1>11 DEF response
<1>12. CASE c = done
  BY <1>5, <1>6, <1>8, <1>10, <1>12 DEF response, turnaround, waiting
<1> QED BY <1>7, <1>11, <1>12

(* The ticks an I/O burst keeps a process from the CPU: all but one.        *)
IOLoss(p) == [i \in DOMAIN task[p].ioBursts |-> task[p].ioBursts[i].duration - 1]
IOTicks(b, p) == Sum(IOLoss(p), b.ioCompleted)

LEMMA IOTicksFacts ==
  ASSUME Static, NEW p \in Procs, NEW b \in PCB, PCBSound(b, p)
  PROVE  /\ IsFiniteSet(b.ioCompleted)
         /\ b.ioCompleted \subseteq DOMAIN task[p].ioBursts
         /\ \A k \in DOMAIN task[p].ioBursts :
              IOLoss(p)[k] = task[p].ioBursts[k].duration - 1 /\ IOLoss(p)[k] \in Int
         /\ IOTicks(b, p) \in Int
<1>1. task[p].ioBursts \in Seq(IOBurst)
  BY DEF Static, Task
<1>2. DOMAIN task[p].ioBursts = 1..Len(task[p].ioBursts) /\ Len(task[p].ioBursts) \in Nat
  BY <1>1, LenProperties
<1>3. /\ b.ioCompleted = 1..b.currentIOIndex /\ b.currentIOIndex \in Nat
      /\ b.currentIOIndex <= Len(task[p].ioBursts)
  BY DEF PCBSound, PCB
<1>4. IsFiniteSet(b.ioCompleted)
  BY <1>3, FS_Interval
<1>5. b.ioCompleted \subseteq DOMAIN task[p].ioBursts
  BY <1>2, <1>3
<1>6. ASSUME NEW k \in DOMAIN task[p].ioBursts
      PROVE  IOLoss(p)[k] = task[p].ioBursts[k].duration - 1 /\ IOLoss(p)[k] \in Int
  <2>1. task[p].ioBursts[k] \in IOBurst
    BY <1>1, <1>2, ElementOfSeq
  <2>2. task[p].ioBursts[k].duration \in Nat
    BY <2>1 DEF IOBurst
  <2> QED BY <2>2 DEF IOLoss
<1>7. IOTicks(b, p) \in Int
  <2>1. PICK g : g = IOLoss(p)
    OBVIOUS
  <2>2. \A k \in b.ioCompleted : g[k] \in Int
    BY <1>5, <1>6, <2>1
  <2>3. Sum(g, b.ioCompleted) \in Int
    BY <1>4, <2>2, SumIsInt
  <2> QED BY <2>1, <2>3 DEF IOTicks
<1> QED BY <1>4, <1>5, <1>6, <1>7

(* A burst that starts adds its own ticks.                                  *)
LEMMA BurstAddsTicks ==
  ASSUME Static, NEW p \in Procs, NEW b \in PCB, PCBSound(b, p), NEW c, StartsBurst(b, c, p)
  PROVE  /\ c.state = "Waiting" /\ c.ioRemaining \in Nat
         /\ c.remainingTime = b.remainingTime /\ c.startTime = b.startTime
         /\ c.responseTime = b.responseTime /\ c.hasStarted = b.hasStarted
         /\ IOTicks(c, p) = IOTicks(b, p) + c.ioRemaining - 1
<1>1. PICK k \in DOMAIN task[p].ioBursts \ b.ioCompleted :
        c = [b EXCEPT !.currentIOIndex = k, !.ioCompleted = b.ioCompleted \cup {k},
                      !.ioRemaining = task[p].ioBursts[k].duration, !.state = "Waiting"]
  BY DEF StartsBurst
<1>2. PICK D, S : D = task[p].ioBursts[k].duration /\ S = b.ioCompleted
  OBVIOUS
<1>3. /\ IsFiniteSet(S) /\ S \subseteq DOMAIN task[p].ioBursts
      /\ \A j \in DOMAIN task[p].ioBursts :
           IOLoss(p)[j] = task[p].ioBursts[j].duration - 1 /\ IOLoss(p)[j] \in Int
      /\ IOTicks(b, p) \in Int
  BY <1>2, IOTicksFacts
<1>4. D \in Nat
  <2>1. task[p].ioBursts \in Seq(IOBurst)
    BY DEF Static, Task
  <2>2. DOMAIN task[p].ioBursts = 1..Len(task[p].ioBursts)
    BY <2>1, LenProperties
  <2>3. task[p].ioBursts[k] \in IOBurst
    BY <2>1, <2>2, ElementOfSeq
  <2> QED BY <1>2, <2>3 DEF IOBurst
<1>5. c = [b EXCEPT !.currentIOIndex = k, !.ioCompleted = S \cup {k},
                    !.ioRemaining = D, !.state = "Waiting"]
  BY <1>1, <1>2
<1>6. /\ c.state = "Waiting" /\ c.ioRemaining = D /\ c.ioCompleted = S \cup {k}
      /\ c.remainingTime = b.remainingTime /\ c.startTime = b.startTime
      /\ c.responseTime = b.responseTime /\ c.hasStarted = b.hasStarted
  BY <1>5 DEF PCB
<1>7. IOTicks(c, p) = IOTicks(b, p) + D - 1
  <2>1. PICK g : g = IOLoss(p)
    OBVIOUS
  <2>2. \A j \in S \cup {k} : g[j] \in Int
    BY <1>1, <1>3, <2>1
  <2>3. k \notin S
    BY <1>1, <1>2
  <2>4. Sum(g, S \cup {k}) = g[k] + Sum(g, S)
    BY <1>3, <2>2, <2>3, SumInserts
  <2>5. IOTicks(b, p) = Sum(g, S) /\ IOTicks(c, p) = Sum(g, S \cup {k})
    BY <1>2, <1>6, <2>1 DEF IOTicks
  <2>6. g[k] = D - 1
    BY <1>1, <1>2, <1>3, <2>1
  <2> QED BY <1>3, <1>4, <2>4, <2>5, <2>6
<1> QED BY <1>4, <1>6, <1>7

(* expireQuantum neither starts nor ends I/O.                               *)
LEMMA ExpireKeepsWaiting ==
  ASSUME Static, NEW s, Sound(s), NEW draw \in Nat, NEW t, t = expireQuantum(s, draw),
         NEW r \in Procs
  PROVE  /\ t.pcb[r].state = "Waiting" <=> s.pcb[r].state = "Waiting"
         /\ t.pcb[r].ioRemaining = s.pcb[r].ioRemaining
<1>1. CASE t = s
  BY <1>1
<1>2. CASE t # s
  <2>1. PICK p : p = s.currentProcess
    OBVIOUS
  <2>2. PICK u : u = requeueExpired(s, p)
    OBVIOUS
  <2>3. s.currentProcess # None /\ t = scheduleNextProcess(u, draw)
    BY <1>2, <2>1, <2>2 DEF expireQuantum
  <2>4. p \in Procs /\ s.pcb[p].state = "Running"
    BY <2>1, <2>3, CurrentFacts
  <2>5. Sound(u) /\ u.currentProcess = None /\ Relabelled(s, u, p, "Ready")
    BY <2>1, <2>2, <2>3, RequeueExpiredSound, RequeueExpiredDoes
  <2>6. CASE u.readyQueue = << >>
    <3>1. t = u
      BY <2>3, <2>5, <2>6, ScheduleDoes
    <3> QED BY <2>4, <2>5, <3>1 DEF Relabelled
  <2>7. CASE u.readyQueue # << >>
    <3>1. PICK n : n = t.currentProcess
      OBVIOUS
    <3>2. n \in Procs /\ u.pcb[n].state = "Ready" /\ Relabelled(u, t, n, "Running")
      BY <2>3, <2>5, <2>7, <3>1, ScheduleDoes
    <3>3. u.pcb[r].state = "Waiting" <=> s.pcb[r].state = "Waiting"
      BY <2>4, <2>5 DEF Relabelled
    <3>4. t.pcb[r].state = "Waiting" <=> u.pcb[r].state = "Waiting"
      BY <3>2 DEF Relabelled
    <3>5. t.pcb[r].ioRemaining = s.pcb[r].ioRemaining
      BY <2>5, <3>2 DEF Relabelled
    <3> QED BY <3>3, <3>4, <3>5
  <2> QED BY <2>6, <2>7
<1> QED BY <1>1, <1>2

----------------------------------------------------------------------------
(* What a busy tick does to the process c it serves: it executes one tick,  *)
(* and what it may start is an I/O burst.                                   *)
Worked(b, c, p, now) ==
    \E h : /\ \/ h = Execute(b, p, now) /\ h.state # "Waiting"
              \/ /\ Execute(b, p, now).state = "Running"
                 /\ StartsBurst(Execute(b, p, now), h, p)
           /\ SamePast(h, c)
           /\ c.state = "Waiting" <=> h.state = "Waiting"
           /\ c.ioRemaining = h.ioRemaining
LEMMA ServingWorks ==
  ASSUME Static, NEW s, Sound(s), s.currentProcess # None, NEW draw \in Nat,
         NEW c, c = s.currentProcess,
         NEW t, t = expireQuantum(checkIOBurst(chargeTick(executeProcess(s))), draw)
  PROVE  /\ \A r \in Procs : r # c => SamePast(s.pcb[r], t.pcb[r])
         /\ Worked(s.pcb[c], t.pcb[c], c, s.currentTime)
<1>1. PICK e : e = executeProcess(s)
  OBVIOUS
<1>2. PICK g : g = chargeTick(e)
  OBVIOUS
<1>3. PICK h : h = checkIOBurst(g)
  OBVIOUS
<1>4. t = expireQuantum(h, draw)
  BY <1>1, <1>2, <1>3
<1>5. Sound(e) /\ Sound(g) /\ Sound(h)
  BY <1>1, <1>2, <1>3, ExecuteSound, ChargeSound, CheckIOSound
<1>6. c \in Procs
  BY CurrentFacts
<1>7. /\ \A r \in Procs : r # c => g.pcb[r] = s.pcb[r]
      /\ g.pcb[c] = Execute(s.pcb[c], c, s.currentTime)
      /\ g.pcb[c].state \in {"Running", "Terminated"}
      /\ g.pcb[c].state = "Running" => g.currentProcess = c
      /\ g.pcb[c].state = "Terminated" => g.currentProcess = None
  <2>1. /\ \A r \in Procs : r # c => e.pcb[r] = s.pcb[r]
        /\ e.pcb[c] = Execute(s.pcb[c], c, s.currentTime)
        /\ e.pcb[c].state \in {"Running", "Terminated"}
        /\ e.pcb[c].state = "Terminated" => e.currentProcess = None
        /\ e.pcb[c].state = "Running" => e.currentProcess = c
    BY <1>1, ExecuteDoes
  <2>2. g.currentProcess = e.currentProcess /\ g.pcb = e.pcb
    BY <1>2, <1>5, ChargeDoes
  <2> QED BY <2>1, <2>2
<1>8. /\ \A r \in Procs : r # c => h.pcb[r] = g.pcb[r]
      /\ \/ h = g
         \/ g.pcb[c].state = "Running" /\ StartsBurst(g.pcb[c], h.pcb[c], c)
  <2>1. CASE h = g
    BY <2>1
  <2>2. CASE h # g
    <3>1. PICK p : p = g.currentProcess
      OBVIOUS
    <3>2. /\ p \in Procs
          /\ \A r \in Procs : r # p => h.pcb[r] = g.pcb[r]
          /\ StartsBurst(g.pcb[p], h.pcb[p], p)
      BY <1>3, <1>5, <2>2, <3>1, CheckIODoes
    <3>3. p = c /\ g.pcb[c].state = "Running"
      BY <1>7, <3>1, <3>2, EngineAssumption
    <3> QED BY <3>2, <3>3
  <2> QED BY <2>1, <2>2
<1>9. PastKept(h, t)
  BY <1>4, <1>5, ExpireKeepsPast
<1>10. t.pcb[c].state = "Waiting" <=> h.pcb[c].state = "Waiting"
  BY <1>4, <1>5, <1>6, ExpireKeepsWaiting
<1>11. t.pcb[c].ioRemaining = h.pcb[c].ioRemaining
  BY <1>4, <1>5, <1>6, ExpireKeepsWaiting
<1>12. ASSUME NEW r \in Procs, r # c PROVE SamePast(s.pcb[r], t.pcb[r])
  <2>1. h.pcb[r] = s.pcb[r]
    BY <1>7, <1>8, <1>12
  <2> QED BY <1>9, <2>1 DEF PastKept
<1>13. Worked(s.pcb[c], t.pcb[c], c, s.currentTime)
  <2>1. PICK x, y, z : x = s.pcb[c] /\ y = h.pcb[c] /\ z = t.pcb[c]
    OBVIOUS
  <2>2. /\ \/ y = Execute(x, c, s.currentTime) /\ y.state # "Waiting"
           \/ /\ Execute(x, c, s.currentTime).state = "Running"
              /\ StartsBurst(Execute(x, c, s.currentTime), y, c)
    BY <1>7, <1>8, <2>1
  <2>3. SamePast(y, z)
    BY <1>6, <1>9, <2>1 DEF PastKept
  <2>4. /\ z.state = "Waiting" <=> y.state = "Waiting"
        /\ z.ioRemaining = y.ioRemaining
    BY <1>10, <1>11, <2>1
  <2>5. Worked(x, z, c, s.currentTime)
    BY <2>2, <2>3, <2>4 DEF Worked
  <2> QED BY <2>1, <2>5
<1> QED BY <1>12, <1>13

----------------------------------------------------------------------------
(* A process that is not finished was on the CPU for the time it used and   *)
(* away for its I/O, all of it between its first tick and limit.            *)
Underway(b, p, limit) ==
    IF b.hasStarted
    THEN /\ task[p].arrivalTime <= b.startTime
         /\ b.responseTime = b.startTime - task[p].arrivalTime
         /\ b.startTime + (task[p].burstTime - b.remainingTime) + IOTicks(b, p) <= limit
    ELSE b.remainingTime = task[p].burstTime /\ IOTicks(b, p) = 0

(* What is recorded of a finished one.                                      *)
Finished(b, p, now) ==
    /\ b.completionTime <= now
    /\ b.turnaroundTime = b.completionTime - task[p].arrivalTime
    /\ b.waitingTime = b.turnaroundTime - task[p].burstTime
    /\ 0 <= b.responseTime
    /\ b.responseTime = b.startTime - task[p].arrivalTime
    /\ b.responseTime + IOTicks(b, p) <= b.waitingTime

(* A waiting process may already account for ticks still to come: those     *)
(* that are left of its I/O burst, but for the one in which it wakes up.     *)
Limit(b, now) == IF b.state = "Waiting" THEN now + b.ioRemaining - 1 ELSE now
Timed(b, p, now) ==
    IF b.state = "Terminated" THEN Finished(b, p, now) ELSE Underway(b, p, Limit(b, now))

(* Integers all of them.                                                    *)
LEMMA TimesAreInts ==
  ASSUME Static, NEW p \in Procs, NEW b \in PCB, PCBSound(b, p)
  PROVE  /\ task[p].arrivalTime \in Nat /\ task[p].burstTime \in Nat
         /\ b.remainingTime \in Nat /\ b.ioRemaining \in Nat
         /\ b.startTime \in Int /\ b.responseTime \in Int /\ b.completionTime \in Int
         /\ b.turnaroundTime \in Int /\ b.waitingTime \in Int
         /\ IOTicks(b, p) \in Int
<1>1. task[p].arrivalTime \in Nat /\ task[p].burstTime \in Nat
  BY DEF Static, Task
<1>2. /\ b.remainingTime \in Nat /\ b.ioRemaining \in Nat
      /\ b.startTime \in Int /\ b.responseTime \in Int /\ b.completionTime \in Int
      /\ b.turnaroundTime \in Int /\ b.waitingTime \in Int
  BY DEF PCB
<1> QED BY <1>1, <1>2, IOTicksFacts

LEMMA SameTicks ==
  ASSUME NEW b, NEW c, NEW p, SameRun(b, c)
  PROVE  IOTicks(c, p) = IOTicks(b, p)
BY DEF SameRun, IOTicks

(* A process that is not served: later is no worse.                         *)
LEMMA UnderwayLater ==
  ASSUME Static, NEW p \in Procs, NEW b \in PCB, PCBSound(b, p), NEW c, SameRun(b, c),
         NEW m \in Int, NEW n \in Int, m <= n, Underway(b, p, m)
  PROVE  Underway(c, p, n)
<1>1. /\ task[p].arrivalTime \in Nat /\ task[p].burstTime \in Nat
      /\ b.remainingTime \in Nat /\ b.startTime \in Int /\ IOTicks(b, p) \in Int
  BY TimesAreInts
<1>2. IOTicks(c, p) = IOTicks(b, p)
  BY SameTicks
<1>3. /\ c.remainingTime = b.remainingTime /\ c.startTime = b.startTime
      /\ c.responseTime = b.responseTime
  BY DEF SameRun
<1>4. c.hasStarted = b.hasStarted
  BY DEF SameRun
<1>5. CASE b.hasStarted
  BY <1>1, <1>2, <1>3, <1>4, <1>5 DEF Underway
<1>6. CASE ~ b.hasStarted
  BY <1>2, <1>3, <1>4, <1>6 DEF Underway
<1> QED BY <1>5, <1>6

LEMMA FinishedLater ==
  ASSUME Static, NEW p \in Procs, NEW b \in PCB, PCBSound(b, p), NEW c, SamePast(b, c),
         NEW m \in Int, NEW n \in Int, m <= n, Finished(b, p, m)
  PROVE  Finished(c, p, n)
<1>1. b.completionTime \in Int
  BY TimesAreInts
<1>2. SameRun(b, c) /\ c.waitingTime = b.waitingTime
  BY DEF SamePast
<1>3. IOTicks(c, p) = IOTicks(b, p)
  BY <1>2, SameTicks
<1>4. /\ c.startTime = b.startTime /\ c.responseTime = b.responseTime
      /\ c.completionTime = b.completionTime /\ c.turnaroundTime = b.turnaroundTime
  BY <1>2 DEF SameRun
<1>5. c.completionTime <= n
  BY <1>1, <1>4 DEF Finished
<1> QED BY <1>2, <1>3, <1>4, <1>5 DEF Finished

(* One tick of CPU time.                                                    *)
LEMMA ExecuteIsTimed ==
  ASSUME Static, NEW p \in Procs, NEW b \in PCB, PCBSound(b, p), NEW now \in Nat,
         b.state = "Running", b.remainingTime > 0,
         task[p].arrivalTime <= now, Underway(b, p, now), NEW c, c = Execute(b, p, now)
  PROVE  IF c.state = "Terminated" THEN Finished(c, p, now + 1) ELSE Underway(c, p, now + 1)
<1>1. c \in PCB /\ PCBSound(c, p) /\ c.remainingTime = b.remainingTime - 1
  BY ExecuteFacts
<1>2. /\ task[p].arrivalTime \in Nat /\ task[p].burstTime \in Nat
      /\ b.remainingTime \in Nat /\ b.startTime \in Int /\ IOTicks(b, p) \in Int
  BY TimesAreInts
<1>3. /\ c.startTime \in Int /\ IOTicks(c, p) \in Int /\ c.responseTime \in Int
  BY <1>1, TimesAreInts
<1>4. c.ioCompleted = b.ioCompleted /\ c.hasStarted
  BY ExecuteRecords
<1>5. IOTicks(c, p) = IOTicks(b, p)
  BY <1>4 DEF IOTicks
<1>6. /\ task[p].arrivalTime <= c.startTime
      /\ c.responseTime = c.startTime - task[p].arrivalTime
      /\ c.startTime + (task[p].burstTime - c.remainingTime) + IOTicks(c, p) <= now + 1
  <2>1. CASE b.hasStarted
    <3>1. c.startTime = b.startTime /\ c.responseTime = b.responseTime
      BY <2>1, ExecuteRecords
    <3>2. /\ task[p].arrivalTime <= b.startTime
          /\ b.responseTime = b.startTime - task[p].arrivalTime
          /\ b.startTime + (task[p].burstTime - b.remainingTime) + IOTicks(b, p) <= now
      BY <2>1 DEF Underway
    <3> QED BY <1>1, <1>2, <1>5, <3>1, <3>2
  <2>2. CASE ~ b.hasStarted
    <3>1. c.startTime = now /\ c.responseTime = now - task[p].arrivalTime
      BY <2>2, ExecuteRecords
    <3>2. b.remainingTime = task[p].burstTime /\ IOTicks(b, p) = 0
      BY <2>2 DEF Underway
    <3> QED BY <1>1, <1>2, <1>5, <3>1, <3>2
  <2> QED BY <2>1, <2>2
<1>7. CASE c.state = "Terminated"
  <2>1. /\ c.completionTime = now + 1
        /\ c.turnaroundTime = now + 1 - task[p].arrivalTime
        /\ c.waitingTime = now + 1 - task[p].arrivalTime - task[p].burstTime
    BY <1>7, ExecuteRecords
  <2>2. c.remainingTime = 0
    BY <1>1, <1>7 DEF PCBSound
  <2> QED BY <1>2, <1>3, <1>6, <1>7, <2>1, <2>2 DEF Finished
<1>8. CASE c.state # "Terminated"
  BY <1>4, <1>6, <1>8 DEF Underway
<1> QED BY <1>7, <1>8

(* The process a tick serves.                                               *)
LEMMA WorkIsTimed ==
  ASSUME Static, NEW p \in Procs, NEW b \in PCB, PCBSound(b, p), NEW now \in Nat,
         b.state = "Running", b.remainingTime > 0,
         task[p].arrivalTime <= now, Underway(b, p, now),
         NEW c \in PCB, PCBSound(c, p), Worked(b, c, p, now)
  PROVE  Timed(c, p, now + 1)
<1>1. PICK e : e = Execute(b, p, now)
  OBVIOUS
<1>2. PICK h : /\ \/ h = e /\ h.state # "Waiting"
                  \/ e.state = "Running" /\ StartsBurst(e, h, p)
               /\ SamePast(h, c)
               /\ c.state = "Waiting" <=> h.state = "Waiting"
               /\ c.ioRemaining = h.ioRemaining
  BY <1>1 DEF Worked
<1>3. e \in PCB /\ PCBSound(e, p) /\ e.state \in {"Running", "Terminated"}
  BY <1>1, ExecuteFacts
<1>4. IF e.state = "Terminated" THEN Finished(e, p, now + 1) ELSE Underway(e, p, now + 1)
  BY <1>1, ExecuteIsTimed
<1>5. SameRun(h, c)
  BY <1>2 DEF SamePast
<1>6. now + 1 \in Int /\ now + 1 <= now + 1
  OBVIOUS
<1>7. CASE h = e /\ h.state # "Waiting"
  <2>1. c.state # "Waiting" /\ SamePast(e, c) /\ SameRun(e, c)
    BY <1>2, <1>5, <1>7
  <2>2. c.state = "Terminated" <=> e.state = "Terminated"
    <3>1. c.remainingTime = e.remainingTime
      BY <2>1 DEF SameRun
    <3> QED BY <1>3, <3>1 DEF PCBSound
  <2>3. CASE e.state = "Terminated"
    <3>1. Finished(c, p, now + 1)
      BY <1>3, <1>4, <1>6, <2>1, <2>3, FinishedLater
    <3> QED BY <2>2, <2>3, <3>1 DEF Timed
  <2>4. CASE e.state # "Terminated"
    <3>1. Underway(c, p, now + 1)
      BY <1>3, <1>4, <1>6, <2>1, <2>4, UnderwayLater
    <3> QED BY <2>1, <2>2, <2>4, <3>1 DEF Timed, Limit
  <2> QED BY <2>3, <2>4
<1>8. CASE e.state = "Running" /\ StartsBurst(e, h, p)
  <2>1. /\ h.state = "Waiting" /\ h.ioRemaining \in Nat
        /\ h.remainingTime = e.remainingTime /\ h.startTime = e.startTime
        /\ h.responseTime = e.responseTime
        /\ IOTicks(h, p) = IOTicks(e, p) + h.ioRemaining - 1
    BY <1>3, <1>8, BurstAddsTicks
  <2>2. h.hasStarted = e.hasStarted
    BY <1>3, <1>8, BurstAddsTicks
  <2>3. e.hasStarted
    BY <1>1, ExecuteRecords
  <2>4. Underway(e, p, now + 1)
    BY <1>4, <1>8
  <2>5. /\ c.remainingTime = h.remainingTime /\ c.startTime = h.startTime
        /\ c.responseTime = h.responseTime
    BY <1>5 DEF SameRun
  <2>6. c.hasStarted = h.hasStarted
    BY <1>5 DEF SameRun
  <2>7. IOTicks(c, p) = IOTicks(h, p)
    BY <1>5, SameTicks
  <2>8. c.state = "Waiting" /\ Limit(c, now + 1) = now + 1 + h.ioRemaining - 1
    BY <1>2, <2>1 DEF Limit
  <2>9. /\ task[p].arrivalTime <= e.startTime
        /\ e.responseTime = e.startTime - task[p].arrivalTime
        /\ e.startTime + (task[p].burstTime - e.remainingTime) + IOTicks(e, p) <= now + 1
    BY <2>3, <2>4 DEF Underway
  <2>10. /\ task[p].arrivalTime \in Nat /\ task[p].burstTime \in Nat
         /\ e.remainingTime \in Nat /\ e.startTime \in Int /\ IOTicks(e, p) \in Int
    BY <1>3, TimesAreInts
  <2>11. c.startTime + (task[p].burstTime - c.remainingTime) + IOTicks(c, p)
           <= Limit(c, now + 1)
    BY <2>1, <2>5, <2>7, <2>8, <2>9, <2>10
  <2>12. /\ task[p].arrivalTime <= c.startTime
         /\ c.responseTime = c.startTime - task[p].arrivalTime
    BY <2>1, <2>5, <2>9
  <2>13. Underway(c, p, Limit(c, now + 1))
    BY <2>2, <2>3, <2>6, <2>11, <2>12 DEF Underway
  <2> QED BY <2>8, <2>13 DEF Timed
<1> QED BY <1>2, <1>7, <1>8

----------------------------------------------------------------------------
(* Whom a tick serves, and what happens to the others.                      *)
LEMMA OthersSleep ==
  ASSUME Static, NEW s, Sound(s), NEW draw \in Nat, NEW redraw \in Nat,
         NEW t, t = executeTimeUnit(s, draw, redraw),
         NEW i, NEW d, NEW w, Stages(s, t, draw, redraw, i, d, w),
         NEW c, c = d.currentProcess
  PROVE  /\ c # None => CanRun(s, c)
         /\ c = None => \A r \in Procs : ~ CanRun(s, r)
         /\ \A r \in Procs : r # c => Sleeps(s, t, r)
<1>1. \A p \in Procs : s.pcb[p].remainingTime \in Nat
  BY SoundFacts DEF PCB
<1>2. Idles(s, t) \/ \E k \in Procs : Serves(s, t, k)
  BY TickServesOrIdles
<1>3. CASE c = None
  <2>0. d.currentProcess = None
    BY <1>3
  <2>1. \A p \in Procs : t.pcb[p].remainingTime = s.pcb[p].remainingTime
    BY <2>0, IdleTickCharges
  <2>2. ~ \E k \in Procs : Serves(s, t, k)
    BY <1>1, <2>1 DEF Serves
  <2>3. Idles(s, t)
    BY <1>2, <2>2
  <2> QED BY <1>3, <2>3 DEF Idles
<1>4. CASE c # None
  <2>1. /\ c \in Procs
        /\ t.pcb[c].remainingTime = s.pcb[c].remainingTime - 1
        /\ \A p \in Procs : p # c => t.pcb[p].remainingTime = s.pcb[p].remainingTime
    BY <1>4, BusyTickCharges
  <2>2. ~ Idles(s, t)
    BY <1>1, <2>1 DEF Idles
  <2>3. PICK k \in Procs : Serves(s, t, k)
    BY <1>2, <2>2
  <2>4. k = c
    BY <1>1, <2>1, <2>3 DEF Serves
  <2>5. CanRun(s, c) /\ \A r \in Procs : r # c => Sleeps(s, t, r)
    BY <2>3, <2>4 DEF Serves
  <2> QED BY <1>4, <2>5
<1> QED BY <1>3, <1>4

(* What a tick records of the processes it does not serve: nothing, but     *)
(* that the ready ones have waited.                                         *)
LEMMA OthersKeepPast ==
  ASSUME Static, NEW s, Sound(s), NEW draw \in Nat, NEW redraw \in Nat, NEW t,
         NEW i, NEW d, NEW w, Stages(s, t, draw, redraw, i, d, w),
         NEW r \in Procs, r # d.currentProcess
  PROVE  /\ SamePast(s.pcb[r], w.pcb[r])
         /\ SameRun(s.pcb[r], t.pcb[r])
         /\ s.pcb[r].state = "Terminated" => SamePast(s.pcb[r], t.pcb[r])
<1>1. Sound(d) /\ Sound(w) /\ t = advanceClock(w)
  BY DEF Stages
<1>2. SamePast(s.pcb[r], d.pcb[r])
  BY ReadyingKeepsPast DEF PastKept
<1>3. SamePast(d.pcb[r], w.pcb[r])
  <2>1. CASE d.currentProcess = None
    <3>1. w = idle(d)
      BY <2>1 DEF Stages
    <3>2. w.pcb = d.pcb
      BY <1>1, <3>1, IdleDoes
    <3> QED BY <3>2 DEF SamePast, SameRun
  <2>2. CASE d.currentProcess # None
    <3>1. w = expireQuantum(checkIOBurst(chargeTick(executeProcess(d))), redraw)
      BY <2>2 DEF Stages
    <3> QED BY <1>1, <2>2, <3>1, ServingWorks
  <2> QED BY <2>1, <2>2
<1>4. SamePast(s.pcb[r], w.pcb[r])
  BY <1>2, <1>3 DEF SamePast, SameRun
<1>5. SameRun(w.pcb[r], t.pcb[r])
  BY <1>1, AdvanceKeepsRun DEF Sound
<1>6. SameRun(s.pcb[r], t.pcb[r])
  BY <1>4, <1>5 DEF SamePast, SameRun
<1>7. ASSUME s.pcb[r].state = "Terminated" PROVE SamePast(s.pcb[r], t.pcb[r])
  <2>1. w.pcb[r].remainingTime = s.pcb[r].remainingTime
    BY <1>4 DEF SamePast, SameRun
  <2>2. PCBSound(s.pcb[r], r) /\ PCBSound(w.pcb[r], r)
    BY <1>1, SoundFacts
  <2>3. w.pcb[r].state = "Terminated"
    BY <1>7, <2>1, <2>2 DEF PCBSound
  <2>4. t.pcb[r] = w.pcb[r]
    BY <1>1, <2>3, AdvanceDoes
  <2> QED BY <1>4, <2>4
<1> QED BY <1>4, <1>6, <1>7

LEMMA OthersStayTimed ==
  ASSUME Static, NEW s, Sound(s), NEW t, Sound(t), NEW now \in Nat, NEW r \in Procs,
         Timed(s.pcb[r], r, now), Sleeps(s, t, r), SameRun(s.pcb[r], t.pcb[r]),
         s.pcb[r].state = "Terminated" => SamePast(s.pcb[r], t.pcb[r])
  PROVE  Timed(t.pcb[r], r, now + 1)
<1>1. PICK b, c : b = s.pcb[r] /\ c = t.pcb[r]
  OBVIOUS
<1>2. b \in PCB /\ c \in PCB /\ PCBSound(b, r) /\ PCBSound(c, r)
  BY <1>1, SoundFacts
<1>3. /\ Timed(b, r, now) /\ SameRun(b, c)
      /\ b.state = "Terminated" => SamePast(b, c)
  BY <1>1
<1>4. /\ c.state = "Waiting" <=> b.state = "Waiting" /\ b.ioRemaining # 1
      /\ c.state = "Waiting" => c.ioRemaining = b.ioRemaining - 1
  BY <1>1 DEF Sleeps
<1>5. c.state = "Terminated" <=> b.state = "Terminated"
  <2>1. c.remainingTime = b.remainingTime
    BY <1>3 DEF SameRun
  <2> QED BY <1>2, <2>1 DEF PCBSound
<1>6. b.ioRemaining \in Nat /\ c.ioRemaining \in Nat
  BY <1>2 DEF PCB
<1>7. CASE b.state = "Terminated"
  <2>1. Finished(b, r, now) /\ SamePast(b, c)
    BY <1>3, <1>7 DEF Timed
  <2>2. now \in Int /\ now + 1 \in Int /\ now <= now + 1
    OBVIOUS
  <2>3. Finished(c, r, now + 1)
    BY <1>2, <2>1, <2>2, FinishedLater
  <2> QED BY <1>1, <1>5, <1>7, <2>3 DEF Timed
<1>8. CASE b.state # "Terminated"
  <2>1. Underway(b, r, Limit(b, now))
    BY <1>3, <1>8 DEF Timed
  <2>2. Limit(b, now) \in Int /\ Limit(c, now + 1) \in Int
    BY <1>6 DEF Limit
  <2>3. Limit(b, now) <= Limit(c, now + 1)
    <3>1. CASE b.state = "Waiting" /\ b.ioRemaining # 1
      BY <1>4, <1>6, <3>1 DEF Limit
    <3>2. CASE b.state = "Waiting" /\ b.ioRemaining = 1
      BY <1>4, <1>6, <3>2 DEF Limit
    <3>3. CASE b.state # "Waiting"
      BY <1>4, <1>6, <3>3 DEF Limit
    <3> QED BY <3>1, <3>2, <3>3
  <2>4. Underway(c, r, Limit(c, now + 1))
    BY <1>2, <1>3, <2>1, <2>2, <2>3, UnderwayLater
  <2> QED BY <1>1, <1>5, <1>8, <2>4 DEF Timed
<1> QED BY <1>7, <1>8

(* The process that is about to be served is not behind.                    *)
LEMMA RunnableIsUnderway ==
  ASSUME Static, NEW s, Sound(s), NEW now \in Nat, NEW p \in Procs,
         Timed(s.pcb[p], p, now), CanRun(s, p), NEW c, SamePast(s.pcb[p], c)
  PROVE  Underway(c, p, now)
<1>1. PICK b : b = s.pcb[p]
  OBVIOUS
<1>2. b \in PCB /\ PCBSound(b, p) /\ SameRun(b, c)
  BY <1>1, SoundFacts DEF SamePast
<1>3. b.state # "Terminated" /\ (b.state = "Waiting" => b.ioRemaining = 1)
  BY <1>1 DEF CanRun, Arriving
<1>4. Underway(b, p, Limit(b, now))
  BY <1>1, <1>3 DEF Timed
<1>5. Limit(b, now) = now /\ now \in Int /\ now <= now
  BY <1>3 DEF Limit
<1>6. Underway(b, p, now)
  BY <1>4, <1>5
<1> QED BY <1>2, <1>5, <1>6, UnderwayLater

LEMMA TickTimed ==
  ASSUME Static, NEW s, Sound(s), Tracked(s), NEW draw \in Nat, NEW redraw \in Nat,
         NEW t, t = executeTimeUnit(s, draw, redraw),
         \A p \in Procs : Timed(s.pcb[p], p, s.currentTime)
  PROVE  \A p \in Procs : Timed(t.pcb[p], p, t.currentTime)
<1>1. PICK i, d, w : Stages(s, t, draw, redraw, i, d, w)
  BY TickStages
<1>2. Sound(d) /\ Sound(w) /\ Sound(t) /\ t = advanceClock(w)
  <2>1. Sound(d) /\ Sound(w) /\ t = advanceClock(w)
    BY <1>1 DEF Stages
  <2> QED BY <2>1, TickSound
<1>3. PICK c : c = d.currentProcess
  OBVIOUS
<1>4. PICK now \in Nat : now = s.currentTime
  BY DEF Sound, Simulator
<1>5. t.currentTime = now + 1
  BY <1>4, TickClock
<1>6. ASSUME NEW r \in Procs, r # c PROVE Timed(t.pcb[r], r, now + 1)
  <2>1. Timed(s.pcb[r], r, now)
    BY <1>4
  <2>2. Sleeps(s, t, r)
    BY <1>1, <1>3, <1>6, OthersSleep
  <2>3. r # d.currentProcess
    BY <1>3, <1>6
  <2>4. /\ SameRun(s.pcb[r], t.pcb[r])
        /\ s.pcb[r].state = "Terminated" => SamePast(s.pcb[r], t.pcb[r])
    BY <1>1, <2>3, OthersKeepPast
  <2> QED BY <1>2, <2>1, <2>2, <2>4, OthersStayTimed
<1>7. ASSUME c \in Procs PROVE Timed(t.pcb[c], c, now + 1)
  <2>1. c # None
    BY <1>7, EngineAssumption
  <2>2. CanRun(s, c)
    BY <1>1, <1>3, <2>1, OthersSleep
  <2>3. SamePast(s.pcb[c], d.pcb[c])
    BY <1>1, <1>7, ReadyingKeepsPast DEF PastKept
  <2>4. Timed(s.pcb[c], c, now)
    BY <1>4, <1>7
  <2>5. Underway(d.pcb[c], c, now)
    BY <1>7, <2>2, <2>3, <2>4, RunnableIsUnderway
  <2>6. task[c].arrivalTime <= now
    <3>1. s.pcb[c].state # "New" => task[c].arrivalTime <= s.currentTime
      BY <1>7 DEF Tracked, Arrived
    <3>2. c \in Arriving(s) => task[c].arrivalTime <= s.currentTime
      BY DEF Arriving
    <3> QED BY <1>4, <2>2, <3>1, <3>2 DEF CanRun
  <2>7. /\ d.pcb[c].state = "Running" /\ d.pcb[c].remainingTime > 0
        /\ d.pcb[c] \in PCB /\ PCBSound(d.pcb[c], c)
    BY <1>2, <1>3, <1>7, <2>1, CurrentFacts, SoundFacts
  <2>8. w = expireQuantum(checkIOBurst(chargeTick(executeProcess(d))), redraw)
    BY <1>1, <1>3, <2>1 DEF Stages
  <2>9. d.currentTime = now
    BY <1>1, <1>4, BeforeServing DEF SameClock
  <2>10. Worked(d.pcb[c], w.pcb[c], c, now)
    BY <1>2, <1>3, <2>1, <2>8, <2>9, ServingWorks
  <2>11. w.pcb[c] \in PCB /\ PCBSound(w.pcb[c], c) /\ t.pcb[c] \in PCB /\ PCBSound(t.pcb[c], c)
    BY <1>2, <1>7, SoundFacts
  <2>12. Timed(w.pcb[c], c, now + 1)
    BY <1>7, <2>5, <2>6, <2>7, <2>10, <2>11, WorkIsTimed
  <2>13. CASE w.pcb[c].state # "Ready"
    <3>1. t.pcb[c] = w.pcb[c]
      BY <1>2, <1>7, <2>13, AdvanceDoes
    <3> QED BY <2>12, <3>1
  <2>14. CASE w.pcb[c].state = "Ready"
    <3>1. SameRun(w.pcb[c], t.pcb[c])
      BY <1>2, <1>7, AdvanceKeepsRun DEF Sound
    <3>2. t.pcb[c].state = "Ready"
      BY <1>2, <1>7, <2>14, AdvanceDoes
    <3>3. Underway(w.pcb[c], c, now + 1)
      BY <2>12, <2>14 DEF Timed, Limit
    <3>4. now + 1 \in Int /\ now + 1 <= now + 1
      OBVIOUS
    <3>5. Underway(t.pcb[c], c, now + 1)
      BY <1>7, <2>11, <3>1, <3>3, <3>4, UnderwayLater
    <3> QED BY <3>2, <3>5 DEF Timed, Limit
  <2> QED BY <2>13, <2>14
<1> QED BY <1>5, <1>6, <1>7

(* A process nobody has started.                                            *)
LEMMA FreshTimed ==
  ASSUME Static, NEW p \in Procs, NEW now \in Nat, NEW b, b = InitialPCB(p)
  PROVE  Timed(b, p, now)
<1>1. b.state = "New" /\ b.remainingTime = task[p].burstTime /\ b.ioCompleted = {}
  BY DEF InitialPCB
<1>2. ~ b.hasStarted
  BY DEF InitialPCB
<1>3. IOTicks(b, p) = 0
  BY <1>1, SumEquation, FS_EmptySet DEF IOTicks
<1> QED BY <1>1, <1>2, <1>3 DEF Timed, Underway

AllTimed == \A p \in Procs : Timed(sim.pcb[p], p, sim.currentTime)

LEMMA NextTimed ==
  ASSUME \A p \in Procs : Timed(sim'.pcb[p], p, sim'.currentTime), UNCHANGED <<alg, task>>
  PROVE  AllTimed'
<1>1. \A p \in Procs : IOLoss(p)' = IOLoss(p)
  BY DEF IOLoss
<1>2. \A p \in Procs : IOTicks(sim.pcb[p], p)' = IOTicks(sim'.pcb[p], p)
  BY <1>1 DEF IOTicks
<1> QED BY <1>2 DEF AllTimed, Timed, Underway, Finished, Limit

LEMMA TimedInductive == Spec => []AllTimed
<1>1. Init /\ TickInv => AllTimed
  <2> SUFFICES ASSUME Init, TickInv PROVE AllTimed
    OBVIOUS
  <2>1. Static
    BY DEF TickInv, EngineInv
  <2>2. sim.currentTime = 0 /\ sim.pcb = [p \in Procs |-> InitialPCB(p)]
    BY DEF Init, NewSimulator
  <2>3. \A p \in Procs : sim.pcb[p] = InitialPCB(p)
    BY <2>2
  <2> QED BY <2>1, <2>2, <2>3, FreshTimed DEF AllTimed
<1>2. TickInv /\ AllTimed /\ [Next]_vars => AllTimed'
  <2> SUFFICES ASSUME TickInv, AllTimed, [Next]_vars PROVE AllTimed'
    OBVIOUS
  <2>1. Static /\ Sound(sim) /\ Tracked(sim)
    BY DEF TickInv, EngineInv
  <2>2. ASSUME NEW p \in Procs, AddProcess(p) PROVE AllTimed'
    <3>1. sim'.currentTime = sim.currentTime /\ sim'.pcb = sim.pcb
      BY <2>1, <2>2, AddDoes
    <3>2. \A r \in Procs : Timed(sim'.pcb[r], r, sim'.currentTime)
      BY <3>1 DEF AllTimed
    <3> QED BY <2>2, <3>2, NextTimed DEF AddProcess
  <2>3. CASE Tick
    <3>1. PICK draw \in Nat, redraw \in Nat : sim' = executeTimeUnit(sim, draw, redraw)
      BY <2>3, DrawsAreNat DEF Tick
    <3>2. \A r \in Procs : Timed(sim.pcb[r], r, sim.currentTime)
      BY DEF AllTimed
    <3>3. \A r \in Procs : Timed(sim'.pcb[r], r, sim'.currentTime)
      BY <2>1, <3>1, <3>2, TickTimed
    <3> QED BY <2>3, <3>3, NextTimed DEF Tick
  <2>4. CASE Reset
    <3>1. /\ sim'.currentTime = 0 /\ \A p \in Procs : sim'.pcb[p] = InitialPCB(p)
      BY <2>1, <2>4, ResetDoes
    <3>2. \A r \in Procs : Timed(sim'.pcb[r], r, sim'.currentTime)
      BY <2>1, <3>1, FreshTimed
    <3> QED BY <2>4, <3>2, NextTimed DEF Reset
  <2>5. CASE UNCHANGED vars
    <3>1. sim' = sim /\ UNCHANGED <<alg, task>>
      BY <2>5 DEF vars
    <3>2. \A r \in Procs : Timed(sim'.pcb[r], r, sim'.currentTime)
      BY <3>1 DEF AllTimed
    <3> QED BY <3>1, <3>2, NextTimed
  <2> QED BY <2>2, <2>3, <2>4, <2>5 DEF Next
<1> QED BY <1>1, <1>2, TickInvInductive, PTL DEF Spec

(* The sum in CompletionTimesConsistent is IOTicks.                         *)
LEMMA IOTicksIsSum ==
  ASSUME Static, Sound(sim), NEW p \in Procs
  PROVE  MapThenSumSet(LAMBDA i : task[p].ioBursts[i].duration - 1, sim.pcb[p].ioCompleted)
           = IOTicks(sim.pcb[p], p)
<1> DEFINE D == sim.pcb[p].ioCompleted
           g == IOLoss(p)
           term(i) == task[p].ioBursts[i].duration - 1
           T(f) == f = [s \in SUBSET D |-> IF s = {} THEN 0
                                           ELSE term(Pick(s)) + f[s \ {Pick(s)}]]
<1>0. sim.pcb[p] \in PCB /\ PCBSound(sim.pcb[p], p)
  BY SoundFacts
<1>1. IsFiniteSet(D) /\ \A k \in D : g[k] = term(k)
  BY <1>0, IOTicksFacts
<1>2. \A f : SumTable(f, SUBSET D, g) <=> T(f)
  <2> HIDE DEF D, g, term
  <2> QED BY <1>1, PickIn DEF SumTable
<1>3. PICK k : k = CHOOSE f : T(f)
  OBVIOUS
<1>4. SumTable(Sums(g, D), SUBSET D, g)
  BY <1>1, TableExists
<1>5. SumTable(k, SUBSET D, g)
  <2> HIDE DEF T, D, g
  <2> QED BY <1>2, <1>3, <1>4
<1>6. MapThenSumSet(LAMBDA i : task[p].ioBursts[i].duration - 1, sim.pcb[p].ioCompleted) = k[D]
  BY <1>3 DEF MapThenSumSet, MapThenFoldSet, Pick
<1>7. k[D] = Sum(g, D)
  <2> HIDE DEF D, g
  <2> QED BY <1>1, <1>5, TableGivesSum
<1> QED BY <1>6, <1>7 DEF IOTicks

(* CompletionTimesConsistent for every workload: what Execute records of a  *)
(* finished process are the times of one lifetime, in which the process was *)
(* away from the CPU for its I/O and for its response time at least.        *)
THEOREM CompletionTimesAreReal == Spec => []CompletionTimesConsistent
<1>1. TickInv /\ AllTimed => CompletionTimesConsistent
  <2> SUFFICES ASSUME TickInv, AllTimed, NEW p \in Procs, sim.pcb[p].state = "Terminated"
               PROVE  /\ sim.pcb[p].completionTime <= sim.currentTime
                      /\ sim.pcb[p].turnaroundTime =
                            sim.pcb[p].completionTime - task[p].arrivalTime
                      /\ sim.pcb[p].waitingTime = sim.pcb[p].turnaroundTime - task[p].burstTime
                      /\ 0 <= sim.pcb[p].responseTime
                      /\ sim.pcb[p].responseTime = sim.pcb[p].startTime - task[p].arrivalTime
                      /\ sim.pcb[p].responseTime
                           + MapThenSumSet(LAMBDA i : task[p].ioBursts[i].duration - 1,
                                           sim.pcb[p].ioCompleted)
                         <= sim.pcb[p].waitingTime
    BY DEF CompletionTimesConsistent
  <2>1. Static /\ Sound(sim)
    BY DEF TickInv, EngineInv
  <2>2. Finished(sim.pcb[p], p, sim.currentTime)
    BY DEF AllTimed, Timed
  <2>3. MapThenSumSet(LAMBDA i : task[p].ioBursts[i].duration - 1, sim.pcb[p].ioCompleted)
           = IOTicks(sim.pcb[p], p)
    BY <2>1, IOTicksIsSum
  <2> QED BY <2>2, <2>3 DEF Finished
<1> QED BY <1>1, TickInvInductive, TimedInductive, PTL

----------------------------------------------------------------------------
(* The progress of a process: the ticks it was served, and the ticks of its *)
(* I/O bursts, but for those still to come.                                 *)
Ahead(b) == IF b.state = "Waiting" THEN b.ioRemaining - 1 ELSE 0
Progress(b, p) == (task[p].burstTime - b.remainingTime) + IOTicks(b, p) - Ahead(b)

LEMMA ProgressIsInt ==
  ASSUME Static, NEW p \in Procs, NEW b \in PCB, PCBSound(b, p)
  PROVE  Progress(b, p) \in Int /\ Ahead(b) \in Nat
<1>1. /\ task[p].burstTime \in Nat /\ b.remainingTime \in Nat /\ b.ioRemaining \in Nat
      /\ IOTicks(b, p) \in Int
  BY TimesAreInts
<1>2. b.state = "Waiting" => b.ioRemaining > 0
  BY DEF PCBSound
<1>3. Ahead(b) \in Nat
  BY <1>1, <1>2 DEF Ahead
<1> HIDE DEF Ahead
<1> QED BY <1>1, <1>3 DEF Progress

(* A tick of service is progress, also when it starts an I/O burst, which   *)
(* is all still to come.                                                    *)
LEMMA WorkIsProgress ==
  ASSUME Static, NEW p \in Procs, NEW b \in PCB, PCBSound(b, p), NEW now \in Nat,
         b.state = "Running", b.remainingTime > 0,
         NEW c \in PCB, PCBSound(c, p), Worked(b, c, p, now)
  PROVE  Progress(c, p) = Progress(b, p) + 1
<1>1. PICK e : e = Execute(b, p, now)
  OBVIOUS
<1>2. PICK h : /\ \/ h = e /\ h.state # "Waiting"
                  \/ e.state = "Running" /\ StartsBurst(e, h, p)
               /\ SamePast(h, c)
               /\ c.state = "Waiting" <=> h.state = "Waiting"
               /\ c.ioRemaining = h.ioRemaining
  BY <1>1 DEF Worked
<1>3. e \in PCB /\ PCBSound(e, p) /\ e.remainingTime = b.remainingTime - 1
  BY <1>1, ExecuteFacts
<1>4. IOTicks(e, p) = IOTicks(b, p)
  <2>1. e.ioCompleted = b.ioCompleted
    BY <1>1, ExecuteRecords
  <2> QED BY <2>1 DEF IOTicks
<1>5. c.remainingTime = h.remainingTime /\ IOTicks(c, p) = IOTicks(h, p)
  <2>1. SameRun(h, c)
    BY <1>2 DEF SamePast
  <2>2. c.remainingTime = h.remainingTime
    BY <2>1 DEF SameRun
  <2> QED BY <2>1, <2>2, SameTicks
<1>6. /\ task[p].burstTime \in Nat /\ b.remainingTime \in Nat /\ IOTicks(b, p) \in Int
  BY TimesAreInts
<1>7. Ahead(b) = 0
  BY DEF Ahead
<1>8. IOTicks(c, p) - Ahead(c) = IOTicks(b, p) /\ c.remainingTime = b.remainingTime - 1
  <2>1. CASE h = e /\ h.state # "Waiting"
    <3>1. Ahead(c) = 0
      BY <1>2, <2>1 DEF Ahead
    <3>2. IOTicks(c, p) = IOTicks(b, p) /\ c.remainingTime = b.remainingTime - 1
      BY <1>3, <1>4, <1>5, <2>1
    <3> QED BY <1>6, <3>1, <3>2
  <2>2. CASE e.state = "Running" /\ StartsBurst(e, h, p)
    <3>1. h.state = "Waiting"
      BY <1>3, <2>2, BurstAddsTicks
    <3>2. /\ h.ioRemaining \in Nat /\ h.remainingTime = e.remainingTime
          /\ IOTicks(h, p) = IOTicks(e, p) + h.ioRemaining - 1
      BY <1>3, <2>2, BurstAddsTicks
    <3>3. Ahead(c) = h.ioRemaining - 1
      BY <1>2, <3>1 DEF Ahead
    <3> QED BY <1>3, <1>4, <1>5, <1>6, <3>2, <3>3
  <2> QED BY <1>2, <2>1, <2>2
<1>9. PICK k, m : k = IOTicks(c, p) /\ m = Ahead(c)
  OBVIOUS
<1>10. k \in Int /\ m \in Nat
  BY <1>9, ProgressIsInt, TimesAreInts
<1>11. Progress(c, p) = (task[p].burstTime - c.remainingTime) + k - m
  BY <1>9 DEF Progress
<1>12. Progress(b, p) = (task[p].burstTime - b.remainingTime) + IOTicks(b, p) - 0
  BY <1>7 DEF Progress
<1>13. k - m = IOTicks(b, p) /\ c.remainingTime = b.remainingTime - 1
  BY <1>8, <1>9
<1> QED BY <1>6, <1>10, <1>11, <1>12, <1>13

(* A tick of I/O is progress, and no process that is not served falls back. *)
LEMMA SleepIsProgress ==
  ASSUME Static, NEW s, Sound(s), NEW t, Sound(t), NEW r \in Procs,
         Sleeps(s, t, r), SameRun(s.pcb[r], t.pcb[r])
  PROVE  /\ Progress(s.pcb[r], r) <= Progress(t.pcb[r], r)
         /\ s.pcb[r].state = "Waiting" /\ s.pcb[r].ioRemaining # 1 =>
               Progress(t.pcb[r], r) = Progress(s.pcb[r], r) + 1
<1>1. PICK b, c : b = s.pcb[r] /\ c = t.pcb[r]
  OBVIOUS
<1>2. b \in PCB /\ PCBSound(b, r) /\ c \in PCB /\ PCBSound(c, r)
  BY <1>1, SoundFacts
<1>3. /\ task[r].burstTime \in Nat /\ b.remainingTime \in Nat /\ b.ioRemaining \in Nat
      /\ IOTicks(b, r) \in Int
  BY <1>2, TimesAreInts
<1>4. c.remainingTime = b.remainingTime /\ IOTicks(c, r) = IOTicks(b, r)
  <2>1. SameRun(b, c)
    BY <1>1
  <2>2. c.remainingTime = b.remainingTime
    BY <2>1 DEF SameRun
  <2> QED BY <2>1, <2>2, SameTicks
<1>5. /\ Ahead(c) <= Ahead(b) /\ Ahead(b) \in Nat /\ Ahead(c) \in Nat
      /\ b.state = "Waiting" /\ b.ioRemaining # 1 => Ahead(c) = Ahead(b) - 1
  <2>1. Ahead(b) \in Nat /\ Ahead(c) \in Nat
    BY <1>2, ProgressIsInt
  <2>2. /\ c.state = "Waiting" <=> b.state = "Waiting" /\ b.ioRemaining # 1
        /\ c.state = "Waiting" => c.ioRemaining = b.ioRemaining - 1
    BY <1>1 DEF Sleeps
  <2>3. CASE c.state = "Waiting"
    <3>1. b.state = "Waiting" /\ c.ioRemaining = b.ioRemaining - 1
      BY <2>2, <2>3
    <3>2. Ahead(b) = b.ioRemaining - 1 /\ Ahead(c) = c.ioRemaining - 1
      BY <2>3, <3>1 DEF Ahead
    <3> QED BY <1>3, <2>1, <3>1, <3>2
  <2>4. CASE c.state # "Waiting"
    <3>1. Ahead(c) = 0 /\ ~ (b.state = "Waiting" /\ b.ioRemaining # 1)
      BY <2>2, <2>4 DEF Ahead
    <3> QED BY <2>1, <3>1
  <2> QED BY <2>3, <2>4
<1>6. PICK k, m : k = Ahead(b) /\ m = Ahead(c)
  OBVIOUS
<1>7. /\ Progress(b, r) = (task[r].burstTime - b.remainingTime) + IOTicks(b, r) - k
      /\ Progress(c, r) = (task[r].burstTime - b.remainingTime) + IOTicks(b, r) - m
  BY <1>4, <1>6 DEF Progress
<1>8. /\ k \in Nat /\ m \in Nat /\ m <= k
      /\ b.state = "Waiting" /\ b.ioRemaining # 1 => m = k - 1
  BY <1>5, <1>6
<1>9. Progress(b, r) <= Progress(c, r)
  BY <1>3, <1>7, <1>8
<1>10. ASSUME b.state = "Waiting", b.ioRemaining # 1 PROVE Progress(c, r) = Progress(b, r) + 1
  <2>1. m = k - 1
    BY <1>8, <1>10
  <2> QED BY <1>3, <1>7, <1>8, <2>1
<1> QED BY <1>1, <1>9, <1>10

----------------------------------------------------------------------------
(* A tick takes nobody's progress back, and when a process that is there    *)
(* has not finished, somebody makes progress: the one that is served, or,   *)
(* when nobody can be served, the unfinished one itself, by its I/O.        *)
LEMMA TickIsProgress ==
  ASSUME Static, NEW s, Sound(s), NEW draw \in Nat, NEW redraw \in Nat,
         NEW t, t = executeTimeUnit(s, draw, redraw)
  PROVE  /\ \A r \in Procs : Progress(s.pcb[r], r) <= Progress(t.pcb[r], r)
         /\ \A p \in ToSet(s.processes) :
              s.pcb[p].state # "Terminated" /\ task[p].arrivalTime <= s.currentTime =>
                \E r \in Procs : Progress(s.pcb[r], r) < Progress(t.pcb[r], r)
<1>1. PICK i, d, w : Stages(s, t, draw, redraw, i, d, w)
  BY TickStages
<1>2. Sound(d) /\ Sound(w) /\ Sound(t) /\ t = advanceClock(w)
  <2>1. Sound(d) /\ Sound(w) /\ t = advanceClock(w)
    BY <1>1 DEF Stages
  <2> QED BY <2>1, TickSound
<1>3. PICK c : c = d.currentProcess
  OBVIOUS
<1>4. PICK now \in Nat : now = s.currentTime
  BY DEF Sound, Simulator
<1>5. ASSUME NEW r \in Procs
      PROVE  Progress(s.pcb[r], r) \in Int /\ Progress(t.pcb[r], r) \in Int
  BY <1>2, ProgressIsInt, SoundFacts
<1>6. ASSUME NEW r \in Procs, r # c
      PROVE  /\ Progress(s.pcb[r], r) <= Progress(t.pcb[r], r)
             /\ s.pcb[r].state = "Waiting" /\ s.pcb[r].ioRemaining # 1 =>
                   Progress(t.pcb[r], r) = Progress(s.pcb[r], r) + 1
  <2>1. Sleeps(s, t, r)
    BY <1>1, <1>3, <1>6, OthersSleep
  <2>2. r # d.currentProcess
    BY <1>3, <1>6
  <2>3. SameRun(s.pcb[r], t.pcb[r])
    BY <1>1, <2>2, OthersKeepPast
  <2> QED BY <1>2, <2>1, <2>3, SleepIsProgress
<1>7. ASSUME c \in Procs
      PROVE  Progress(t.pcb[c], c) = Progress(s.pcb[c], c) + 1
  <2>1. c # None
    BY <1>7, EngineAssumption
  <2>2. CanRun(s, c)
    BY <1>1, <1>3, <2>1, OthersSleep
  <2>3. SamePast(s.pcb[c], d.pcb[c])
    BY <1>1, <1>7, ReadyingKeepsPast DEF PastKept
  <2>4. d.pcb[c].state = "Running" /\ d.pcb[c].remainingTime > 0
    BY <1>2, <1>3, <1>7, <2>1, CurrentFacts
  <2>5. /\ d.pcb[c] \in PCB /\ PCBSound(d.pcb[c], c)
        /\ w.pcb[c] \in PCB /\ PCBSound(w.pcb[c], c)
    BY <1>2, <1>7, SoundFacts
  <2>6. w = expireQuantum(checkIOBurst(chargeTick(executeProcess(d))), redraw)
    BY <1>1, <1>3, <2>1 DEF Stages
  <2>7. d.currentTime = now
    BY <1>1, <1>4, BeforeServing DEF SameClock
  <2>8. Worked(d.pcb[c], w.pcb[c], c, now)
    BY <1>2, <1>3, <2>1, <2>6, <2>7, ServingWorks
  <2>9. Progress(w.pcb[c], c) = Progress(d.pcb[c], c) + 1
    BY <1>7, <2>4, <2>5, <2>8, WorkIsProgress
  <2>10. Progress(d.pcb[c], c) = Progress(s.pcb[c], c)
    <3>1. PICK x, y : x = s.pcb[c] /\ y = d.pcb[c]
      OBVIOUS
    <3>2. SameRun(x, y)
      BY <2>3, <3>1 DEF SamePast
    <3>3. y.remainingTime = x.remainingTime /\ IOTicks(y, c) = IOTicks(x, c)
      <4>1. y.remainingTime = x.remainingTime
        BY <3>2 DEF SameRun
      <4> QED BY <3>2, <4>1, SameTicks
    <3>4. Ahead(y) = 0
      BY <2>4, <3>1 DEF Ahead
    <3>5. Ahead(x) = 0
      <4>1. c \in Arriving(s) => x.state = "New"
        BY <3>1 DEF Arriving
      <4>2. x.state # "Waiting" \/ x.ioRemaining = 1
        BY <2>2, <3>1, <4>1 DEF CanRun
      <4> QED BY <4>2 DEF Ahead
    <3>6. Progress(x, c) = Progress(y, c)
      BY <3>3, <3>4, <3>5 DEF Progress
    <3> QED BY <3>1, <3>6
  <2>11. Progress(t.pcb[c], c) = Progress(w.pcb[c], c)
    <3>1. PICK x, y : x = w.pcb[c] /\ y = t.pcb[c]
      OBVIOUS
    <3>2. CASE x.state # "Ready"
      <4>1. y = x
        BY <1>2, <1>7, <3>1, <3>2, AdvanceDoes
      <4> QED BY <3>1, <4>1
    <3>3. CASE x.state = "Ready"
      <4>1. SameRun(x, y)
        BY <1>2, <1>7, <3>1, AdvanceKeepsRun DEF Sound
      <4>2. y.remainingTime = x.remainingTime /\ IOTicks(y, c) = IOTicks(x, c)
        <5>1. y.remainingTime = x.remainingTime
          BY <4>1 DEF SameRun
        <5> QED BY <4>1, <5>1, SameTicks
      <4>3. y.state = "Ready"
        BY <1>2, <1>7, <3>1, <3>3, AdvanceDoes
      <4>4. Ahead(y) = Ahead(x)
        BY <3>3, <4>3 DEF Ahead
      <4>5. Progress(x, c) = Progress(y, c)
        BY <4>2, <4>4 DEF Progress
      <4> QED BY <3>1, <4>5
    <3> QED BY <3>2, <3>3
  <2> QED BY <2>9, <2>10, <2>11
<1>8. ASSUME NEW r \in Procs
      PROVE  Progress(s.pcb[r], r) <= Progress(t.pcb[r], r)
  <2>1. CASE r # c
    BY <1>6, <2>1
  <2>2. CASE r = c
    <3>1. Progress(t.pcb[r], r) = Progress(s.pcb[r], r) + 1
      BY <1>7, <2>2
    <3> QED BY <1>5, <3>1
  <2> QED BY <2>1, <2>2
<1>9. ASSUME NEW p \in ToSet(s.processes), s.pcb[p].state # "Terminated",
             task[p].arrivalTime <= s.currentTime
      PROVE  \E r \in Procs : Progress(s.pcb[r], r) < Progress(t.pcb[r], r)
  <2>1. p \in Procs
    BY ProcessSets
  <2>2. ASSUME NEW r \in Procs, Progress(t.pcb[r], r) = Progress(s.pcb[r], r) + 1
        PROVE  Progress(s.pcb[r], r) < Progress(t.pcb[r], r)
    BY <1>5, <2>2
  <2>3. CASE c # None
    <3>1. c \in Procs
      BY <1>2, <1>3, <2>3, CurrentFacts
    <3> QED BY <1>7, <2>2, <3>1
  <2>4. CASE c = None
    <3>1. ~ CanRun(s, p)
      BY <1>1, <1>3, <2>1, <2>4, OthersSleep
    <3>2. s.pcb[p].state # "New"
      BY <1>9, <3>1 DEF CanRun, Arriving
    <3>3. s.pcb[p].state \in State
      <4>1. s.pcb[p] \in PCB
        BY <2>1, SoundFacts
      <4> QED BY <4>1 DEF PCB
    <3>4. s.pcb[p].state = "Waiting" /\ s.pcb[p].ioRemaining # 1
      BY <1>9, <3>1, <3>2, <3>3 DEF CanRun, State
    <3>5. p # c
      BY <2>1, <2>4, EngineAssumption
    <3>6. Progress(t.pcb[p], p) = Progress(s.pcb[p], p) + 1
      BY <1>6, <2>1, <3>4, <3>5
    <3> QED BY <2>1, <2>2, <3>6
  <2> QED BY <2>3, <2>4
<1> QED BY <1>8, <1>9

----------------------------------------------------------------------------
(* A finite set of integers has a largest element, and Max is it.           *)
LEMMA MaxIsLargest ==
  ASSUME NEW S \in SUBSET Int, IsFiniteSet(S), S # {}
  PROVE  Max(S) \in S /\ \A y \in S : y <= Max(S)
<1> DEFINE G == {s \in SUBSET S : s # {} => \E x \in s : \A y \in s : x >= y}
<1>1. {} \in G
  OBVIOUS
<1>2. ASSUME NEW s \in SUBSET S, s # {}, s \ {Pick(s)} \in G
      PROVE  s \in G
  <2>1. PICK z \in s : z = Pick(s)
    BY <1>2, PickIn
  <2>2. z \in Int /\ z >= z
    OBVIOUS
  <2>3. CASE s \ {z} = {}
    <3>1. \A y \in s : z >= y
      BY <2>2, <2>3
    <3> QED BY <3>1
  <2>4. CASE s \ {z} # {}
    <3>1. PICK x \in s \ {z} : \A y \in s \ {z} : x >= y
      BY <1>2, <2>1, <2>4
    <3>2. x \in Int
      OBVIOUS
    <3>3. CASE x >= z
      <4>1. \A y \in s : x >= y
        BY <3>1, <3>3
      <4> QED BY <4>1
    <3>4. CASE ~ (x >= z)
      <4>1. ASSUME NEW y \in s PROVE z >= y
        <5>1. y \in Int
          OBVIOUS
        <5> QED BY <2>2, <3>1, <3>2, <3>4, <5>1
      <4> QED BY <4>1
    <3> QED BY <3>3, <3>4
  <2> QED BY <2>3, <2>4
<1> HIDE DEF G
<1>3. S \in G
  BY <1>1, <1>2, SubsetInduction
<1>4. \E x \in S : \A y \in S : x >= y
  BY <1>3 DEF G
<1>5. Max(S) \in S /\ \A y \in S : Max(S) >= y
  BY <1>4 DEF Max
<1> QED BY <1>5

(* When the last process arrives, or may be added.                          *)
EndOfArrivals(s) == Max({LastAdd} \cup {task[p].arrivalTime : p \in ToSet(s.processes)})

LEMMA EndOfArrivalsFacts ==
  ASSUME Static, NEW s, Sound(s)
  PROVE  /\ EndOfArrivals(s) \in Nat
         /\ LastAdd <= EndOfArrivals(s)
         /\ \A p \in ToSet(s.processes) : task[p].arrivalTime <= EndOfArrivals(s)
<1> DEFINE A == {task[p].arrivalTime : p \in ToSet(s.processes)}
           S == {LastAdd} \cup A
<1>1. ToSet(s.processes) \subseteq Procs
  BY ProcessSets
<1>2. IsFiniteSet(ToSet(s.processes))
  BY <1>1, ProcsAssumption, FS_Subset
<1>3. \A p \in Procs : task[p].arrivalTime \in Nat
  BY DEF Static, Task
<1>4. S \in SUBSET Nat /\ S \in SUBSET Int /\ S # {} /\ LastAdd \in S
  BY <1>1, <1>3, EngineAssumption
<1>5. IsFiniteSet(S)
  <2>1. IsFiniteSet(A)
    <3> DEFINE P == ToSet(s.processes)
               f == [p \in P |-> task[p].arrivalTime]
    <3>1. f \in Surjection(P, A)
      BY DEF Surjection
    <3> HIDE DEF P, A, f
    <3> QED BY <1>2, <3>1, FS_Surjection DEF P
  <2> QED BY <2>1, FS_AddElement
<1>6. Max(S) \in S /\ \A y \in S : y <= Max(S)
  <2> HIDE DEF S
  <2> QED BY <1>4, <1>5, MaxIsLargest
<1>7. PICK m : m = Max(S)
  OBVIOUS
<1>8. EndOfArrivals(s) = m
  BY <1>7 DEF EndOfArrivals
<1>9. m \in S /\ \A y \in S : y <= m
  BY <1>6, <1>7
<1>10. \A p \in ToSet(s.processes) : task[p].arrivalTime \in S
  OBVIOUS
<1> HIDE DEF S
<1> QED BY <1>4, <1>8, <1>9, <1>10

(* Once the last process has arrived, all processes together have made at   *)
(* least one tick of progress in every tick, until they have finished.      *)
Progressed(s) == [p \in Procs |-> Progress(s.pcb[p], p)]
Unfinished(s) == \E p \in ToSet(s.processes) : s.pcb[p].state # "Terminated"
InTime(s) ==
    /\ 0 <= Sum(Progressed(s), Procs)
    /\ Unfinished(s) => s.currentTime <= EndOfArrivals(s) + Sum(Progressed(s), Procs)

LEMMA ProgressedFacts ==
  ASSUME Static, NEW s, Sound(s)
  PROVE  /\ \A p \in Procs : Progressed(s)[p] = Progress(s.pcb[p], p)
         /\ \A p \in Procs : Progressed(s)[p] \in Int
         /\ Sum(Progressed(s), Procs) \in Int
<1>1. \A p \in Procs : Progressed(s)[p] = Progress(s.pcb[p], p)
  BY DEF Progressed
<1>2. \A p \in Procs : Progressed(s)[p] \in Int
  BY <1>1, ProgressIsInt, SoundFacts
<1> QED BY <1>1, <1>2, ProcsAssumption, SumIsInt

(* Who has finished is not served again.                                    *)
LEMMA TickKeepsTerminated ==
  ASSUME Static, NEW s, Sound(s), NEW draw \in Nat, NEW redraw \in Nat,
         NEW t, t = executeTimeUnit(s, draw, redraw), NEW p \in Procs,
         s.pcb[p].state = "Terminated"
  PROVE  t.pcb[p].state = "Terminated"
<1>1. ~ CanRun(s, p)
  BY DEF CanRun, Arriving
<1>2. Idles(s, t) \/ \E k \in Procs : Serves(s, t, k)
  BY TickServesOrIdles
<1>3. t.pcb[p].remainingTime = s.pcb[p].remainingTime
  BY <1>1, <1>2 DEF Idles, Serves
<1>4. Sound(t)
  BY TickSound
<1> QED BY <1>3, <1>4, SoundFacts DEF PCBSound

LEMMA TickInTime ==
  ASSUME Static, NEW s, Sound(s), InTime(s), NEW draw \in Nat, NEW redraw \in Nat,
         NEW t, t = executeTimeUnit(s, draw, redraw)
  PROVE  InTime(t)
<1>1. Sound(t) /\ t.currentTime = s.currentTime + 1 /\ t.processes = s.processes
  <2>1. Sound(t)
    BY TickSound
  <2> QED BY <2>1, TickClock
<1>2. PICK now \in Nat, last \in Nat : now = s.currentTime /\ last = EndOfArrivals(s)
  BY EndOfArrivalsFacts DEF Sound, Simulator
<1>3. EndOfArrivals(t) = last
  BY <1>1, <1>2 DEF EndOfArrivals
<1>4. PICK g, h : g = Progressed(s) /\ h = Progressed(t)
  OBVIOUS
<1>5. /\ \A p \in Procs : g[p] = Progress(s.pcb[p], p) /\ h[p] = Progress(t.pcb[p], p)
      /\ \A p \in Procs : g[p] \in Int /\ h[p] \in Int
      /\ Sum(g, Procs) \in Int /\ Sum(h, Procs) \in Int
  BY <1>1, <1>4, ProgressedFacts
<1>6. \A p \in Procs : g[p] <= h[p]
  BY <1>5, TickIsProgress
<1>7. Sum(g, Procs) <= Sum(h, Procs) /\ ((\E p \in Procs : g[p] < h[p]) => Sum(g, Procs) < Sum(h, Procs))
  BY <1>5, <1>6, ProcsAssumption, SumMono
<1>8. ASSUME Unfinished(t) PROVE Unfinished(s)
  <2>1. PICK p \in ToSet(s.processes) : t.pcb[p].state # "Terminated"
    BY <1>1, <1>8 DEF Unfinished
  <2>2. p \in Procs
    BY ProcessSets
  <2>3. s.pcb[p].state # "Terminated"
    BY <2>1, <2>2, TickKeepsTerminated
  <2> QED BY <2>3 DEF Unfinished
<1>9. /\ 0 <= Sum(g, Procs)
      /\ Unfinished(s) => now <= last + Sum(g, Procs)
  BY <1>2, <1>4 DEF InTime
<1>10. ASSUME Unfinished(t) PROVE now + 1 <= last + Sum(h, Procs)
  <2>1. PICK p \in ToSet(s.processes) : s.pcb[p].state # "Terminated"
    BY <1>8, <1>10 DEF Unfinished
  <2>2. now <= last + Sum(g, Procs)
    BY <1>8, <1>9, <1>10
  <2>3. CASE now < last
    BY <1>5, <1>7, <1>9, <2>3
  <2>4. CASE ~ (now < last)
    <3>1. task[p].arrivalTime <= last /\ task[p].arrivalTime \in Nat
      <4>1. p \in Procs
        BY ProcessSets
      <4> QED BY <1>2, <4>1, EndOfArrivalsFacts DEF Static, Task
    <3>2. task[p].arrivalTime <= s.currentTime
      BY <1>2, <2>4, <3>1
    <3>3. \E r \in Procs : Progress(s.pcb[r], r) < Progress(t.pcb[r], r)
      BY <2>1, <3>2, TickIsProgress
    <3>4. Sum(g, Procs) < Sum(h, Procs)
      BY <1>5, <1>7, <3>3
    <3> QED BY <1>5, <2>2, <3>4
  <2> QED BY <2>3, <2>4
<1>11. 0 <= Sum(h, Procs)
  BY <1>5, <1>7, <1>9
<1> QED BY <1>1, <1>2, <1>3, <1>4, <1>10, <1>11 DEF InTime

(* A struct in which nobody has run.                                        *)
LEMMA InitialProgress ==
  ASSUME Static, NEW p \in Procs, NEW b, b = InitialPCB(p)
  PROVE  Progress(b, p) = 0
<1>1. b.state = "New" /\ b.ioCompleted = {}
  BY DEF InitialPCB
<1>2. b.remainingTime = task[p].burstTime /\ task[p].burstTime \in Nat
  BY InitialRemaining DEF Static, Task
<1>3. IOTicks(b, p) = 0
  BY <1>1, SumEquation, FS_EmptySet DEF IOTicks
<1>4. Ahead(b) = 0
  BY <1>1 DEF Ahead
<1> QED BY <1>2, <1>3, <1>4 DEF Progress

LEMMA FreshInTime ==
  ASSUME Static, NEW t, Sound(t), t.currentTime = 0,
         \A p \in Procs : t.pcb[p] = InitialPCB(p)
  PROVE  InTime(t)
<1>1. \A p \in Procs : Progressed(t)[p] = 0
  BY InitialProgress DEF Progressed
<1>2. Sum(Progressed(t), Procs) = 0
  BY <1>1, ProcsAssumption, SumOfZeros
<1>3. EndOfArrivals(t) \in Nat
  BY EndOfArrivalsFacts
<1> QED BY <1>2, <1>3 DEF InTime

(* The submitted fields do not change.                                      *)
LEMMA NextInTime ==
  ASSUME InTime(sim'), UNCHANGED <<alg, task>>
  PROVE  InTime(sim)'
<1>1. \A p \in Procs : IOLoss(p)' = IOLoss(p)
  BY DEF IOLoss
<1>2. \A p \in Procs : IOTicks(sim.pcb[p], p)' = IOTicks(sim'.pcb[p], p)
  BY <1>1 DEF IOTicks
<1>3. Progressed(sim)' = Progressed(sim')
  BY <1>2 DEF Progressed, Progress, Ahead
<1>4. EndOfArrivals(sim)' = EndOfArrivals(sim')
  BY DEF EndOfArrivals
<1> QED BY <1>3, <1>4 DEF InTime, Unfinished

LEMMA InTimeInductive == Spec => []InTime(sim)
<1>1. Init /\ TickInv => InTime(sim)
  <2> SUFFICES ASSUME Init, TickInv PROVE InTime(sim)
    OBVIOUS
  <2>1. Static /\ Sound(sim)
    BY DEF TickInv, EngineInv
  <2>2. sim.currentTime = 0 /\ sim.pcb = [p \in Procs |-> InitialPCB(p)]
    BY DEF Init, NewSimulator
  <2>3. \A p \in Procs : sim.pcb[p] = InitialPCB(p)
    BY <2>2
  <2> QED BY <2>1, <2>2, <2>3, FreshInTime
<1>2. TickInv /\ InTime(sim) /\ [Next]_vars => InTime(sim)'
  <2> SUFFICES ASSUME TickInv, InTime(sim), [Next]_vars PROVE InTime(sim)'
    OBVIOUS
  <2>1. Static /\ Sound(sim) /\ Tracked(sim)
    BY DEF TickInv, EngineInv
  <2>2. ASSUME NEW p \in Procs, AddProcess(p) PROVE InTime(sim)'
    <3>1. sim'.currentTime = sim.currentTime /\ sim'.pcb = sim.pcb
      BY <2>1, <2>2, AddDoes
    <3>2. sim.currentTime <= LastAdd
      BY <2>2 DEF AddProcess
    <3>3. Sound(sim')
      BY <2>1, <2>2, AddSound
    <3>4. EndOfArrivals(sim') \in Nat /\ LastAdd <= EndOfArrivals(sim')
      BY <2>1, <3>3, EndOfArrivalsFacts
    <3>5. Progressed(sim') = Progressed(sim)
      BY <3>1 DEF Progressed
    <3>6. 0 <= Sum(Progressed(sim), Procs) /\ Sum(Progressed(sim), Procs) \in Int
      BY <2>1, ProgressedFacts DEF InTime
    <3>7. sim.currentTime \in Nat /\ LastAdd \in Nat
      BY <2>1, EngineAssumption DEF Sound, Simulator
    <3>8. sim'.currentTime <= EndOfArrivals(sim') + Sum(Progressed(sim'), Procs)
      BY <3>1, <3>2, <3>4, <3>5, <3>6, <3>7
    <3>9. InTime(sim')
      BY <3>5, <3>6, <3>8 DEF InTime
    <3> QED BY <2>2, <3>9, NextInTime DEF AddProcess
  <2>3. CASE Tick
    <3>1. PICK draw \in Nat, redraw \in Nat : sim' = executeTimeUnit(sim, draw, redraw)
      BY <2>3, DrawsAreNat DEF Tick
    <3>2. InTime(sim')
      BY <2>1, <3>1, TickInTime
    <3> QED BY <2>3, <3>2, NextInTime DEF Tick
  <2>4. CASE Reset
    <3>1. sim'.currentTime = 0 /\ \A p \in Procs : sim'.pcb[p] = InitialPCB(p)
      BY <2>1, <2>4, ResetDoes
    <3>2. Sound(sim')
      BY <2>1, <2>4, ResetSound
    <3>3. InTime(sim')
      BY <2>1, <3>1, <3>2, FreshInTime
    <3> QED BY <2>4, <3>3, NextInTime DEF Reset
  <2>5. CASE UNCHANGED vars
    <3>1. sim' = sim /\ UNCHANGED <<alg, task>>
      BY <2>5 DEF vars
    <3> QED BY <3>1, NextInTime
  <2> QED BY <2>2, <2>3, <2>4, <2>5 DEF Next
<1> QED BY <1>1, <1>2, TickInvInductive, PTL DEF Spec

(* The I/O bursts of a process add up as IOLoss says.                       *)
LEMMA IOTimeIsSum ==
  ASSUME Static, NEW p \in Procs
  PROVE  /\ MapThenSumSet(LAMBDA i : task[p].ioBursts[i].duration - 1, DOMAIN task[p].ioBursts)
              = Sum(IOLoss(p), DOMAIN task[p].ioBursts)
         /\ IsFiniteSet(DOMAIN task[p].ioBursts)
         /\ \A k \in DOMAIN task[p].ioBursts : IOLoss(p)[k] \in Nat
<1> DEFINE D == DOMAIN task[p].ioBursts
           g == IOLoss(p)
           term(i) == task[p].ioBursts[i].duration - 1
           T(f) == f = [s \in SUBSET D |-> IF s = {} THEN 0
                                           ELSE term(Pick(s)) + f[s \ {Pick(s)}]]
<1>0. task[p].ioBursts \in Seq(IOBurst)
  BY DEF Static, Task
<1>1. IsFiniteSet(D)
  <2>1. D = 1..Len(task[p].ioBursts) /\ Len(task[p].ioBursts) \in Nat
    BY <1>0, LenProperties
  <2> QED BY <2>1, FS_Interval
<1>2. ASSUME NEW k \in D PROVE g[k] = term(k) /\ g[k] \in Nat
  <2>1. task[p].ioBursts[k] \in IOBurst
    BY <1>0, ElementOfSeq, LenProperties
  <2>2. task[p].ioBursts[k].duration \in Nat \ {0}
    BY <2>1 DEF IOBurst
  <2> QED BY <2>2 DEF IOLoss
<1>3. \A f : SumTable(f, SUBSET D, g) <=> T(f)
  <2> HIDE DEF D, g, term
  <2> QED BY <1>2, PickIn DEF SumTable
<1>4. PICK k : k = CHOOSE f : T(f)
  OBVIOUS
<1>5. SumTable(Sums(g, D), SUBSET D, g)
  BY <1>1, TableExists
<1>6. SumTable(k, SUBSET D, g)
  <2> HIDE DEF T, D, g
  <2> QED BY <1>3, <1>4, <1>5
<1>7. MapThenSumSet(LAMBDA i : task[p].ioBursts[i].duration - 1, DOMAIN task[p].ioBursts) = k[D]
  BY <1>4 DEF MapThenSumSet, MapThenFoldSet, Pick
<1>8. k[D] = Sum(g, D)
  <2> HIDE DEF D, g
  <2> QED BY <1>1, <1>6, TableGivesSum
<1> QED BY <1>1, <1>2, <1>7, <1>8

(* What a process has done is no more than its demand, and less as long as  *)
(* it has not finished.                                                     *)
LEMMA ProgressBelowDemand ==
  ASSUME Static, NEW p \in Procs, NEW b \in PCB, PCBSound(b, p)
  PROVE  /\ Demand(p) \in Int
         /\ Progress(b, p) <= Demand(p)
         /\ b.state # "Terminated" => Progress(b, p) < Demand(p)
<1> DEFINE D == DOMAIN task[p].ioBursts
<1>1. IsFiniteSet(D) /\ \A k \in D : IOLoss(p)[k] \in Nat
  BY IOTimeIsSum
<1>2. PICK total : total = Sum(IOLoss(p), D)
  OBVIOUS
<1>3. Demand(p) = task[p].burstTime + total
  BY <1>2, IOTimeIsSum DEF Demand
<1>4. total \in Nat
  BY <1>1, <1>2, SumIsNat
<1>5. IOTicks(b, p) <= total
  <2>1. b.ioCompleted \in SUBSET D
    BY IOTicksFacts
  <2>2. PICK g : g = IOLoss(p)
    OBVIOUS
  <2> HIDE DEF D
  <2>3. Sum(g, b.ioCompleted) <= Sum(g, D)
    BY <1>1, <2>1, <2>2, SumOfMore
  <2> QED BY <1>2, <2>2, <2>3 DEF IOTicks
<1>6. Ahead(b) \in Nat
  BY ProgressIsInt
<1>7. /\ task[p].burstTime \in Nat /\ b.remainingTime \in Nat /\ IOTicks(b, p) \in Int
  BY TimesAreInts
<1>8. b.state # "Terminated" => b.remainingTime > 0
  BY <1>7 DEF PCBSound
<1>9. PICK k, m : k = IOTicks(b, p) /\ m = Ahead(b)
  OBVIOUS
<1>10. Progress(b, p) = (task[p].burstTime - b.remainingTime) + k - m
  BY <1>9 DEF Progress
<1>11. k \in Int /\ m \in Nat /\ k <= total
  BY <1>5, <1>6, <1>7, <1>9
<1>12. Demand(p) \in Int /\ Progress(b, p) <= Demand(p)
  BY <1>3, <1>4, <1>7, <1>10, <1>11
<1>13. b.remainingTime > 0 => Progress(b, p) < Demand(p)
  BY <1>3, <1>4, <1>7, <1>10, <1>11
<1> QED BY <1>8, <1>12, <1>13

Demands == [p \in Procs |-> Demand(p)]

LEMMA DemandIsSum ==
  ASSUME NEW D \in SUBSET Procs
  PROVE  MapThenSumSet(Demand, D) = Sum(Demands, D)
<1> DEFINE g == Demands
           T(f) == f = [s \in SUBSET D |-> IF s = {} THEN 0
                                           ELSE Demand(Pick(s)) + f[s \ {Pick(s)}]]
<1>1. IsFiniteSet(D)
  BY ProcsAssumption, FS_Subset
<1>2. \A f : SumTable(f, SUBSET D, g) <=> T(f)
  BY PickIn DEF SumTable, Demands
<1>3. PICK k : k = CHOOSE f : T(f)
  OBVIOUS
<1>4. SumTable(Sums(g, D), SUBSET D, g)
  BY <1>1, TableExists
<1>5. SumTable(k, SUBSET D, g)
  <2> HIDE DEF T, g
  <2> QED BY <1>2, <1>3, <1>4
<1>6. MapThenSumSet(Demand, D) = k[D]
  BY <1>3 DEF MapThenSumSet, MapThenFoldSet, Pick
<1> HIDE DEF g
<1> QED BY <1>1, <1>5, <1>6, TableGivesSum DEF g

(* FinishesInTime for every workload and every algorithm: the makespan is   *)
(* bounded, so no algorithm starves a process and none is lost.             *)
THEOREM EveryProcessFinishes == Spec => []FinishesInTime
<1>1. TickInv /\ InTime(sim) => FinishesInTime
  <2> SUFFICES ASSUME TickInv, InTime(sim), NEW p \in ToSet(sim.processes),
                      sim.pcb[p].state # "Terminated"
               PROVE  sim.currentTime
                        < LastArrival + MapThenSumSet(Demand, ToSet(sim.processes))
    BY DEF FinishesInTime
  <2>1. Static /\ Sound(sim) /\ Tracked(sim)
    BY DEF TickInv, EngineInv
  <2> DEFINE A == ToSet(sim.processes)
             g == Progressed(sim)
             h == Demands
  <2>2. A \in SUBSET Procs /\ p \in Procs /\ p \in A
    BY <2>1, ProcessSets
  <2>3. IsFiniteSet(A)
    BY <2>2, ProcsAssumption, FS_Subset
  <2>4. ASSUME NEW r \in Procs
        PROVE  /\ g[r] \in Int /\ h[r] \in Int /\ g[r] <= h[r]
               /\ sim.pcb[r].state # "Terminated" => g[r] < h[r]
    <3>1. sim.pcb[r] \in PCB /\ PCBSound(sim.pcb[r], r)
      BY <2>1, SoundFacts
    <3>2. g[r] = Progress(sim.pcb[r], r) /\ g[r] \in Int
      BY <2>1, ProgressedFacts
    <3>3. h[r] = Demand(r)
      BY DEF Demands
    <3> HIDE DEF g, h
    <3> QED BY <2>1, <3>1, <3>2, <3>3, ProgressBelowDemand
  <2>5. ASSUME NEW r \in Procs \ A PROVE g[r] = 0
    <3>1. sim.pcb[r].state = "New"
      BY <2>1, <2>5 DEF Sound
    <3>2. PICK b : b = sim.pcb[r] /\ b = InitialPCB(r)
      BY <2>1, <3>1 DEF Tracked, Fresh
    <3>3. Progress(b, r) = 0
      BY <2>1, <3>2, InitialProgress
    <3> QED BY <3>2, <3>3 DEF Progressed
  <2>6. MapThenSumSet(Demand, A) = Sum(h, A)
    BY <2>2, DemandIsSum
  <2>7. LastArrival = EndOfArrivals(sim)
    <3>1. {ArrivalTime[r] : r \in A} = {task[r].arrivalTime : r \in A}
      BY <2>2 DEF ArrivalTime
    <3> QED BY <3>1 DEF LastArrival, EndOfArrivals
  <2>8. sim.currentTime <= EndOfArrivals(sim) + Sum(g, Procs)
    BY DEF InTime, Unfinished
  <2> HIDE DEF A, g, h
  <2>9. Sum(g, A) = Sum(g, Procs)
    BY <2>2, <2>4, <2>5, ProcsAssumption, SumPart
  <2>10. Sum(g, A) < Sum(h, A)
    <3>1. \A r \in A : g[r] \in Int /\ h[r] \in Int /\ g[r] <= h[r]
      BY <2>2, <2>4
    <3>2. \E r \in A : g[r] < h[r]
      BY <2>2, <2>4
    <3> QED BY <2>3, <3>1, <3>2, SumMono
  <2>11. Sum(g, A) \in Int /\ Sum(h, A) \in Int
    BY <2>2, <2>3, <2>4, SumIsInt
  <2>12. EndOfArrivals(sim) \in Nat /\ sim.currentTime \in Nat
    BY <2>1, EndOfArrivalsFacts DEF Sound, Simulator
  <2>13. sim.currentTime < EndOfArrivals(sim) + Sum(h, A)
    BY <2>8, <2>9, <2>10, <2>11, <2>12
  <2> QED BY <2>6, <2>7, <2>13 DEF A
<1> QED BY <1>1, TickInvInductive, InTimeInductive, PTL

----------------------------------------------------------------------------
(* advanceClock charges a tick of waiting to the processes left in the      *)
(* ready queue, except those with the PID of the current process.           *)
LeftWaiting(s, p) ==
    /\ s.pcb[p].state = "Ready"
    /\ s.currentProcess = None \/ task[p].pid # task[s.currentProcess].pid

LEMMA AdvanceCharges ==
  ASSUME NEW s, Sound(s), NEW t, t = advanceClock(s), NEW p \in Procs
  PROVE  /\ LeftWaiting(s, p) => t.pcb[p].waitingTime = s.pcb[p].waitingTime + 1
         /\ ~ LeftWaiting(s, p) => t.pcb[p].waitingTime = s.pcb[p].waitingTime
<1>1. PICK b, c : b = s.pcb[p] /\ c = t.pcb[p]
  OBVIOUS
<1>2. b \in PCB /\ s \in Simulator
  BY <1>1 DEF Sound, Simulator
<1>3. p \in ToSet(s.readyQueue) <=> b.state = "Ready"
  BY <1>1, ProcessSets DEF In
<1>4. /\ LeftWaiting(s, p) => c = [b EXCEPT !.waitingTime = b.waitingTime + 1]
      /\ ~ LeftWaiting(s, p) => c = b
  BY <1>1, <1>2, <1>3 DEF advanceClock, Simulator, PCB, LeftWaiting
<1>5. [b EXCEPT !.waitingTime = b.waitingTime + 1].waitingTime = b.waitingTime + 1
  BY <1>2 DEF PCB
<1> QED BY <1>1, <1>4, <1>5

(* Until then the waiting time of a process that does not complete is not   *)
(* touched.                                                                 *)
LEMMA WaitingUntouched ==
  ASSUME Static, NEW s, Sound(s), NEW draw \in Nat, NEW redraw \in Nat, NEW t,
         NEW i, NEW d, NEW w, Stages(s, t, draw, redraw, i, d, w), NEW p \in Procs,
         w.pcb[p].state # "Terminated"
  PROVE  w.pcb[p].waitingTime = s.pcb[p].waitingTime
<1>1. Sound(d) /\ Sound(w)
  BY DEF Stages
<1>2. CASE p # d.currentProcess
  <2>1. SamePast(s.pcb[p], w.pcb[p])
    BY <1>2, OthersKeepPast
  <2> QED BY <2>1 DEF SamePast
<1>3. CASE p = d.currentProcess
  <2>1. d.currentProcess # None
    BY <1>3, EngineAssumption
  <2>2. w = expireQuantum(checkIOBurst(chargeTick(executeProcess(d))), redraw)
    BY <2>1 DEF Stages
  <2>3. PICK x, y, z : x = s.pcb[p] /\ y = d.pcb[p] /\ z = w.pcb[p]
    OBVIOUS
  <2>4. PICK now \in Nat : now = d.currentTime
    BY <1>1 DEF Sound, Simulator
  <2>5. Worked(y, z, p, now)
    BY <1>1, <1>3, <2>1, <2>2, <2>3, <2>4, ServingWorks
  <2>6. y.waitingTime = x.waitingTime
    <3>1. SamePast(x, y)
      BY <2>3, ReadyingKeepsPast DEF PastKept
    <3> QED BY <3>1 DEF SamePast
  <2>7. PICK e : e = Execute(y, p, now)
    OBVIOUS
  <2>8. PICK h : /\ \/ h = e
                    \/ e.state = "Running" /\ StartsBurst(e, h, p)
                 /\ SamePast(h, z)
    BY <2>5, <2>7 DEF Worked
  <2>9. y \in PCB /\ PCBSound(y, p) /\ z \in PCB /\ PCBSound(z, p)
    BY <1>1, <2>3, SoundFacts
  <2>10. y.state = "Running" /\ y.remainingTime > 0
    BY <1>1, <1>3, <2>1, <2>3, CurrentFacts
  <2>11. e \in PCB /\ PCBSound(e, p)
    BY <2>7, <2>9, <2>10, ExecuteFacts
  <2>12. e.state # "Terminated" => e.waitingTime = y.waitingTime
    BY <2>7, <2>9, <2>10, ExecuteRecords
  <2>13. z.waitingTime = h.waitingTime /\ z.remainingTime = h.remainingTime
    BY <2>8 DEF SamePast, SameRun
  <2>14. h.waitingTime = e.waitingTime /\ e.state # "Terminated"
    <3>1. CASE h = e
      <4>1. z.remainingTime = e.remainingTime /\ z.remainingTime # 0
        BY <2>3, <2>9, <2>13, <3>1 DEF PCBSound
      <4> QED BY <2>11, <3>1, <4>1 DEF PCBSound
    <3>2. CASE e.state = "Running" /\ StartsBurst(e, h, p)
      BY <2>11, <3>2 DEF StartsBurst, PCB
    <3> QED BY <2>8, <3>1, <3>2
  <2> QED BY <2>3, <2>6, <2>12, <2>13, <2>14
<1> QED BY <1>2, <1>3

(* Waiting times only grow until Execute replaces them by the total.        *)
Patient(s) == \A p \in Procs : s.pcb[p].state # "Terminated" => 0 <= s.pcb[p].waitingTime

LEMMA TickPatient ==
  ASSUME Static, NEW s, Sound(s), Patient(s), NEW draw \in Nat, NEW redraw \in Nat,
         NEW t, t = executeTimeUnit(s, draw, redraw)
  PROVE  Patient(t)
<1> SUFFICES ASSUME NEW p \in Procs, t.pcb[p].state # "Terminated"
             PROVE  0 <= t.pcb[p].waitingTime
  BY DEF Patient
<1>1. PICK i, d, w : Stages(s, t, draw, redraw, i, d, w)
  BY TickStages
<1>2. Sound(w) /\ t = advanceClock(w)
  BY <1>1 DEF Stages
<1>3. w.pcb[p].state # "Terminated"
  BY <1>2, AdvanceDoes
<1>4. w.pcb[p].waitingTime = s.pcb[p].waitingTime
  BY <1>1, <1>3, WaitingUntouched
<1>5. s.pcb[p].state # "Terminated"
  BY TickKeepsTerminated
<1>6. s.pcb[p].waitingTime \in Int /\ 0 <= s.pcb[p].waitingTime
  <2>1. s.pcb[p] \in PCB
    BY SoundFacts
  <2>2. s.pcb[p].waitingTime \in Int
    BY <2>1 DEF PCB
  <2> QED BY <1>5, <2>2 DEF Patient
<1>7. t.pcb[p].waitingTime \in {w.pcb[p].waitingTime, w.pcb[p].waitingTime + 1}
  BY <1>2, AdvanceCharges
<1> QED BY <1>4, <1>6, <1>7

----------------------------------------------------------------------------
(* The sums of calculateMetrics are sums in the sense of this module.       *)
WaitingTimes(s) == [p \in Procs |-> s.pcb[p].waitingTime]
TurnaroundTimes(s) == [p \in Procs |-> s.pcb[p].turnaroundTime]
ResponseTimes(s) == [p \in Procs |-> s.pcb[p].responseTime]
BurstTimes == [p \in Procs |-> task[p].burstTime]

LEMMA WaitingIsSum ==
  ASSUME NEW D \in SUBSET Procs
  PROVE  MapThenSumSet(LAMBDA p : sim.pcb[p].waitingTime, D) = Sum(WaitingTimes(sim), D)
<1> DEFINE g == WaitingTimes(sim)
           T(f) == f = [s \in SUBSET D |-> IF s = {} THEN 0
                                           ELSE sim.pcb[Pick(s)].waitingTime + f[s \ {Pick(s)}]]
<1>1. IsFiniteSet(D)
  BY ProcsAssumption, FS_Subset
<1>2. \A f : SumTable(f, SUBSET D, g) <=> T(f)
  BY PickIn DEF SumTable, WaitingTimes
<1>3. PICK k : k = CHOOSE f : T(f)
  OBVIOUS
<1>4. SumTable(Sums(g, D), SUBSET D, g)
  BY <1>1, TableExists
<1>5. SumTable(k, SUBSET D, g)
  <2> HIDE DEF T, g
  <2> QED BY <1>2, <1>3, <1>4
<1>6. MapThenSumSet(LAMBDA p : sim.pcb[p].waitingTime, D) = k[D]
  BY <1>3 DEF MapThenSumSet, MapThenFoldSet, Pick
<1> HIDE DEF g
<1> QED BY <1>1, <1>5, <1>6, TableGivesSum DEF g

LEMMA TurnaroundIsSum ==
  ASSUME NEW D \in SUBSET Procs
  PROVE  MapThenSumSet(LAMBDA p : sim.pcb[p].turnaroundTime, D) = Sum(TurnaroundTimes(sim), D)
<1> DEFINE g == TurnaroundTimes(sim)
           T(f) == f = [s \in SUBSET D |-> IF s = {} THEN 0
                                           ELSE sim.pcb[Pick(s)].turnaroundTime + f[s \ {Pick(s)}]]
<1>1. IsFiniteSet(D)
  BY ProcsAssumption, FS_Subset
<1>2. \A f : SumTable(f, SUBSET D, g) <=> T(f)
  BY PickIn DEF SumTable, TurnaroundTimes
<1>3. PICK k : k = CHOOSE f : T(f)
  OBVIOUS
<1>4. SumTable(Sums(g, D), SUBSET D, g)
  BY <1>1, TableExists
<1>5. SumTable(k, SUBSET D, g)
  <2> HIDE DEF T, g
  <2> QED BY <1>2, <1>3, <1>4
<1>6. MapThenSumSet(LAMBDA p : sim.pcb[p].turnaroundTime, D) = k[D]
  BY <1>3 DEF MapThenSumSet, MapThenFoldSet, Pick
<1> HIDE DEF g
<1> QED BY <1>1, <1>5, <1>6, TableGivesSum DEF g

LEMMA ResponseIsSum ==
  ASSUME NEW D \in SUBSET Procs
  PROVE  MapThenSumSet(LAMBDA p : sim.pcb[p].responseTime, D) = Sum(ResponseTimes(sim), D)
<1> DEFINE g == ResponseTimes(sim)
           T(f) == f = [s \in SUBSET D |-> IF s = {} THEN 0
                                           ELSE sim.pcb[Pick(s)].responseTime + f[s \ {Pick(s)}]]
<1>1. IsFiniteSet(D)
  BY ProcsAssumption, FS_Subset
<1>2. \A f : SumTable(f, SUBSET D, g) <=> T(f)
  BY PickIn DEF SumTable, ResponseTimes
<1>3. PICK k : k = CHOOSE f : T(f)
  OBVIOUS
<1>4. SumTable(Sums(g, D), SUBSET D, g)
  BY <1>1, TableExists
<1>5. SumTable(k, SUBSET D, g)
  <2> HIDE DEF T, g
  <2> QED BY <1>2, <1>3, <1>4
<1>6. MapThenSumSet(LAMBDA p : sim.pcb[p].responseTime, D) = k[D]
  BY <1>3 DEF MapThenSumSet, MapThenFoldSet, Pick
<1> HIDE DEF g
<1> QED BY <1>1, <1>5, <1>6, TableGivesSum DEF g

LEMMA BurstIsSum ==
  ASSUME NEW D \in SUBSET Procs
  PROVE  MapThenSumSet(LAMBDA p : task[p].burstTime, D) = Sum(BurstTimes, D)
<1> DEFINE g == BurstTimes
           T(f) == f = [s \in SUBSET D |-> IF s = {} THEN 0
                                           ELSE task[Pick(s)].burstTime + f[s \ {Pick(s)}]]
<1>1. IsFiniteSet(D)
  BY ProcsAssumption, FS_Subset
<1>2. \A f : SumTable(f, SUBSET D, g) <=> T(f)
  BY PickIn DEF SumTable, BurstTimes
<1>3. PICK k : k = CHOOSE f : T(f)
  OBVIOUS
<1>4. SumTable(Sums(g, D), SUBSET D, g)
  BY <1>1, TableExists
<1>5. SumTable(k, SUBSET D, g)
  <2> HIDE DEF T, g
  <2> QED BY <1>2, <1>3, <1>4
<1>6. MapThenSumSet(LAMBDA p : task[p].burstTime, D) = k[D]
  BY <1>3 DEF MapThenSumSet, MapThenFoldSet, Pick
<1> HIDE DEF g
<1> QED BY <1>1, <1>5, <1>6, TableGivesSum DEF g

(* The busy time is the CPU time the processes used.                        *)
Busy(s) ==
    /\ s.currentTime - s.totalIdleTime = Sum(UsedTime(s), Procs)
    /\ \A p \in Procs : 0 <= UsedTime(s)[p]

LEMMA TickBusy ==
  ASSUME Static, NEW s, Sound(s), Busy(s), NEW draw \in Nat, NEW redraw \in Nat,
         NEW t, t = executeTimeUnit(s, draw, redraw)
  PROVE  Busy(t)
<1>1. PICK i, d, w : Stages(s, t, draw, redraw, i, d, w)
  BY TickStages
<1>2. PICK c : c = d.currentProcess
  OBVIOUS
<1>3. Sound(t) /\ t.currentTime = s.currentTime + 1
  <2>1. Sound(t)
    BY TickSound
  <2> QED BY <2>1, TickClock
<1>4. s.currentTime \in Nat /\ s.totalIdleTime \in Nat
  BY DEF Sound, Simulator
<1>5. PICK g, h : g = UsedTime(s) /\ h = UsedTime(t)
  OBVIOUS
<1>6. /\ \A p \in Procs : g[p] \in Int /\ h[p] \in Int
      /\ \A p \in Procs : g[p] = task[p].burstTime - s.pcb[p].remainingTime
      /\ \A p \in Procs : h[p] = task[p].burstTime - t.pcb[p].remainingTime
  BY <1>3, <1>5, UsedFacts DEF UsedTime
<1>7. Sum(g, Procs) \in Int /\ s.currentTime - s.totalIdleTime = Sum(g, Procs)
  BY <1>5, <1>6, ProcsAssumption, SumIsInt DEF Busy
<1>8. \A p \in Procs : 0 <= g[p]
  BY <1>5 DEF Busy
<1>9. CASE c = None
  <2>1. d.currentProcess = None
    BY <1>2, <1>9
  <2>2. /\ t.totalIdleTime = s.totalIdleTime + 1
        /\ \A p \in Procs : t.pcb[p].remainingTime = s.pcb[p].remainingTime
    BY <1>1, <2>1, IdleTickCharges
  <2>3. h = g
    BY <1>5, <2>2 DEF UsedTime
  <2>4. t.currentTime - t.totalIdleTime = Sum(h, Procs)
    BY <1>3, <1>4, <1>7, <2>2, <2>3
  <2> QED BY <1>5, <1>8, <2>3, <2>4 DEF Busy
<1>10. CASE c # None
  <2>1. /\ c \in Procs
        /\ t.totalIdleTime = s.totalIdleTime
        /\ t.pcb[c].remainingTime = s.pcb[c].remainingTime - 1
        /\ \A p \in Procs : p # c => t.pcb[p].remainingTime = s.pcb[p].remainingTime
    BY <1>1, <1>2, <1>10, BusyTickCharges
  <2>2. task[c].burstTime \in Nat /\ s.pcb[c].remainingTime \in Nat
    BY <2>1, SoundFacts DEF Task, PCB
  <2>3. h[c] = g[c] + 1 /\ \A p \in Procs : p # c => h[p] = g[p]
    BY <1>6, <2>1, <2>2
  <2>4. Agree(g, h, Procs \ {c})
    BY <2>3 DEF Agree
  <2>5. Sum(h, Procs) = Sum(g, Procs) + (h[c] - g[c])
    BY <1>6, <2>1, <2>4, ProcsAssumption, SumChanges
  <2>6. g[c] \in Int
    BY <1>6, <2>1
  <2>7. Sum(h, Procs) = Sum(g, Procs) + 1
    BY <1>7, <2>3, <2>5, <2>6
  <2>8. t.currentTime - t.totalIdleTime = Sum(h, Procs)
    BY <1>3, <1>4, <1>7, <2>1, <2>7
  <2>9. \A p \in Procs : 0 <= h[p]
    <3>1. 0 <= h[c]
      BY <1>8, <2>1, <2>3, <2>6
    <3> QED BY <1>8, <2>3, <3>1
  <2> QED BY <1>5, <2>8, <2>9 DEF Busy
<1> QED BY <1>9, <1>10

(* A struct in which nobody has run.                                        *)
LEMMA FreshBusy ==
  ASSUME Static, NEW t, t.currentTime = 0, t.totalIdleTime = 0,
         \A p \in Procs : t.pcb[p] = InitialPCB(p)
  PROVE  Busy(t) /\ Patient(t)
<1>1. ASSUME NEW p \in Procs PROVE UsedTime(t)[p] = 0 /\ 0 <= t.pcb[p].waitingTime
  <2>1. PICK b : b = t.pcb[p] /\ b = InitialPCB(p)
    OBVIOUS
  <2>2. b.remainingTime = task[p].burstTime /\ task[p].burstTime \in Nat
    BY <2>1, InitialRemaining DEF Static, Task
  <2>3. b.waitingTime = 0
    BY <2>1 DEF InitialPCB
  <2> QED BY <2>1, <2>2, <2>3 DEF UsedTime
<1>2. Sum(UsedTime(t), Procs) = 0
  BY <1>1, ProcsAssumption, SumOfZeros
<1> QED BY <1>1, <1>2 DEF Busy, Patient

LEMMA BusyInductive == Spec => [](Busy(sim) /\ Patient(sim))
<1>1. Init /\ TickInv => Busy(sim) /\ Patient(sim)
  <2> SUFFICES ASSUME Init, TickInv PROVE Busy(sim) /\ Patient(sim)
    OBVIOUS
  <2>1. Static
    BY DEF TickInv, EngineInv
  <2>2. /\ sim.currentTime = 0 /\ sim.totalIdleTime = 0
        /\ sim.pcb = [p \in Procs |-> InitialPCB(p)]
    BY DEF Init, NewSimulator
  <2>3. \A p \in Procs : sim.pcb[p] = InitialPCB(p)
    BY <2>2
  <2> QED BY <2>1, <2>2, <2>3, FreshBusy
<1>2. TickInv /\ Busy(sim) /\ Patient(sim) /\ [Next]_vars => Busy(sim)' /\ Patient(sim)'
  <2> SUFFICES ASSUME TickInv, Busy(sim), Patient(sim), [Next]_vars
               PROVE  Busy(sim)' /\ Patient(sim)'
    OBVIOUS
  <2>1. Static /\ Sound(sim) /\ Tracked(sim)
    BY DEF TickInv, EngineInv
  <2>2. ASSUME UNCHANGED <<alg, task>>, Busy(sim'), Patient(sim')
        PROVE  Busy(sim)' /\ Patient(sim)'
    <3>1. UsedTime(sim)' = UsedTime(sim')
      BY <2>2 DEF UsedTime
    <3> QED BY <2>2, <3>1 DEF Busy, Patient
  <2>3. ASSUME NEW p \in Procs, AddProcess(p) PROVE Busy(sim)' /\ Patient(sim)'
    <3>1. /\ sim'.currentTime = sim.currentTime
          /\ sim'.totalIdleTime = sim.totalIdleTime /\ sim'.pcb = sim.pcb
      BY <2>1, <2>3, AddDoes
    <3>2. UsedTime(sim') = UsedTime(sim)
      BY <3>1 DEF UsedTime
    <3>3. Busy(sim') /\ Patient(sim')
      BY <3>1, <3>2 DEF Busy, Patient
    <3> QED BY <2>2, <2>3, <3>3 DEF AddProcess
  <2>4. CASE Tick
    <3>1. PICK draw \in Nat, redraw \in Nat : sim' = executeTimeUnit(sim, draw, redraw)
      BY <2>4, DrawsAreNat DEF Tick
    <3>2. Busy(sim') /\ Patient(sim')
      BY <2>1, <3>1, TickBusy, TickPatient
    <3> QED BY <2>2, <2>4, <3>2 DEF Tick
  <2>5. CASE Reset
    <3>1. sim'.currentTime = 0 /\ \A p \in Procs : sim'.pcb[p] = InitialPCB(p)
      BY <2>1, <2>5, ResetDoes
    <3>2. sim'.totalIdleTime = 0
      BY <2>1, <2>5 DEF Reset, Sound, Simulator
    <3>3. Busy(sim') /\ Patient(sim')
      BY <2>1, <3>1, <3>2, FreshBusy
    <3> QED BY <2>2, <2>5, <3>3 DEF Reset
  <2>6. CASE UNCHANGED vars
    <3>1. sim' = sim /\ UNCHANGED <<alg, task>>
      BY <2>6 DEF vars
    <3> QED BY <2>2, <3>1
  <2> QED BY <2>3, <2>4, <2>5, <2>6 DEF Next
<1> QED BY <1>1, <1>2, TickInvInductive, PTL DEF Spec

(* Of what the metrics are made: the times of the processes, as functions.  *)
LEMMA MetricTerms ==
  ASSUME TickInv, AllTimed, Busy(sim), Patient(sim), NEW p \in Procs
  PROVE  /\ UsedTime(sim)[p] \in Nat /\ WaitingTimes(sim)[p] \in Nat
         /\ TurnaroundTimes(sim)[p] \in Int /\ ResponseTimes(sim)[p] \in Int
         /\ BurstTimes[p] \in Int
         /\ sim.pcb[p].state = "Terminated" =>
              /\ 1 <= UsedTime(sim)[p]
              /\ ResponseTimes(sim)[p] <= WaitingTimes(sim)[p]
              /\ TurnaroundTimes(sim)[p] = WaitingTimes(sim)[p] + BurstTimes[p]
         /\ p \notin ToSet(sim.processes) => UsedTime(sim)[p] = 0
<1>1. Static /\ Sound(sim) /\ Tracked(sim)
  BY DEF TickInv, EngineInv
<1>2. PICK b : b = sim.pcb[p]
  OBVIOUS
<1>3. b \in PCB /\ PCBSound(b, p)
  BY <1>1, <1>2, SoundFacts
<1>4. /\ task[p].burstTime \in Nat /\ b.remainingTime \in Nat
      /\ b.responseTime \in Int /\ b.turnaroundTime \in Int /\ b.waitingTime \in Int
      /\ IOTicks(b, p) \in Int
  BY <1>1, <1>3, TimesAreInts
<1>5. task[p].burstTime > 0
  BY <1>1 DEF Static, Task
<1>6. /\ UsedTime(sim)[p] = task[p].burstTime - b.remainingTime
      /\ WaitingTimes(sim)[p] = b.waitingTime
      /\ TurnaroundTimes(sim)[p] = b.turnaroundTime
      /\ ResponseTimes(sim)[p] = b.responseTime
      /\ BurstTimes[p] = task[p].burstTime
  BY <1>2 DEF UsedTime, WaitingTimes, TurnaroundTimes, ResponseTimes, BurstTimes
<1>7. UsedTime(sim)[p] \in Nat
  <2>1. 0 <= UsedTime(sim)[p]
    BY DEF Busy
  <2> QED BY <1>4, <1>6, <2>1
<1>8. IOTicks(b, p) \in Nat
  <2>1. PICK g, D : g = IOLoss(p) /\ D = b.ioCompleted
    OBVIOUS
  <2>2. IsFiniteSet(D) /\ \A k \in D : g[k] \in Nat
    BY <1>1, <1>3, <2>1, IOTicksFacts, IOTimeIsSum
  <2>3. Sum(g, D) \in Nat
    BY <2>2, SumIsNat
  <2> QED BY <2>1, <2>3 DEF IOTicks
<1>9. ASSUME b.state = "Terminated"
      PROVE  /\ b.remainingTime = 0 /\ 0 <= b.responseTime
             /\ b.responseTime <= b.waitingTime
             /\ b.turnaroundTime = b.waitingTime + task[p].burstTime
  <2>1. Finished(b, p, sim.currentTime)
    BY <1>2, <1>9 DEF AllTimed, Timed
  <2>2. /\ b.waitingTime = b.turnaroundTime - task[p].burstTime
        /\ 0 <= b.responseTime /\ b.responseTime + IOTicks(b, p) <= b.waitingTime
    BY <2>1 DEF Finished
  <2>3. b.remainingTime = 0
    BY <1>3, <1>9 DEF PCBSound
  <2>4. PICK k \in Nat : k = IOTicks(b, p)
    BY <1>8
  <2>5. b.responseTime + k <= b.waitingTime
    BY <2>2, <2>4
  <2> QED BY <1>4, <2>2, <2>3, <2>5
<1>10. b.waitingTime \in Nat
  <2>1. CASE b.state = "Terminated"
    BY <1>4, <1>9, <2>1
  <2>2. CASE b.state # "Terminated"
    <3>1. 0 <= b.waitingTime
      BY <1>2, <2>2 DEF Patient
    <3> QED BY <1>4, <3>1
  <2> QED BY <2>1, <2>2
<1>11. ASSUME p \notin ToSet(sim.processes) PROVE UsedTime(sim)[p] = 0
  <2>1. sim.pcb[p].state = "New"
    BY <1>1, <1>11 DEF Sound
  <2>2. b = InitialPCB(p)
    BY <1>1, <1>2, <2>1 DEF Tracked, Fresh
  <2>3. b.remainingTime = task[p].burstTime
    BY <2>2, InitialRemaining
  <2> QED BY <1>4, <1>6, <2>3
<1>12. ASSUME b.state = "Terminated"
       PROVE  /\ 1 <= UsedTime(sim)[p]
              /\ ResponseTimes(sim)[p] <= WaitingTimes(sim)[p]
              /\ TurnaroundTimes(sim)[p] = WaitingTimes(sim)[p] + BurstTimes[p]
  <2>1. 1 <= UsedTime(sim)[p]
    BY <1>4, <1>5, <1>6, <1>9, <1>12
  <2> QED BY <1>6, <1>9, <1>12, <2>1
<1> QED BY <1>2, <1>4, <1>6, <1>7, <1>10, <1>11, <1>12

(* A sequence without repetition is as long as its set of elements is big.  *)
LEMMA DistinctCount ==
  ASSUME NEW q \in Seq(Procs), IsInjective(q)
  PROVE  Cardinality(ToSet(q)) = Len(q)
<1> DEFINE n == Len(q)
           S == ToSet(q)
<1>1. n \in Nat /\ q \in [1..n -> Procs] /\ DOMAIN q = 1..n
  BY LenProperties
<1>2. S = {q[i] : i \in 1..n}
  BY <1>1 DEF ToSet
<1>3. q \in Surjection(1..n, S)
  BY <1>1, <1>2 DEF Surjection
<1>4. q \in Injection(1..n, S)
  BY <1>1, <1>2 DEF Injection, IsInjective
<1>5. IsFiniteSet(1..n) /\ Cardinality(1..n) = n
  <2>1. IsFiniteSet(1..n) /\ Cardinality(1..n) = IF 1 > n THEN 0 ELSE n - 1 + 1
    BY <1>1, FS_Interval
  <2> HIDE DEF n
  <2> QED BY <1>1, <2>1
<1> HIDE DEF n, S
<1> QED BY <1>3, <1>4, <1>5, FS_Surjection DEF n, S

(* The sums, before they become averages.                                   *)
LEMMA MetricSums ==
  ASSUME TickInv, AllTimed, Busy(sim), Patient(sim),
         NEW A, A = ToSet(sim.processes), NEW C, C = Completed(sim)
  PROVE  /\ C \in SUBSET A /\ A \in SUBSET Procs /\ IsFiniteSet(A)
         /\ Cardinality(C) \in Nat /\ Cardinality(A) = Len(sim.processes)
         /\ Sum(UsedTime(sim), A) = sim.currentTime - sim.totalIdleTime
         /\ Sum(UsedTime(sim), A) \in Nat
         /\ Cardinality(C) <= Sum(UsedTime(sim), A)
         /\ Sum(ResponseTimes(sim), C) <= Sum(WaitingTimes(sim), A)
         /\ Sum(WaitingTimes(sim), A) \in Nat
         /\ Cardinality(C) = Cardinality(A) =>
              Sum(TurnaroundTimes(sim), C) = Sum(WaitingTimes(sim), A) + Sum(BurstTimes, A)
<1> DEFINE used == UsedTime(sim)
           waiting == WaitingTimes(sim)
           response == ResponseTimes(sim)
           turnaround == TurnaroundTimes(sim)
<1>1. Static /\ Sound(sim) /\ Tracked(sim)
  BY DEF TickInv, EngineInv
<1>2. C \in SUBSET A /\ A \in SUBSET Procs
  BY <1>1, ProcessSets DEF Completed
<1>3. IsFiniteSet(A) /\ IsFiniteSet(C) /\ Cardinality(C) \in Nat
  BY <1>2, ProcsAssumption, FS_Subset, FS_CardinalityType
<1>4. \A p \in C : sim.pcb[p].state = "Terminated"
  <2>1. SUFFICES ASSUME NEW p \in C PROVE sim.pcb[p].state = "Terminated"
    OBVIOUS
  <2>2. sim.pcb[p] \in PCB /\ PCBSound(sim.pcb[p], p)
    BY <1>1, <1>2, SoundFacts
  <2>3. sim.pcb[p].remainingTime \in Nat
    BY <2>2 DEF PCB
  <2>4. sim.pcb[p].state = "Terminated" \/ sim.pcb[p].remainingTime <= 0
    BY DEF Completed, IsComplete
  <2> QED BY <2>2, <2>3, <2>4 DEF PCBSound
<1>5. \A p \in Procs :
        /\ used[p] \in Nat /\ waiting[p] \in Nat
        /\ turnaround[p] \in Int /\ response[p] \in Int /\ BurstTimes[p] \in Int
        /\ p \in C => /\ 1 <= used[p]
                      /\ response[p] <= waiting[p]
                      /\ turnaround[p] = waiting[p] + BurstTimes[p]
        /\ p \notin A => used[p] = 0
  BY <1>4, MetricTerms
<1>6. Cardinality(A) = Len(sim.processes)
  <2>1. sim.processes \in Seq(Procs) /\ IsInjective(sim.processes)
    BY <1>1 DEF Sound, Simulator
  <2> QED BY <2>1, DistinctCount
<1>7. Sum(used, Procs) = sim.currentTime - sim.totalIdleTime
  BY DEF Busy
<1> HIDE DEF used, waiting, response, turnaround
<1>8. Sum(used, A) = Sum(used, Procs)
  BY <1>2, <1>5, ProcsAssumption, SumPart
<1>9. Sum(used, A) \in Nat /\ Sum(waiting, A) \in Nat
  BY <1>2, <1>3, <1>5, SumIsNat
<1>10. Cardinality(C) <= Sum(used, A)
  <2> DEFINE one == [p \in C |-> 1]
  <2>1. \A p \in C : one[p] = 1
    OBVIOUS
  <2> HIDE DEF one
  <2>2. Sum(one, C) = Cardinality(C)
    BY <1>3, <2>1, SumOfOnes
  <2>3. Sum(one, C) <= Sum(used, C)
    BY <1>2, <1>3, <1>5, <2>1, SumMono
  <2>4. Sum(used, C) <= Sum(used, A)
    BY <1>2, <1>3, <1>5, SumOfMore
  <2>5. Sum(used, C) \in Nat
    BY <1>2, <1>3, <1>5, SumIsNat
  <2> QED BY <1>3, <1>9, <2>2, <2>3, <2>4, <2>5
<1>11. Sum(response, C) <= Sum(waiting, A)
  <2>1. Sum(response, C) <= Sum(waiting, C)
    <3>1. \A p \in C : response[p] \in Int /\ waiting[p] \in Int /\ response[p] <= waiting[p]
      BY <1>2, <1>5
    <3> QED BY <1>3, <3>1, SumMono
  <2>2. Sum(waiting, C) <= Sum(waiting, A)
    BY <1>2, <1>3, <1>5, SumOfMore
  <2>3. Sum(response, C) \in Int /\ Sum(waiting, C) \in Int
    BY <1>2, <1>3, <1>5, SumIsInt
  <2> QED BY <1>9, <2>1, <2>2, <2>3
<1>12. ASSUME Cardinality(C) = Cardinality(A)
       PROVE  Sum(turnaround, C) = Sum(waiting, A) + Sum(BurstTimes, A)
  <2>1. C = A
    BY <1>2, <1>3, <1>12, FS_Subset
  <2>2. \A p \in A : waiting[p] \in Int /\ BurstTimes[p] \in Int
                     /\ turnaround[p] = waiting[p] + BurstTimes[p]
    BY <1>2, <1>5, <2>1
  <2>3. Sum(turnaround, A) = Sum(waiting, A) + Sum(BurstTimes, A)
    BY <1>3, <2>2, SumPlus
  <2> QED BY <2>1, <2>3
<1> QED
  BY <1>2, <1>3, <1>6, <1>7, <1>8, <1>9, <1>10, <1>11, <1>12
  DEF used, waiting, response, turnaround

(* MetricsConsistent for every workload: the figures of an update, which    *)
(* calculateMetrics takes from the clock, the idle count and the processes, *)
(* agree with each other at every tick.                                     *)
THEOREM MetricsAgree == Spec => []MetricsConsistent
<1>1. TickInv /\ AllTimed /\ Busy(sim) /\ Patient(sim) => MetricsConsistent
  <2> SUFFICES ASSUME TickInv, AllTimed, Busy(sim), Patient(sim) PROVE MetricsConsistent
    OBVIOUS
  <2>1. PICK A, C : A = ToSet(sim.processes) /\ C = Completed(sim)
    OBVIOUS
  <2>2. /\ C \in SUBSET A /\ A \in SUBSET Procs /\ IsFiniteSet(A)
        /\ Cardinality(C) \in Nat /\ Cardinality(A) = Len(sim.processes)
        /\ Sum(UsedTime(sim), A) = sim.currentTime - sim.totalIdleTime
        /\ Sum(UsedTime(sim), A) \in Nat
        /\ Cardinality(C) <= Sum(UsedTime(sim), A)
        /\ Sum(ResponseTimes(sim), C) <= Sum(WaitingTimes(sim), A)
        /\ Sum(WaitingTimes(sim), A) \in Nat
        /\ Cardinality(C) = Cardinality(A) =>
             Sum(TurnaroundTimes(sim), C) = Sum(WaitingTimes(sim), A) + Sum(BurstTimes, A)
    BY <2>1, MetricSums
  <2>3. /\ MapThenSumSet(CPUTimeUsed, A) = Sum(UsedTime(sim), A)
        /\ totalWaiting(sim) = Sum(WaitingTimes(sim), A)
        /\ totalTurnaround(sim) = Sum(TurnaroundTimes(sim), C)
        /\ totalResponse(sim) = Sum(ResponseTimes(sim), C)
        /\ MapThenSumSet(LAMBDA p : task[p].burstTime, A) = Sum(BurstTimes, A)
    <3>1. C \in SUBSET Procs /\ A \in SUBSET Procs
      BY <2>2
    <3>2. MapThenSumSet(CPUTimeUsed, A) = Sum(UsedTime(sim), A)
      BY <3>1, CPUTimeIsSum
    <3>3. totalWaiting(sim) = Sum(WaitingTimes(sim), A)
      BY <2>1, <3>1, WaitingIsSum DEF totalWaiting
    <3>4. totalTurnaround(sim) = Sum(TurnaroundTimes(sim), C)
      BY <2>1, <3>1, TurnaroundIsSum DEF totalTurnaround
    <3>5. totalResponse(sim) = Sum(ResponseTimes(sim), C)
      BY <2>1, <3>1, ResponseIsSum DEF totalResponse
    <3>6. MapThenSumSet(LAMBDA p : task[p].burstTime, A) = Sum(BurstTimes, A)
      BY <3>1, BurstIsSum
    <3> QED BY <3>2, <3>3, <3>4, <3>5, <3>6
  <2>4. PICK now, idleTime, k, n, u, x, y, z, v :
          /\ now = sim.currentTime /\ idleTime = sim.totalIdleTime
          /\ k = Cardinality(C) /\ n = Len(sim.processes)
          /\ u = Sum(UsedTime(sim), A) /\ x = Sum(WaitingTimes(sim), A)
          /\ y = Sum(TurnaroundTimes(sim), C) /\ z = Sum(ResponseTimes(sim), C)
          /\ v = Sum(BurstTimes, A)
    OBVIOUS
  <2>5. now \in Nat /\ idleTime \in Nat
    BY <2>4 DEF TickInv, EngineInv, Sound, Simulator
  <2>6. /\ k \in Nat /\ u = now - idleTime /\ u \in Nat /\ k <= u
        /\ z <= x /\ x \in Nat
        /\ k = n => y = x + v
    BY <2>2, <2>4
  <2>7. PICK m : m = snapshotState(sim).metrics
    OBVIOUS
  <2>8. /\ m.totalProcesses = n /\ m.completedProcesses = k
        /\ m.averageTurnaroundTime = Quotient(y, k)
        /\ m.averageWaitingTime = Quotient(x, n)
        /\ m.averageResponseTime = Quotient(z, k)
        /\ m.cpuUtilization = Quotient(now - idleTime, now)
        /\ m.throughput = Quotient(k, now)
    BY <2>1, <2>3, <2>4, <2>7 DEF snapshotState, calculateMetrics
  <2>9. n \in Nat /\ k <= n
    BY <2>2, <2>4, FS_Subset, FS_CardinalityType
  <2>10. now = 0 => u = 0 /\ k = 0
    BY <2>5, <2>6
  <2>11. m.cpuUtilization.num = u /\ m.cpuUtilization.num <= m.cpuUtilization.den
    <3>1. CASE now > 0
      <4>1. m.cpuUtilization = [num |-> u, den |-> now]
        BY <2>6, <2>8, <3>1 DEF Quotient
      <4> QED BY <2>5, <2>6, <4>1
    <3>2. CASE now = 0
      <4>1. m.cpuUtilization = [num |-> 0, den |-> 1]
        BY <2>8, <3>2 DEF Quotient
      <4> QED BY <2>10, <3>2, <4>1
    <3> QED BY <2>5, <3>1, <3>2
  <2>12. m.throughput.num <= u
    <3>1. m.throughput.num \in {k, 0}
      BY <2>8 DEF Quotient
    <3> QED BY <2>6, <3>1
  <2>13. m.averageResponseTime.num <= m.averageWaitingTime.num
    <3>1. CASE k > 0
      <4>1. n > 0
        BY <2>6, <2>9, <3>1
      <4>2. m.averageResponseTime.num = z /\ m.averageWaitingTime.num = x
        BY <2>8, <3>1, <4>1 DEF Quotient
      <4> QED BY <2>6, <4>2
    <3>2. CASE ~ (k > 0)
      <4>1. m.averageResponseTime.num = 0
        BY <2>8, <3>2 DEF Quotient
      <4>2. m.averageWaitingTime.num \in {x, 0}
        BY <2>8 DEF Quotient
      <4> QED BY <2>6, <4>1, <4>2
    <3> QED BY <3>1, <3>2
  <2>14. ASSUME k = n
         PROVE  m.averageTurnaroundTime.num = m.averageWaitingTime.num + v
    <3>1. CASE n > 0
      <4>1. m.averageTurnaroundTime.num = y /\ m.averageWaitingTime.num = x
        BY <2>8, <2>14, <3>1 DEF Quotient
      <4> QED BY <2>6, <2>14, <4>1
    <3>2. CASE ~ (n > 0)
      <4>1. m.averageTurnaroundTime.num = 0 /\ m.averageWaitingTime.num = 0
        BY <2>8, <2>14, <3>2 DEF Quotient
      <4>2. A = {}
        BY <2>2, <2>4, <2>9, <3>2, FS_EmptySet
      <4>3. v = 0
        BY <2>2, <2>4, <4>2, SumEquation
      <4> QED BY <4>1, <4>3
    <3> QED BY <3>1, <3>2
  <2>15. MapThenSumSet(CPUTimeUsed, A) = u /\ MapThenSumSet(LAMBDA p : task[p].burstTime, A) = v
    BY <2>3, <2>4
  <2> QED BY <2>1, <2>7, <2>8, <2>11, <2>12, <2>13, <2>14, <2>15 DEF MetricsConsistent
<1> QED BY <1>1, TickInvInductive, TimedInductive, BusyInductive, PTL

----------------------------------------------------------------------------
(* The log b is a and what was logged at the time now.                      *)
AddedAt(a, b, now) ==
    /\ a \in Seq(EventRecord) /\ b \in Seq(EventRecord)
    /\ Len(a) <= Len(b)
    /\ \A k \in 1..Len(a) : b[k] = a[k]
    /\ \A k \in (Len(a) + 1)..Len(b) : b[k].time = now

LEMMA NothingAdded ==
  ASSUME NEW a \in Seq(EventRecord), NEW now
  PROVE  AddedAt(a, a, now)
<1>1. Len(a) \in Nat
  BY LenProperties
<1> QED BY <1>1 DEF AddedAt

LEMMA AddedCompose ==
  ASSUME NEW a, NEW b, NEW c, NEW now, AddedAt(a, b, now), AddedAt(b, c, now)
  PROVE  AddedAt(a, c, now)
<1>1. Len(a) \in Nat /\ Len(b) \in Nat /\ Len(c) \in Nat /\ Len(a) <= Len(b) /\ Len(b) <= Len(c)
  BY LenProperties DEF AddedAt
<1>2. ASSUME NEW k \in 1..Len(a) PROVE c[k] = a[k]
  <2>1. k \in 1..Len(b)
    BY <1>1
  <2> QED BY <2>1 DEF AddedAt
<1>3. ASSUME NEW k \in (Len(a) + 1)..Len(c) PROVE c[k].time = now
  <2>1. CASE k <= Len(b)
    <3>1. k \in 1..Len(b) /\ k \in (Len(a) + 1)..Len(b)
      BY <1>1, <2>1
    <3> QED BY <3>1 DEF AddedAt
  <2>2. CASE ~ (k <= Len(b))
    <3>1. k \in (Len(b) + 1)..Len(c)
      BY <1>1, <2>2
    <3> QED BY <3>1 DEF AddedAt
  <2> QED BY <2>1, <2>2
<1> QED BY <1>1, <1>2, <1>3 DEF AddedAt

LEMMA OneAdded ==
  ASSUME Static, NEW s, Sound(s), NEW type \in EventType, NEW p \in Procs,
         NEW c, c = Append(s.events, Event(s, type, p))
  PROVE  AddedAt(s.events, c, s.currentTime)
<1>1. PICK a, e : a = s.events /\ e = Event(s, type, p)
  OBVIOUS
<1>2. a \in Seq(EventRecord) /\ e \in EventRecord /\ s \in Simulator
  BY <1>1, EventTyped DEF Sound, Simulator
<1>3. e.time = s.currentTime
  BY <1>1 DEF Event
<1>4. c = Append(a, e)
  BY <1>1
<1>5. c \in Seq(EventRecord) /\ Len(c) = Len(a) + 1 /\ c[Len(a) + 1] = e
  BY <1>2, <1>4, AppendProperties
<1>6. \A k \in 1..Len(a) : c[k] = a[k]
  BY <1>2, <1>4, AppendProperties
<1>7. Len(a) \in Nat
  BY <1>2, LenProperties
<1>8. \A k \in (Len(a) + 1)..Len(c) : k = Len(a) + 1
  BY <1>5, <1>7
<1>9. AddedAt(a, c, s.currentTime)
  BY <1>2, <1>3, <1>5, <1>6, <1>7, <1>8 DEF AddedAt
<1> QED BY <1>1, <1>9

LEMMA BatchAdded ==
  ASSUME Static, NEW s, Sound(s), NEW type \in EventType, NEW q \in Seq(Procs),
         NEW c, c = s.events \o EventsOf(s, type, q)
  PROVE  AddedAt(s.events, c, s.currentTime)
<1>1. PICK a, e : a = s.events /\ e = EventsOf(s, type, q)
  OBVIOUS
<1>2. s \in Simulator /\ a \in Seq(EventRecord) /\ e \in Seq(EventRecord)
  <2>1. s \in Simulator /\ a \in Seq(EventRecord)
    BY <1>1 DEF Sound, Simulator
  <2> QED BY <1>1, <2>1, EventsOfTyped
<1>3. \A k \in 1..Len(e) : e[k].time = s.currentTime
  <2>1. DOMAIN e = 1..Len(e) /\ DOMAIN e = DOMAIN q
    BY <1>1, <1>2, LenProperties DEF EventsOf
  <2>2. \A k \in DOMAIN q : e[k] = Event(s, type, q[k])
    BY <1>1 DEF EventsOf
  <2>3. ASSUME NEW k \in 1..Len(e) PROVE e[k].time = s.currentTime
    <3>1. e[k] = Event(s, type, q[k])
      BY <2>1, <2>2
    <3>2. Event(s, type, q[k]).time = s.currentTime
      BY DEF Event
    <3> QED BY <3>1, <3>2
  <2> QED BY <2>3
<1>4. c = a \o e
  BY <1>1
<1>5. c \in Seq(EventRecord) /\ Len(c) = Len(a) + Len(e)
  BY <1>2, <1>4, ConcatProperties
<1>6. Len(a) \in Nat /\ Len(e) \in Nat
  BY <1>2, LenProperties
<1>7. \A k \in 1..Len(c) : c[k] = IF k <= Len(a) THEN a[k] ELSE e[k - Len(a)]
  BY <1>2, <1>4, <1>5, ConcatProperties
<1>8. ASSUME NEW k \in 1..Len(a) PROVE c[k] = a[k]
  <2>1. k \in 1..Len(c) /\ k <= Len(a)
    BY <1>5, <1>6
  <2> QED BY <1>7, <2>1
<1>9. ASSUME NEW k \in (Len(a) + 1)..Len(c) PROVE c[k].time = s.currentTime
  <2>1. k \in 1..Len(c) /\ ~ (k <= Len(a)) /\ k - Len(a) \in 1..Len(e)
    BY <1>5, <1>6
  <2> QED BY <1>3, <1>7, <2>1
<1>10. AddedAt(a, c, s.currentTime)
  BY <1>2, <1>5, <1>6, <1>8, <1>9 DEF AddedAt
<1> QED BY <1>1, <1>10

(* What scheduleNextProcess logs, it logs now.                              *)
LEMMA ScheduleLogs ==
  ASSUME Static, NEW s, Sound(s), s.currentProcess = None, NEW draw \in Nat,
         NEW t, t = scheduleNextProcess(s, draw)
  PROVE  AddedAt(s.events, t.events, s.currentTime)
<1>1. CASE s.readyQueue = << >>
  <2>1. t = s
    BY <1>1, ScheduleDoes
  <2>2. s.events \in Seq(EventRecord)
    BY DEF Sound, Simulator
  <2> QED BY <2>1, <2>2, NothingAdded
<1>2. CASE s.readyQueue # << >>
  <2>1. PICK p : p = t.currentProcess
    OBVIOUS
  <2>2. p \in Procs /\ \E type \in {"start", "resume"} :
                           t.events = Append(s.events, Event(s, type, p))
    BY <1>2, <2>1, ScheduleDoes
  <2>3. PICK type \in EventType : t.events = Append(s.events, Event(s, type, p))
    BY <2>2 DEF EventType
  <2> QED BY <2>2, <2>3, OneAdded
<1> QED BY <1>1, <1>2

(* What a tick logs is dated at its start.                                  *)
LEMMA TickLogs ==
  ASSUME Static, NEW s, Sound(s), NEW draw \in Nat, NEW redraw \in Nat,
         NEW t, NEW i, NEW d, NEW w, Stages(s, t, draw, redraw, i, d, w)
  PROVE  AddedAt(s.events, t.events, s.currentTime)
<1>1. /\ i = tickIOQueue(checkArrivals(s)) /\ d = dispatch(i, draw) /\ t = advanceClock(w)
      /\ Sound(i) /\ Sound(d) /\ Sound(w)
  BY DEF Stages
<1>2. PICK now : now = s.currentTime
  OBVIOUS
<1>3. AddedAt(s.events, i.events, now) /\ i.currentTime = now
  <2>1. PICK a : a = checkArrivals(s)
    OBVIOUS
  <2>2. Sound(a) /\ i = tickIOQueue(a)
    BY <1>1, <2>1, ArrivalsSound
  <2>3. /\ a.events = s.events \o EventsOf(s, "arrival", Kept(s.processes, Arriving(s)))
        /\ a.currentTime = now
    BY <1>2, <2>1, ArrivalsDo DEF SameClock
  <2>4. /\ i.events = a.events \o EventsOf(a, "io_complete", Kept(a.ioQueue, Waking(a)))
        /\ i.currentTime = a.currentTime
    BY <2>2, TickIODoes DEF SameClock
  <2>5. s.processes \in Seq(Procs) /\ a.ioQueue \in Seq(Procs)
    BY <2>2 DEF Sound, Simulator
  <2>6. /\ Kept(s.processes, Arriving(s)) \in Seq(Procs)
        /\ Kept(a.ioQueue, Waking(a)) \in Seq(Procs)
    <3>1. Holds(s.processes, ToSet(s.processes)) /\ Holds(a.ioQueue, In(a, "Waiting"))
      BY <2>2, <2>5 DEF Sound, Holds
    <3> QED BY <3>1, KeptHolds DEF Holds
  <2>7. "arrival" \in EventType /\ "io_complete" \in EventType
    BY DEF EventType
  <2>8. AddedAt(s.events, a.events, now)
    BY <1>2, <2>3, <2>6, <2>7, BatchAdded
  <2>9. AddedAt(a.events, i.events, now)
    BY <2>2, <2>3, <2>4, <2>6, <2>7, BatchAdded
  <2> QED BY <2>3, <2>4, <2>8, <2>9, AddedCompose
<1>4. AddedAt(i.events, d.events, now) /\ d.currentTime = now
  <2>1. d.currentTime = now
    BY <1>2, BeforeServing DEF SameClock
  <2>2. CASE i.currentProcess = None
    <3>1. d = scheduleNextProcess(i, draw)
      BY <1>1, <2>2 DEF dispatch
    <3> QED BY <1>1, <1>3, <2>1, <2>2, <3>1, ScheduleLogs
  <2>3. CASE i.currentProcess # None /\ ~ Preempt(i)
    <3>1. d = i
      BY <1>1, <2>3, DispatchDoes
    <3>2. i.events \in Seq(EventRecord)
      BY <1>1 DEF Sound, Simulator
    <3> QED BY <2>1, <3>1, <3>2, NothingAdded
  <2>4. CASE i.currentProcess # None /\ Preempt(i)
    <3>1. PICK u : u = preemptCurrentProcess(i)
      OBVIOUS
    <3>2. d = scheduleNextProcess(u, draw)
      BY <1>1, <2>4, <3>1, CurrentIncomplete DEF dispatch
    <3>3. Sound(u) /\ u.currentProcess = None
      BY <1>1, <2>4, <3>1, PreemptSound
    <3>4. /\ u.events = Append(i.events, Event(i, "preempt", i.currentProcess))
          /\ u.currentTime = i.currentTime
      BY <1>1, <2>4, <3>1, PreemptDoes DEF SameClock
    <3>5. i.currentProcess \in Procs /\ "preempt" \in EventType
      BY <1>1, <2>4, CurrentFacts DEF EventType
    <3>6. AddedAt(i.events, u.events, now)
      BY <1>1, <1>3, <3>4, <3>5, OneAdded
    <3>7. AddedAt(u.events, d.events, now)
      BY <1>3, <3>2, <3>3, <3>4, ScheduleLogs
    <3> QED BY <2>1, <3>6, <3>7, AddedCompose
  <2> QED BY <2>2, <2>3, <2>4
<1>5. AddedAt(d.events, w.events, now)
  <2>1. d.events \in Seq(EventRecord)
    BY <1>1 DEF Sound, Simulator
  <2>2. CASE d.currentProcess = None
    <3>1. w.events = d.events
      BY <1>1, <2>2, IdleDoes DEF Stages
    <3> QED BY <2>1, <3>1, NothingAdded
  <2>3. CASE d.currentProcess # None
    <3>1. PICK c, e : c = d.currentProcess /\ e = executeProcess(d)
      OBVIOUS
    <3>2. PICK g : g = chargeTick(e)
      OBVIOUS
    <3>3. PICK h : h = checkIOBurst(g)
      OBVIOUS
    <3>4. w = expireQuantum(h, redraw)
      BY <2>3, <3>1, <3>2, <3>3 DEF Stages
    <3>5. Sound(e) /\ Sound(g) /\ Sound(h) /\ c \in Procs
      BY <1>1, <2>3, <3>1, <3>2, <3>3, ExecuteSound, ChargeSound, CheckIOSound, CurrentFacts
    <3>6. AddedAt(d.events, g.events, now) /\ g.currentTime = now
      <4>1. /\ e.currentTime = now
            /\ e.events = d.events \/ e.events = Append(d.events, Event(d, "complete", c))
        BY <1>1, <1>4, <2>3, <3>1, ExecuteDoes
      <4>2. g.events = e.events /\ g.currentTime = e.currentTime
        BY <3>2, <3>5, ChargeDoes DEF SameClock
      <4>3. CASE e.events = d.events
        BY <2>1, <4>1, <4>2, <4>3, NothingAdded
      <4>4. CASE e.events = Append(d.events, Event(d, "complete", c))
        <5>1. "complete" \in EventType
          BY DEF EventType
        <5> QED BY <1>1, <1>4, <3>5, <4>1, <4>2, <4>4, <5>1, OneAdded
      <4> QED BY <4>1, <4>3, <4>4
    <3>7. AddedAt(g.events, h.events, now) /\ h.currentTime = now
      <4>1. CASE h = g
        <5>1. g.events \in Seq(EventRecord)
          BY <3>5 DEF Sound, Simulator
        <5> QED BY <3>6, <4>1, <5>1, NothingAdded
      <4>2. CASE h # g
        <5>1. PICK p : p = g.currentProcess
          OBVIOUS
        <5>2. /\ p \in Procs /\ h.events = Append(g.events, Event(g, "io_start", p))
              /\ h.currentTime = g.currentTime
          BY <3>3, <3>5, <4>2, <5>1, CheckIODoes DEF SameClock
        <5>3. "io_start" \in EventType
          BY DEF EventType
        <5> QED BY <3>5, <3>6, <5>2, <5>3, OneAdded
      <4> QED BY <4>1, <4>2
    <3>8. AddedAt(h.events, w.events, now)
      <4>1. CASE w = h
        <5>1. h.events \in Seq(EventRecord)
          BY <3>5 DEF Sound, Simulator
        <5> QED BY <4>1, <5>1, NothingAdded
      <4>2. CASE w # h
        <5>1. PICK p : p = h.currentProcess
          OBVIOUS
        <5>2. PICK u : u = requeueExpired(h, p)
          OBVIOUS
        <5>3. h.currentProcess # None /\ w = scheduleNextProcess(u, redraw)
          BY <3>4, <4>2, <5>1, <5>2 DEF expireQuantum
        <5>4. /\ p \in Procs /\ u.events = Append(h.events, Event(h, "quantum_expire", p))
              /\ u.currentTime = h.currentTime
          BY <3>5, <5>1, <5>2, <5>3, CurrentFacts, RequeueExpiredDoes DEF SameClock
        <5>5. Sound(u) /\ u.currentProcess = None
          BY <3>5, <5>1, <5>2, <5>3, RequeueExpiredSound, RequeueExpiredDoes
        <5>6. "quantum_expire" \in EventType
          BY DEF EventType
        <5>7. AddedAt(h.events, u.events, now)
          BY <3>5, <3>7, <5>4, <5>6, OneAdded
        <5>8. AddedAt(u.events, w.events, now)
          BY <3>7, <5>3, <5>4, <5>5, ScheduleLogs
        <5> QED BY <5>7, <5>8, AddedCompose
      <4> QED BY <4>1, <4>2
    <3>9. AddedAt(d.events, h.events, now)
      BY <3>6, <3>7, AddedCompose
    <3> QED BY <3>8, <3>9, AddedCompose
  <2> QED BY <2>2, <2>3
<1>6. t.events = w.events
  BY <1>1, AdvanceDoes
<1>7. AddedAt(s.events, d.events, now)
  BY <1>3, <1>4, AddedCompose
<1>8. AddedAt(s.events, w.events, now)
  BY <1>5, <1>7, AddedCompose
<1> QED BY <1>2, <1>6, <1>8

----------------------------------------------------------------------------
(* Without a quantum a process that does no I/O either runs or waits, and   *)
(* its waiting time says how long.                                          *)
Quantumless == alg \notin {"rr", "lottery", "mlq", "cfs", "mlfq"}

LEMMA NoQuantum ==
  ASSUME Static, NEW s \in Simulator, NEW p \in Procs
  PROVE  QuantumFor(s, p) = 0 <=> Quantumless
<1>1. CASE alg = "mlfq"
  <2>1. Level(s)[p] \in Nat
    BY KeysAreNat DEF Static
  <2>2. /\ FeedbackQuanta \in Seq(Nat \ {0}) /\ Len(FeedbackQuanta) \in Nat
        /\ Len(FeedbackQuanta) > 0
    BY QuantumAssumption, LenProperties
  <2>3. \A i \in 1..Len(FeedbackQuanta) : FeedbackQuanta[i] \in Nat \ {0}
    BY <2>2, ElementOfSeq
  <2>4. QuantumFor(s, p) \in Nat \ {0}
    <3>1. CASE Level(s)[p] >= Len(FeedbackQuanta)
      BY <1>1, <2>2, <2>3, <3>1 DEF QuantumFor
    <3>2. CASE ~ (Level(s)[p] >= Len(FeedbackQuanta))
      <4>1. Level(s)[p] + 1 \in 1..Len(FeedbackQuanta)
        BY <2>1, <2>2, <3>2
      <4>2. QuantumFor(s, p) = FeedbackQuanta[Level(s)[p] + 1]
        BY <1>1, <3>2 DEF QuantumFor
      <4> QED BY <2>3, <4>1, <4>2
    <3> QED BY <3>1, <3>2
  <2> QED BY <1>1, <2>4 DEF Quantumless
<1>2. CASE alg # "mlfq"
  <2>1. Quantum \in Nat \ {0}
    BY QuantumAssumption
  <2> QED BY <1>2, <2>1 DEF QuantumFor, Quantumless
<1> QED BY <1>1, <1>2

(* The process served in a tick is not put back into the ready queue.       *)
LEMMA ServedStays ==
  ASSUME Static, Quantumless, NEW d, Sound(d), NEW c, c = d.currentProcess, c # None,
         NEW redraw \in Nat,
         NEW w, w = expireQuantum(checkIOBurst(chargeTick(executeProcess(d))), redraw)
  PROVE  w.currentProcess \in {c, None} /\ w.pcb[c].state # "Ready"
<1>1. PICK e : e = executeProcess(d)
  OBVIOUS
<1>2. PICK g : g = chargeTick(e)
  OBVIOUS
<1>3. PICK h : h = checkIOBurst(g)
  OBVIOUS
<1>4. Sound(e) /\ Sound(g) /\ Sound(h) /\ c \in Procs
  BY <1>1, <1>2, <1>3, ExecuteSound, ChargeSound, CheckIOSound, CurrentFacts
<1>5. e.pcb[c].state \in {"Running", "Terminated"} /\ e.currentProcess \in {c, None}
  BY <1>1, ExecuteDoes
<1>6. g.pcb = e.pcb /\ g.currentProcess = e.currentProcess
  BY <1>2, <1>4, ChargeDoes
<1>7. h.currentProcess \in {c, None} /\ h.pcb[c].state # "Ready"
  <2>1. CASE h = g
    BY <1>5, <1>6, <2>1
  <2>2. CASE h # g
    <3>1. PICK p : p = g.currentProcess
      OBVIOUS
    <3>2. p \in Procs /\ h.currentProcess = None /\ h.pcb[p].state = "Waiting"
      BY <1>3, <1>4, <2>2, <3>1, CheckIODoes
    <3>3. p = c
      BY <1>5, <1>6, <3>1, <3>2, EngineAssumption
    <3> QED BY <3>2, <3>3
  <2> QED BY <2>1, <2>2
<1>8. w = h
  <2>1. ~ (h.currentProcess # None /\ quantumExpired(h, h.currentProcess))
    <3> SUFFICES ASSUME h.currentProcess # None, quantumExpired(h, h.currentProcess)
                 PROVE  FALSE
      OBVIOUS
    <3>1. h \in Simulator /\ h.currentProcess \in Procs
      BY <1>4, CurrentFacts DEF Sound
    <3>2. QuantumFor(h, h.currentProcess) = 0
      BY <3>1, NoQuantum
    <3> QED BY <3>2 DEF quantumExpired
  <2> QED BY <1>1, <1>2, <1>3, <2>1 DEF expireQuantum
<1> QED BY <1>7, <1>8

(* A tick is charged either to the CPU time or to the waiting time of every *)
(* process that is then ready or running.                                   *)
LEMMA TickWaits ==
  ASSUME Static, Quantumless, UniquePIDs, NEW s, Sound(s),
         NEW draw \in Nat, NEW redraw \in Nat,
         NEW t, NEW i, NEW d, NEW w, Stages(s, t, draw, redraw, i, d, w),
         NEW p \in Procs, t.pcb[p].state \in {"Ready", "Running"}
  PROVE  t.pcb[p].waitingTime - t.pcb[p].remainingTime
           = s.pcb[p].waitingTime - s.pcb[p].remainingTime + 1
<1>1. Sound(d) /\ Sound(w) /\ t = advanceClock(w)
  BY DEF Stages
<1>2. w.pcb[p].state \in {"Ready", "Running"}
  BY <1>1, AdvanceDoes
<1>3. w.pcb[p].waitingTime = s.pcb[p].waitingTime
  BY <1>2, WaitingUntouched
<1>4. s.pcb[p].waitingTime \in Int /\ s.pcb[p].remainingTime \in Int
  BY SoundFacts DEF PCB
<1>5. PICK c : c = d.currentProcess
  OBVIOUS
<1>6. w.pcb[p].state = "Running" => p = w.currentProcess
  BY <1>1 DEF Sound, In
<1>7. CASE p # c
  <2>1. w.currentProcess # p /\ (w.currentProcess # None => w.currentProcess = c /\ c \in Procs)
    <3>1. CASE c = None
      <4>1. w.currentProcess = None
        BY <1>1, <1>5, <3>1, IdleDoes DEF Stages
      <4> QED BY <4>1, EngineAssumption
    <3>2. CASE c # None
      <4>1. w = expireQuantum(checkIOBurst(chargeTick(executeProcess(d))), redraw)
        BY <1>5, <3>2 DEF Stages
      <4>2. w.currentProcess \in {c, None} /\ c \in Procs
        BY <1>1, <1>5, <3>2, <4>1, ServedStays, CurrentFacts
      <4> QED BY <1>7, <4>2, EngineAssumption
    <3> QED BY <3>1, <3>2
  <2>2. w.pcb[p].state = "Ready"
    BY <1>2, <1>6, <2>1
  <2>3. w.currentProcess # None => task[p].pid # task[w.currentProcess].pid
    BY <1>7, <2>1 DEF UniquePIDs, PID
  <2>4. LeftWaiting(w, p)
    BY <2>2, <2>3 DEF LeftWaiting
  <2>5. t.pcb[p].waitingTime = s.pcb[p].waitingTime + 1
    BY <1>1, <1>3, <2>4, AdvanceCharges
  <2>6. t.pcb[p].remainingTime = s.pcb[p].remainingTime
    <3>1. CASE c = None
      <4>1. d.currentProcess = None
        BY <1>5, <3>1
      <4> QED BY <4>1, IdleTickCharges
    <3>2. CASE c # None
      BY <1>5, <1>7, <3>2, BusyTickCharges
    <3> QED BY <3>1, <3>2
  <2> QED BY <1>4, <2>5, <2>6
<1>8. CASE p = c
  <2>1. c # None
    BY <1>8, EngineAssumption
  <2>2. w = expireQuantum(checkIOBurst(chargeTick(executeProcess(d))), redraw)
    BY <1>5, <2>1 DEF Stages
  <2>3. w.pcb[p].state # "Ready"
    BY <1>1, <1>5, <1>8, <2>1, <2>2, ServedStays
  <2>4. ~ LeftWaiting(w, p)
    BY <2>3 DEF LeftWaiting
  <2>5. t.pcb[p].waitingTime = s.pcb[p].waitingTime
    BY <1>1, <1>3, <2>4, AdvanceCharges
  <2>6. t.pcb[p].remainingTime = s.pcb[p].remainingTime - 1
    BY <1>5, <1>8, <2>1, BusyTickCharges
  <2> QED BY <1>4, <2>5, <2>6
<1> QED BY <1>7, <1>8

(* The arrival of a process that is alone with its PID is logged once, in   *)
(* the tick in which it leaves New.                                         *)
Arrivals(s, p) == Marked(s.events, Entries({"arrival"}, PID[p]))

LEMMA ArrivalLogged ==
  ASSUME Static, UniquePIDs, NEW s, Sound(s), Ledger(s), NEW p \in Procs
  PROVE  /\ IsFiniteSet(Arrivals(s, p))
         /\ s.pcb[p].state = "New" => Arrivals(s, p) = {}
         /\ s.pcb[p].state # "New" => Cardinality(Arrivals(s, p)) = 1
<1>1. s \in Simulator /\ s.events \in Seq(EventRecord) /\ s.pcb[p].state \in State
  <2>1. s \in Simulator /\ s.pcb[p] \in PCB
    BY SoundFacts
  <2>2. s.events \in Seq(EventRecord)
    BY <2>1 DEF Simulator
  <2>3. s.pcb[p].state \in State
    BY <2>1 DEF PCB
  <2> QED BY <2>1, <2>2, <2>3
<1>2. IsFiniteSet(Arrivals(s, p))
  BY <1>1, MarkedFinite DEF Arrivals
<1>3. PICK O : O = Occupants(s, State \ {"New"}, PID[p])
  OBVIOUS
<1>4. \A r \in Procs : PID[r] = PID[p] => r = p
  BY DEF UniquePIDs
<1>5. PID[p] \in Nat
  BY SoundFacts DEF PID, Task
<1>6. Cardinality(Arrivals(s, p)) = Cardinality(O)
  BY <1>3, <1>5 DEF Ledger, Tally, Occupied, Arrivals
<1>7. CASE s.pcb[p].state = "New"
  <2>1. O = {}
    BY <1>3, <1>4, <1>7 DEF Occupants
  <2>2. Cardinality(Arrivals(s, p)) = 0
    BY <1>6, <2>1, FS_EmptySet
  <2> QED BY <1>2, <1>7, <2>2, FS_EmptySet
<1>8. CASE s.pcb[p].state # "New"
  <2>1. O = {p}
    BY <1>1, <1>3, <1>4, <1>8 DEF Occupants
  <2> QED BY <1>2, <1>6, <1>8, <2>1, FS_Singleton
<1> QED BY <1>7, <1>8

LEMMA TickArrivals ==
  ASSUME Static, UniquePIDs, NEW s, Sound(s), Ledger(s), NEW t, Sound(t), Ledger(t),
         AddedAt(s.events, t.events, s.currentTime), NEW p \in Procs,
         t.pcb[p].state # "New", NEW k \in Arrivals(t, p)
  PROVE  /\ s.pcb[p].state = "New" => t.events[k].time = s.currentTime
         /\ s.pcb[p].state # "New" =>
              k \in Arrivals(s, p) /\ t.events[k].time = s.events[k].time
<1>1. PICK a, b, M : a = s.events /\ b = t.events /\ M = Entries({"arrival"}, PID[p])
  OBVIOUS
<1>2. a \in Seq(EventRecord) /\ b \in Seq(EventRecord)
  BY <1>1 DEF AddedAt
<1>3. /\ DOMAIN a = 1..Len(a) /\ DOMAIN b = 1..Len(b) /\ Len(a) \in Nat /\ Len(b) \in Nat
      /\ Len(a) <= Len(b) /\ \A j \in 1..Len(a) : b[j] = a[j]
      /\ \A j \in (Len(a) + 1)..Len(b) : b[j].time = s.currentTime
  BY <1>1, <1>2, LenProperties DEF AddedAt
<1>4. Arrivals(s, p) = Marked(a, M) /\ Arrivals(t, p) = Marked(b, M)
  BY <1>1 DEF Arrivals
<1>5. Marked(a, M) \subseteq Marked(b, M)
  BY <1>3 DEF Marked
<1>6. k \in 1..Len(b) /\ b[k] \in M
  BY <1>3, <1>4 DEF Marked
<1>7. CASE s.pcb[p].state = "New"
  <2>1. Marked(a, M) = {}
    BY <1>4, <1>7, ArrivalLogged
  <2>2. k \notin 1..Len(a)
    BY <1>3, <1>6, <2>1 DEF Marked
  <2>3. k \in (Len(a) + 1)..Len(b)
    BY <1>3, <1>6, <2>2
  <2> QED BY <1>1, <1>3, <1>7, <2>3
<1>8. CASE s.pcb[p].state # "New"
  <2>1. /\ Cardinality(Marked(a, M)) = 1 /\ Cardinality(Marked(b, M)) = 1
        /\ IsFiniteSet(Marked(b, M))
    BY <1>4, <1>8, ArrivalLogged
  <2>2. Marked(b, M) = Marked(a, M)
    BY <1>5, <2>1, FS_Subset
  <2>3. k \in Marked(a, M)
    BY <1>4, <2>2
  <2>4. k \in 1..Len(a)
    BY <1>3, <2>3 DEF Marked
  <2> QED BY <1>1, <1>3, <1>4, <1>8, <2>3, <2>4
<1> QED BY <1>7, <1>8

(* The inductive invariant: WaitedExactly of every process that the         *)
(* property is about, for an algorithm without quantum.                     *)
Punctual(s) ==
    Quantumless /\ UniquePIDs =>
        \A p \in Procs :
            task[p].ioBursts = << >> /\ s.pcb[p].state \in {"Ready", "Running"} =>
                \A k \in Arrivals(s, p) :
                    s.pcb[p].waitingTime - s.pcb[p].remainingTime
                      = s.currentTime - s.events[k].time - task[p].burstTime

LEMMA TickPunctual ==
  ASSUME Static, NEW s, Sound(s), Tracked(s), Punctual(s),
         NEW draw \in Nat, NEW redraw \in Nat, NEW t, t = executeTimeUnit(s, draw, redraw)
  PROVE  Punctual(t)
<1> SUFFICES ASSUME Quantumless, UniquePIDs, NEW p \in Procs, task[p].ioBursts = << >>,
                    t.pcb[p].state \in {"Ready", "Running"}, NEW k \in Arrivals(t, p)
             PROVE  t.pcb[p].waitingTime - t.pcb[p].remainingTime
                      = t.currentTime - t.events[k].time - task[p].burstTime
  BY DEF Punctual
<1>1. PICK i, d, w : Stages(s, t, draw, redraw, i, d, w)
  BY TickStages
<1>2. Sound(t) /\ Tracked(t) /\ t.currentTime = s.currentTime + 1
  BY TickSound, TickTracked, TickClock
<1>3. Ledger(s) /\ Ledger(t) /\ Fresh(s)
  BY <1>2 DEF Tracked
<1>4. AddedAt(s.events, t.events, s.currentTime)
  BY <1>1, TickLogs
<1>5. PICK now, b, c : now = s.currentTime /\ b = s.pcb[p] /\ c = t.pcb[p]
  OBVIOUS
<1>6. /\ now \in Nat /\ b \in PCB /\ PCBSound(b, p) /\ task[p].burstTime \in Nat
      /\ Len(task[p].ioBursts) = 0
  BY <1>5, SoundFacts DEF Sound, Simulator, Task
<1>7. b.waitingTime \in Int /\ b.remainingTime \in Int /\ b.state \in State
  BY <1>6 DEF PCB
<1>8. c.waitingTime - c.remainingTime = b.waitingTime - b.remainingTime + 1
  BY <1>1, <1>5, TickWaits
<1>9. CASE b.state = "New"
  <2>1. t.events[k].time = now
    BY <1>2, <1>3, <1>4, <1>5, <1>9, TickArrivals
  <2>2. b = InitialPCB(p)
    BY <1>3, <1>5, <1>9 DEF Fresh
  <2>3. b.waitingTime = 0 /\ b.remainingTime = task[p].burstTime
    BY <2>2, InitialRemaining DEF InitialPCB
  <2> QED BY <1>2, <1>5, <1>6, <1>7, <1>8, <2>1, <2>3
<1>10. CASE b.state \in {"Ready", "Running"}
  <2>1. k \in Arrivals(s, p) /\ t.events[k].time = s.events[k].time
    BY <1>2, <1>3, <1>4, <1>5, <1>10, TickArrivals
  <2>2. b.waitingTime - b.remainingTime = now - s.events[k].time - task[p].burstTime
    BY <1>5, <1>10, <2>1 DEF Punctual
  <2>3. s.events[k].time \in Int
    <3>1. s.events \in Seq(EventRecord) /\ k \in DOMAIN s.events
      BY <2>1 DEF Sound, Simulator, Arrivals, Marked
    <3>2. s.events[k] \in EventRecord
      BY <3>1, LenProperties, ElementOfSeq
    <3> QED BY <3>2 DEF EventRecord
  <2>4. PICK at \in Int : at = s.events[k].time
    BY <2>3
  <2>5. t.events[k].time = at /\ t.currentTime = now + 1
    BY <1>2, <1>5, <2>1, <2>4
  <2>6. b.waitingTime - b.remainingTime = now - at - task[p].burstTime
    BY <2>2, <2>4
  <2>7. c.waitingTime - c.remainingTime = t.currentTime - at - task[p].burstTime
    BY <1>6, <1>8, <2>5, <2>6
  <2>8. c.waitingTime - c.remainingTime
          = t.currentTime - t.events[k].time - task[p].burstTime
    BY <2>5, <2>7
  <2> QED BY <1>5, <2>8
<1>11. b.state # "Waiting"
  <2>1. b.ioRemaining \in Nat /\ b.currentIOIndex \in Nat
    BY <1>6 DEF PCB
  <2>2. b.currentIOIndex <= 0 /\ (b.ioRemaining > 0 => b.currentIOIndex > 0)
    BY <1>6 DEF PCBSound
  <2>3. ~ (b.ioRemaining > 0)
    BY <2>1, <2>2
  <2> QED BY <1>6, <2>3 DEF PCBSound
<1>12. b.state # "Terminated"
  BY <1>5, TickKeepsTerminated
<1> QED BY <1>7, <1>9, <1>10, <1>11, <1>12 DEF State

(* A struct in which nobody has arrived.                                    *)
LEMMA FreshPunctual ==
  ASSUME NEW t, \A p \in Procs : t.pcb[p] = InitialPCB(p)
  PROVE  Punctual(t)
<1>1. ASSUME NEW p \in Procs PROVE t.pcb[p].state = "New"
  <2>1. PICK b : b = t.pcb[p] /\ b = InitialPCB(p)
    OBVIOUS
  <2> QED BY <2>1 DEF InitialPCB
<1> QED BY <1>1 DEF Punctual

LEMMA PunctualInductive == Spec => []Punctual(sim)
<1>1. Init => Punctual(sim)
  <2> SUFFICES ASSUME Init PROVE Punctual(sim)
    OBVIOUS
  <2>1. sim.pcb = [p \in Procs |-> InitialPCB(p)]
    BY DEF Init, NewSimulator
  <2>2. \A p \in Procs : sim.pcb[p] = InitialPCB(p)
    BY <2>1
  <2> QED BY <2>2, FreshPunctual
<1>2. TickInv /\ Punctual(sim) /\ [Next]_vars => Punctual(sim)'
  <2> SUFFICES ASSUME TickInv, Punctual(sim), [Next]_vars PROVE Punctual(sim)'
    OBVIOUS
  <2>1. Static /\ Sound(sim) /\ Tracked(sim)
    BY DEF TickInv, EngineInv
  <2>2. ASSUME UNCHANGED <<alg, task>>, Punctual(sim') PROVE Punctual(sim)'
    <3>1. PID' = PID
      BY <2>2 DEF PID
    <3>2. UniquePIDs' = UniquePIDs /\ Quantumless' = Quantumless
      BY <2>2, <3>1 DEF UniquePIDs, Quantumless
    <3>3. \A p \in Procs : Arrivals(sim, p)' = Arrivals(sim', p)
      BY <3>1 DEF Arrivals, Marked, Entries
    <3> QED BY <2>2, <3>2, <3>3 DEF Punctual
  <2>3. ASSUME NEW p \in Procs, AddProcess(p) PROVE Punctual(sim)'
    <3>1. /\ sim'.currentTime = sim.currentTime
          /\ sim'.events = sim.events /\ sim'.pcb = sim.pcb
      BY <2>1, <2>3, AddDoes
    <3>2. Punctual(sim')
      BY <3>1 DEF Punctual, Arrivals
    <3> QED BY <2>2, <2>3, <3>2 DEF AddProcess
  <2>4. CASE Tick
    <3>1. PICK draw \in Nat, redraw \in Nat : sim' = executeTimeUnit(sim, draw, redraw)
      BY <2>4, DrawsAreNat DEF Tick
    <3>2. Punctual(sim')
      BY <2>1, <3>1, TickPunctual
    <3> QED BY <2>2, <2>4, <3>2 DEF Tick
  <2>5. CASE Reset
    <3>1. \A p \in Procs : sim'.pcb[p] = InitialPCB(p)
      BY <2>1, <2>5, ResetDoes
    <3>2. Punctual(sim')
      BY <3>1, FreshPunctual
    <3> QED BY <2>2, <2>5, <3>2 DEF Reset
  <2>6. CASE UNCHANGED vars
    <3>1. sim' = sim /\ UNCHANGED <<alg, task>>
      BY <2>6 DEF vars
    <3> QED BY <2>2, <3>1
  <2> QED BY <2>3, <2>4, <2>5, <2>6 DEF Next
<1> QED BY <1>1, <1>2, TickInvInductive, PTL DEF Spec

(* Under an algorithm that uses no quantum, the WaitingTime that            *)
(* executeTimeUnit counts for a live process without I/O is the time since  *)
(* its arrival that it did not run, whenever the PIDs are distinct.         *)
THEOREM WaitingTimesAreExact == Spec => []WaitingTimeExactWithoutQuantum
<1>1. TickInv /\ Punctual(sim) => WaitingTimeExactWithoutQuantum
  <2> SUFFICES ASSUME TickInv, Punctual(sim), NEW p \in Procs, CountsOwnWait(p),
                      QuantumFor(sim, p) = 0, NEW e \in ToSet(sim.events),
                      e.pid = PID[p], e.type = "arrival"
               PROVE  sim.pcb[p].waitingTime = sim.currentTime - e.time - CPUTimeUsed(p)
    BY DEF WaitingTimeExactWithoutQuantum, WaitedExactly
  <2>1. Static /\ Sound(sim) /\ sim \in Simulator
    BY DEF TickInv, EngineInv, Sound
  <2>2. Quantumless
    BY <2>1, NoQuantum
  <2>3. PICK k \in DOMAIN sim.events : e = sim.events[k]
    BY DEF ToSet
  <2>4. e \in EventRecord
    <3>1. sim.events \in Seq(EventRecord)
      BY <2>1 DEF Simulator
    <3> QED BY <2>3, <3>1, LenProperties, ElementOfSeq
  <2>5. k \in Arrivals(sim, p)
    BY <2>3, <2>4 DEF Arrivals, Marked, Entries
  <2>6. sim.pcb[p].waitingTime - sim.pcb[p].remainingTime
          = sim.currentTime - e.time - task[p].burstTime
    BY <2>2, <2>3, <2>5 DEF Punctual, CountsOwnWait
  <2>7. /\ sim.pcb[p].waitingTime \in Int /\ sim.pcb[p].remainingTime \in Int
        /\ task[p].burstTime \in Int
    BY <2>1, SoundFacts DEF PCB, Task
  <2>8. sim.currentTime \in Int /\ e.time \in Int
    BY <2>1, <2>4 DEF Simulator, EventRecord
  <2> QED BY <2>6, <2>7, <2>8 DEF CPUTimeUsed
<1> QED BY <1>1, TickInvInductive, PunctualInductive, PTL
----------------------------------------------------------------------------
(* Round robin: a process that is j-th in the ready queue has its turn when *)
(* the current process has used the rest of its quantum and the j - 1       *)
(* processes before it have used a quantum each.                            *)
Rounds(n) == n * Quantum
Turn(s, j) ==
    Rounds(j - 1) + IF s.currentProcess = None THEN 0 ELSE Quantum - s.timeQuantumUsed

LEMMA RoundsAdd ==
  ASSUME NEW n \in Int
  PROVE  Rounds(n) \in Int /\ Rounds(n + 1) = Rounds(n) + Quantum
<1>1. Quantum \in Int
  BY QuantumAssumption
<1> QED BY <1>1 DEF Rounds

LEMMA RoundsGrow ==
  ASSUME NEW m \in Int, NEW n \in Int, m <= n
  PROVE  Rounds(m) <= Rounds(n)
<1>1. Quantum \in Nat
  BY QuantumAssumption
<1>2. n - m \in Nat
  OBVIOUS
<1>3. (n - m) * Quantum >= 0
  BY <1>1, <1>2
<1>4. n * Quantum = m * Quantum + (n - m) * Quantum
  BY <1>1
<1> QED BY <1>1, <1>3, <1>4 DEF Rounds

(* The ready queue and the CPU hold no more processes than were added.      *)
LEMMA QueueFits ==
  ASSUME Static, NEW s, Sound(s)
  PROVE  /\ Len(s.readyQueue) \in Nat /\ Len(s.processes) \in Nat
         /\ Len(s.readyQueue) <= Len(s.processes)
         /\ s.currentProcess # None => Len(s.readyQueue) < Len(s.processes)
<1>1. PICK q, r : q = s.readyQueue /\ r = s.processes
  OBVIOUS
<1>2. /\ q \in Seq(Procs) /\ r \in Seq(Procs) /\ IsInjective(q) /\ IsInjective(r)
      /\ ToSet(q) = In(s, "Ready")
  BY <1>1 DEF Sound, Simulator, Holds
<1>3. Len(q) = Cardinality(ToSet(q)) /\ Len(r) = Cardinality(ToSet(r))
  BY <1>2, DistinctCount
<1>4. Len(q) \in Nat /\ Len(r) \in Nat
  BY <1>2, LenProperties
<1>5. ToSet(q) \subseteq ToSet(r) /\ ToSet(r) \subseteq Procs
  BY <1>1, <1>2, ProcessSets DEF Sound, In
<1>6. IsFiniteSet(ToSet(r))
  BY <1>5, ProcsAssumption, FS_Subset
<1>7. IsFiniteSet(ToSet(q)) /\ Cardinality(ToSet(q)) <= Cardinality(ToSet(r))
  BY <1>5, <1>6, FS_Subset
<1>8. ASSUME s.currentProcess # None PROVE Len(q) < Len(r)
  <2>1. PICK c : c = s.currentProcess
    OBVIOUS
  <2>2. c \in Procs /\ s.pcb[c].state = "Running"
    BY <1>8, <2>1, CurrentFacts
  <2>3. c \in ToSet(r) /\ c \notin ToSet(q)
    BY <1>1, <1>2, <2>2 DEF Sound, In
  <2>4. Cardinality(ToSet(q)) # Cardinality(ToSet(r))
    BY <1>5, <1>6, <2>3, FS_Subset
  <2> QED BY <1>3, <1>4, <1>7, <2>4
<1> QED BY <1>1, <1>3, <1>4, <1>7, <1>8

(* Arrivals and finished I/O join the ready queue at its end.               *)
Extends(q, r) == Len(q) <= Len(r) /\ \A j \in 1..Len(q) : r[j] = q[j]

LEMMA ConcatExtends ==
  ASSUME NEW q \in Seq(Procs), NEW r \in Seq(Procs)
  PROVE  Extends(q, q \o r)
<1>1. PICK c : c = q \o r
  OBVIOUS
<1>2. Len(q) \in Nat /\ Len(r) \in Nat /\ Len(c) = Len(q) + Len(r)
  BY <1>1, ConcatProperties, LenProperties
<1>3. \A j \in 1..Len(c) : c[j] = IF j <= Len(q) THEN q[j] ELSE r[j - Len(q)]
  BY <1>1, <1>2, ConcatProperties
<1>4. Extends(q, c)
  BY <1>2, <1>3 DEF Extends
<1> QED BY <1>1, <1>4

LEMMA ReadyingExtends ==
  ASSUME Static, NEW s, Sound(s), NEW t, t = tickIOQueue(checkArrivals(s))
  PROVE  Extends(s.readyQueue, t.readyQueue) /\ t.timeQuantumUsed = s.timeQuantumUsed
<1>1. PICK a : a = checkArrivals(s)
  OBVIOUS
<1>2. Sound(a) /\ t = tickIOQueue(a)
  BY <1>1, ArrivalsSound
<1>3. s \in Simulator /\ a \in Simulator
  BY <1>2 DEF Sound
<1>4. PICK q, r : q = Kept(s.processes, Arriving(s)) /\ r = Kept(a.ioQueue, Waking(a))
  OBVIOUS
<1>5. a.readyQueue = s.readyQueue \o q
  BY <1>1, <1>3, <1>4 DEF checkArrivals, Arriving, Simulator
<1>6. t.readyQueue = a.readyQueue \o r
  BY <1>2, <1>3, <1>4 DEF tickIOQueue, Waking, Simulator
<1>7. q \in Seq(Procs) /\ r \in Seq(Procs)
  <2>1. s.processes \in Seq(Procs) /\ a.ioQueue \in Seq(Procs)
    BY <1>3 DEF Simulator
  <2>2. Holds(s.processes, ToSet(s.processes)) /\ Holds(a.ioQueue, In(a, "Waiting"))
    BY <1>2, <2>1 DEF Sound, Holds
  <2> QED BY <1>4, <2>2, KeptHolds DEF Holds
<1>8. PICK x, y, z : x = s.readyQueue /\ y = a.readyQueue /\ z = t.readyQueue
  OBVIOUS
<1>9. x \in Seq(Procs) /\ y \in Seq(Procs)
  BY <1>3, <1>8 DEF Simulator
<1>10. Extends(x, y) /\ Extends(y, z)
  <2>1. y = x \o q /\ z = y \o r
    BY <1>5, <1>6, <1>8
  <2> QED BY <1>7, <1>9, <2>1, ConcatExtends
<1>11. Extends(x, z)
  <2>1. Len(x) \in Nat /\ Len(y) \in Nat
    BY <1>9, LenProperties
  <2>2. z \in Seq(Procs) /\ Len(z) \in Nat
    BY <1>6, <1>7, <1>8, <1>9, ConcatProperties, LenProperties
  <2> QED BY <1>10, <2>1, <2>2 DEF Extends
<1>12. t.timeQuantumUsed = s.timeQuantumUsed
  <2>1. a.timeQuantumUsed = s.timeQuantumUsed
    BY <1>1, ArrivalsDo
  <2>2. t.timeQuantumUsed = a.timeQuantumUsed
    BY <1>2, TickIODoes
  <2> QED BY <2>1, <2>2
<1> QED BY <1>8, <1>11, <1>12

(* scheduleNextProcess under round robin: the head of the queue gets the    *)
(* CPU, and everyone else moves up.                                         *)
LEMMA RoundRobinSchedules ==
  ASSUME Static, alg = "rr", NEW s, Sound(s), s.currentProcess = None,
         s.readyQueue # << >>, NEW draw \in Nat, NEW t, t = scheduleNextProcess(s, draw)
  PROVE  /\ 1 \in 1..Len(s.readyQueue) /\ t.currentProcess = s.readyQueue[1]
         /\ Len(t.readyQueue) = Len(s.readyQueue) - 1
         /\ \A j \in 1..Len(t.readyQueue) : t.readyQueue[j] = s.readyQueue[j + 1]
<1>1. PICK q : q = s.readyQueue
  OBVIOUS
<1>2. s \in Simulator /\ q \in Seq(Procs) /\ IsInjective(q) /\ Len(q) \in Nat
  <2>1. s \in Simulator /\ q \in Seq(Procs) /\ IsInjective(q)
    BY <1>1 DEF Sound, Holds
  <2> QED BY <2>1, LenProperties
<1>3. Schedule(s, draw) = q[1] /\ 1 \in 1..Len(q)
  BY <1>1, <1>2, RoundRobinTakesHead
<1>4. PICK p : p = Schedule(s, draw)
  OBVIOUS
<1>5. t.readyQueue = RemoveFirst(q, p) /\ t.currentProcess = p
  BY <1>1, <1>2, <1>4 DEF scheduleNextProcess, Simulator
<1>6. PICK c : c = RemoveFirst(q, q[1])
  OBVIOUS
<1>7. /\ Len(c) = Len(q) - 1
      /\ \A j \in 1..(Len(q) - 1) : c[j] = IF j < 1 THEN q[j] ELSE q[j + 1]
  BY <1>2, <1>3, <1>6, RemoveShifts
<1>8. \A j \in 1..Len(c) : c[j] = q[j + 1]
  BY <1>2, <1>7
<1> QED BY <1>1, <1>3, <1>4, <1>5, <1>6, <1>7, <1>8

(* The inductive invariant, for a process p that arrived at at[p]: until it *)
(* has its first tick, what it has waited and what it still has to wait     *)
(* while others have their turn stay within the bound, and a process that   *)
(* does I/O or has finished has had its first tick.                         *)
AnswerBound(s) == Rounds(Len(s.processes) - 1)
QueueInTurn(s, at, now) ==
    \A j \in 1..Len(s.readyQueue) :
        \/ s.pcb[s.readyQueue[j]].hasStarted
        \/ now - at[s.readyQueue[j]] + Turn(s, j) <= AnswerBound(s)
Answered(s, at, now, p) ==
    /\ p = s.currentProcess /\ ~ s.pcb[p].hasStarted => now - at[p] <= AnswerBound(s)
    /\ s.pcb[p].hasStarted => s.pcb[p].startTime - at[p] <= AnswerBound(s)
    /\ s.pcb[p].state \in {"Waiting", "Terminated"} => s.pcb[p].hasStarted
InTurn(s, at, now) ==
    QueueInTurn(s, at, now) /\ \A p \in Procs : Answered(s, at, now, p)

LEMMA TurnFacts ==
  ASSUME Static, NEW s, Sound(s)
  PROVE  /\ AnswerBound(s) \in Int
         /\ Len(s.readyQueue) \in Nat
         /\ s.timeQuantumUsed \in Nat
         /\ \A j \in 1..Len(s.readyQueue) :
              s.readyQueue[j] \in Procs /\ Turn(s, j) \in Int /\ Turn(s, j) <= AnswerBound(s)
<1>1. PICK q, n, m : q = s.readyQueue /\ n = Len(s.processes) /\ m = Len(s.readyQueue)
  OBVIOUS
<1>2. /\ n \in Nat /\ m \in Nat /\ m <= n
      /\ s.currentProcess # None => m < n
  BY <1>1, QueueFits
<1>3. q \in Seq(Procs) /\ s.timeQuantumUsed \in Nat
  BY <1>1 DEF Sound, Simulator
<1>4. Rounds(n - 1) \in Int /\ Quantum \in Int
  BY <1>2, RoundsAdd, QuantumAssumption
<1>5. ASSUME NEW j \in 1..m
      PROVE  q[j] \in Procs /\ Turn(s, j) \in Int /\ Turn(s, j) <= Rounds(n - 1)
  <2>1. q[j] \in Procs
    BY <1>1, <1>3, ElementOfSeq
  <2>2. j \in Int /\ j - 1 \in Int /\ (j - 1) + 1 = j /\ j <= m
    BY <1>2
  <2>3. Rounds(j - 1) \in Int /\ Rounds(j) \in Int /\ Rounds(j) = Rounds(j - 1) + Quantum
    BY <2>2, RoundsAdd
  <2>4. CASE s.currentProcess = None
    <3>1. Turn(s, j) = Rounds(j - 1)
      BY <2>3, <2>4 DEF Turn
    <3>2. j - 1 <= n - 1 /\ n - 1 \in Int
      BY <1>2, <2>2
    <3>3. Rounds(j - 1) <= Rounds(n - 1)
      BY <2>2, <3>2, RoundsGrow
    <3> QED BY <2>1, <2>3, <3>1, <3>3
  <2>5. CASE s.currentProcess # None
    <3>1. Turn(s, j) = Rounds(j - 1) + (Quantum - s.timeQuantumUsed)
      BY <2>5 DEF Turn
    <3>2. j <= n - 1 /\ n - 1 \in Int
      BY <1>2, <2>2, <2>5
    <3>3. Rounds(j) <= Rounds(n - 1)
      BY <2>2, <3>2, RoundsGrow
    <3> QED BY <1>3, <1>4, <2>1, <2>3, <3>1, <3>3
  <2> QED BY <2>4, <2>5
<1> QED BY <1>1, <1>2, <1>3, <1>4, <1>5 DEF AnswerBound

(* Those who join the queue find no more than the bound before them.        *)
LEMMA ReadyingInTurn ==
  ASSUME Static, NEW s, Sound(s), NEW at \in [Procs -> Int], NEW now \in Int,
         InTurn(s, at, now), \A p \in Procs : s.pcb[p].state = "New" => at[p] = now,
         NEW t, t = tickIOQueue(checkArrivals(s)), Sound(t)
  PROVE  InTurn(t, at, now)
<1>1. PastKept(s, t)
  <2>1. PICK a : a = checkArrivals(s)
    OBVIOUS
  <2>2. s \in Simulator /\ a \in Simulator
    BY <2>1, ArrivalsSound DEF Sound
  <2>3. PastKept(s, a)
    BY <2>1, <2>2, ArrivalsKeepPast
  <2>4. PastKept(a, t)
    BY <2>1, <2>2, TickIOKeepsPast
  <2> QED BY <2>3, <2>4, PastsCompose
<1>2. /\ t.processes = s.processes /\ t.currentProcess = s.currentProcess
      /\ t.timeQuantumUsed = s.timeQuantumUsed /\ Extends(s.readyQueue, t.readyQueue)
  BY ReadyingDoes, ReadyingExtends DEF SameTime
<1>3. AnswerBound(t) = AnswerBound(s) /\ \A j : Turn(t, j) = Turn(s, j)
  BY <1>2 DEF AnswerBound, Turn
<1>4. ASSUME NEW p \in Procs
      PROVE  /\ t.pcb[p].hasStarted = s.pcb[p].hasStarted
             /\ t.pcb[p].startTime = s.pcb[p].startTime
  BY <1>1 DEF PastKept, SamePast, SameRun
<1>5. ASSUME NEW p \in Procs
      PROVE  /\ p \in Arriving(s) => t.pcb[p].state = "Ready" /\ s.pcb[p].state = "New"
             /\ p \notin Arriving(s) /\ s.pcb[p].state # "Waiting" => t.pcb[p] = s.pcb[p]
  BY ReadyingDoes DEF Arriving
<1>6. PICK q, r : q = s.readyQueue /\ r = t.readyQueue
  OBVIOUS
<1>7. /\ Len(q) \in Nat /\ Len(r) \in Nat /\ Len(q) <= Len(r)
      /\ \A j \in 1..Len(q) : r[j] = q[j]
  BY <1>2, <1>6, TurnFacts DEF Extends
<1>8. ASSUME NEW j \in 1..Len(r), ~ t.pcb[r[j]].hasStarted
      PROVE  now - at[r[j]] + Turn(t, j) <= AnswerBound(t)
  <2>1. PICK p : p = r[j]
    OBVIOUS
  <2>2. /\ p \in Procs /\ Turn(t, j) \in Int /\ Turn(t, j) <= AnswerBound(t)
        /\ AnswerBound(t) \in Int
    BY <1>6, <2>1, TurnFacts
  <2>3. ~ s.pcb[p].hasStarted
    BY <1>4, <1>8, <2>1, <2>2
  <2>4. CASE j \in 1..Len(q)
    <3>1. q[j] = p
      BY <1>7, <2>1, <2>4
    <3>2. now - at[p] + Turn(s, j) <= AnswerBound(s)
      BY <1>6, <2>3, <2>4, <3>1 DEF InTurn, QueueInTurn
    <3> QED BY <1>3, <2>1, <3>2
  <2>5. CASE j \notin 1..Len(q)
    <3>1. s.pcb[p].state # "Ready"
      <4> SUFFICES ASSUME s.pcb[p].state = "Ready" PROVE FALSE
        OBVIOUS
      <4>1. ToSet(q) = In(s, "Ready") /\ q \in Seq(Procs)
        BY <1>6 DEF Sound, Holds
      <4>2. p \in ToSet(q) /\ DOMAIN q = 1..Len(q)
        BY <2>2, <4>1, LenProperties DEF In
      <4>3. PICK m \in 1..Len(q) : q[m] = p
        BY <4>2 DEF ToSet
      <4>4. m \in 1..Len(r) /\ r[m] = r[j]
        BY <1>7, <2>1, <4>3
      <4>5. IsInjective(r) /\ r \in Seq(Procs)
        BY <1>6 DEF Sound, Holds
      <4>6. DOMAIN r = 1..Len(r)
        BY <4>5, LenProperties
      <4>7. m = j
        BY <4>4, <4>5, <4>6 DEF IsInjective
      <4> QED BY <2>5, <4>3, <4>7
    <3>2. t.pcb[p].state = "Ready"
      <4>1. ToSet(r) = In(t, "Ready") /\ r \in Seq(Procs)
        BY <1>6 DEF Sound, Holds
      <4>2. p \in ToSet(r)
        BY <2>1, <4>1, LenProperties DEF ToSet
      <4> QED BY <4>1, <4>2 DEF In
    <3>3. s.pcb[p].state # "Waiting"
      BY <2>2, <2>3 DEF InTurn, Answered
    <3>4. s.pcb[p].state = "New"
      BY <1>5, <2>2, <3>1, <3>2, <3>3
    <3>5. at[p] = now
      BY <2>2, <3>4
    <3> QED BY <2>1, <2>2, <3>5
  <2> QED BY <2>4, <2>5
<1>9. ASSUME NEW p \in Procs PROVE Answered(t, at, now, p)
  <2>1. Answered(s, at, now, p)
    BY DEF InTurn
  <2>2. t.pcb[p].state \in {"Waiting", "Terminated"} => t.pcb[p].hasStarted
    BY <1>4, <1>5, <2>1 DEF Answered
  <2> QED BY <1>2, <1>3, <1>4, <2>1, <2>2 DEF Answered
<1> QED BY <1>6, <1>8, <1>9 DEF InTurn, QueueInTurn
(* When the head of the queue gets the CPU everyone else has one process    *)
(* less before them, and a fresh quantum.                                   *)
LEMMA ScheduleInTurn ==
  ASSUME Static, alg = "rr", NEW s, Sound(s), s.currentProcess = None, NEW draw \in Nat,
         NEW at \in [Procs -> Int], NEW now \in Int, InTurn(s, at, now),
         NEW t, t = scheduleNextProcess(s, draw)
  PROVE  InTurn(t, at, now)
<1>1. CASE s.readyQueue = << >>
  <2>1. t = s
    BY <1>1, ScheduleDoes
  <2> QED BY <2>1
<1>2. CASE s.readyQueue # << >>
  <2>1. PICK q, r, c : q = s.readyQueue /\ r = t.readyQueue /\ c = t.currentProcess
    OBVIOUS
  <2>2. /\ 1 \in 1..Len(q) /\ c = q[1] /\ Len(r) = Len(q) - 1
        /\ \A j \in 1..Len(r) : r[j] = q[j + 1]
    BY <1>2, <2>1, RoundRobinSchedules
  <2>3. c \in Procs /\ t.timeQuantumUsed = 0 /\ Relabelled(s, t, c, "Running")
    BY <1>2, <2>1, ScheduleDoes
  <2>4. t.processes = s.processes
    BY ScheduleDoes DEF SameClock
  <2>5. AnswerBound(t) = AnswerBound(s)
    BY <2>4 DEF AnswerBound
  <2>6. PastKept(s, t)
    BY ScheduleKeepsPast DEF Sound
  <2>7. ASSUME NEW p \in Procs
        PROVE  /\ t.pcb[p].hasStarted = s.pcb[p].hasStarted
               /\ t.pcb[p].startTime = s.pcb[p].startTime
    BY <2>6 DEF PastKept, SamePast, SameRun
  <2>8. Len(q) \in Nat /\ \A j \in 1..Len(q) : q[j] \in Procs
    BY <2>1, TurnFacts
  <2>9. c # None /\ Quantum \in Int
    BY <2>3, EngineAssumption, QuantumAssumption
  <2>10. ASSUME NEW j \in 1..Len(r), ~ t.pcb[r[j]].hasStarted
         PROVE  now - at[r[j]] + Turn(t, j) <= AnswerBound(t)
    <3>1. PICK p : p = r[j]
      OBVIOUS
    <3>2. j + 1 \in 1..Len(q) /\ p = q[j + 1] /\ j \in Int /\ j - 1 \in Int
      BY <2>2, <2>8, <3>1
    <3>3. p \in Procs /\ ~ s.pcb[p].hasStarted
      BY <2>7, <2>8, <2>10, <3>1, <3>2
    <3>4. now - at[p] + Turn(s, j + 1) <= AnswerBound(s)
      BY <2>1, <3>2, <3>3 DEF InTurn, QueueInTurn
    <3>5. /\ Rounds(j - 1) \in Int /\ Rounds(j) = Rounds(j - 1) + Quantum
          /\ (j + 1) - 1 = j
      <4>1. PICK k \in Int : k = j - 1
        BY <3>2
      <4>2. k + 1 = j /\ (j + 1) - 1 = j
        BY <3>2, <4>1
      <4>3. Rounds(k) \in Int /\ Rounds(k + 1) = Rounds(k) + Quantum
        BY RoundsAdd
      <4> QED BY <4>1, <4>2, <4>3
    <3>6. Turn(t, j) = Rounds(j - 1) + (Quantum - 0)
      BY <2>1, <2>3, <2>9 DEF Turn
    <3>7. Turn(s, j + 1) = Rounds(j) + 0
      BY <3>5 DEF Turn
    <3>8. Turn(t, j) = Turn(s, j + 1)
      BY <2>9, <3>5, <3>6, <3>7
    <3> QED BY <2>5, <3>1, <3>4, <3>8
  <2>11. ASSUME ~ s.pcb[c].hasStarted PROVE now - at[c] <= AnswerBound(s)
    <3>1. now - at[c] + Turn(s, 1) <= AnswerBound(s)
      BY <2>1, <2>2, <2>11 DEF InTurn, QueueInTurn
    <3>2. Turn(s, 1) = Rounds(0) + 0
      <4>1. 1 - 1 = 0
        OBVIOUS
      <4> QED BY <4>1 DEF Turn
    <3>3. Turn(s, 1) = 0
      BY <3>2, QuantumAssumption DEF Rounds
    <3>4. at[c] \in Int
      BY <2>3
    <3> QED BY <3>1, <3>3, <3>4
  <2>12. ASSUME NEW p \in Procs PROVE Answered(t, at, now, p)
    <3>1. Answered(s, at, now, p)
      BY DEF InTurn
    <3>2. t.pcb[p].state \in {"Waiting", "Terminated"} => s.pcb[p].state = t.pcb[p].state
      BY <2>3 DEF Relabelled
    <3>3. p = t.currentProcess /\ ~ t.pcb[p].hasStarted => now - at[p] <= AnswerBound(t)
      BY <2>1, <2>5, <2>7, <2>11
    <3> QED BY <2>5, <2>7, <3>1, <3>2, <3>3 DEF Answered
  <2> QED BY <2>1, <2>10, <2>12 DEF InTurn, QueueInTurn
<1> QED BY <1>1, <1>2

(* The quantum of the current process is not used up.                       *)
TicksLeft(s) == s.currentProcess # None => s.timeQuantumUsed < Quantum

LEMMA DispatchInTurn ==
  ASSUME Static, alg = "rr", NEW s, Sound(s), NEW draw \in Nat,
         NEW at \in [Procs -> Int], NEW now \in Int, InTurn(s, at, now), TicksLeft(s),
         NEW t, t = dispatch(s, draw)
  PROVE  InTurn(t, at, now) /\ TicksLeft(t)
<1>1. CASE s.currentProcess = None
  <2>1. t = scheduleNextProcess(s, draw)
    BY <1>1 DEF dispatch
  <2>2. InTurn(t, at, now)
    BY <1>1, <2>1, ScheduleInTurn
  <2>3. TicksLeft(t)
    <3>1. CASE s.readyQueue = << >>
      <4>1. t = s
        BY <1>1, <2>1, <3>1, ScheduleDoes
      <4> QED BY <4>1
    <3>2. CASE s.readyQueue # << >>
      <4>1. t.timeQuantumUsed = 0
        BY <1>1, <2>1, <3>2, ScheduleDoes
      <4> QED BY <4>1, QuantumAssumption DEF TicksLeft
    <3> QED BY <3>1, <3>2
  <2> QED BY <2>2, <2>3
<1>2. CASE s.currentProcess # None
  <2>1. ~ Preempt(s)
    BY DEF Preempt
  <2>2. t = s
    BY <1>2, <2>1, DispatchDoes
  <2> QED BY <2>2
<1> QED BY <1>1, <1>2

(* What serving the current process c does to the queue, the quantum and    *)
(* the record of its first tick, before the quantum is looked at.           *)
ServesOnce(s, t, c, now) ==
    /\ t.readyQueue = s.readyQueue /\ t.processes = s.processes
    /\ t.currentProcess \in {c, None}
    /\ t.currentProcess # None => t.timeQuantumUsed = s.timeQuantumUsed + 1
    /\ \A r \in Procs : r # c => t.pcb[r] = s.pcb[r]
    /\ t.pcb[c].hasStarted
    /\ t.pcb[c].startTime = IF s.pcb[c].hasStarted THEN s.pcb[c].startTime ELSE now

LEMMA ServingStarts ==
  ASSUME Static, NEW s, Sound(s), NEW c, c = s.currentProcess, c # None,
         NEW h, h = checkIOBurst(chargeTick(executeProcess(s)))
  PROVE  ServesOnce(s, h, c, s.currentTime) /\ Sound(h)
<1>1. PICK e : e = executeProcess(s)
  OBVIOUS
<1>2. PICK g : g = chargeTick(e)
  OBVIOUS
<1>3. h = checkIOBurst(g)
  BY <1>1, <1>2
<1>4. Sound(e) /\ Sound(g) /\ Sound(h) /\ c \in Procs
  BY <1>1, <1>2, <1>3, ExecuteSound, ChargeSound, CheckIOSound, CurrentFacts
<1>5. PICK b, x, now : b = s.pcb[c] /\ x = g.pcb[c] /\ now = s.currentTime
  OBVIOUS
<1>6. /\ SameQueues(s, e) /\ e.timeQuantumUsed = s.timeQuantumUsed
      /\ \A r \in Procs : r # c => e.pcb[r] = s.pcb[r]
      /\ e.pcb[c] = Execute(b, c, now)
      /\ e.currentProcess \in {c, None}
  BY <1>1, <1>5, ExecuteDoes
<1>7. /\ SameQueues(e, g) /\ g.timeQuantumUsed = e.timeQuantumUsed + 1
      /\ g.pcb = e.pcb /\ g.currentProcess = e.currentProcess
  BY <1>2, <1>4, ChargeDoes
<1>8. x.hasStarted /\ x.startTime = IF b.hasStarted THEN b.startTime ELSE now
  <2>1. b \in PCB /\ PCBSound(b, c)
    BY <1>4, <1>5, SoundFacts
  <2>2. now \in Nat
    BY <1>5 DEF Sound, Simulator
  <2>3. b.state = "Running" /\ b.remainingTime > 0
    BY <1>5, CurrentFacts
  <2>4. x = Execute(b, c, now)
    BY <1>5, <1>6, <1>7
  <2> QED BY <1>4, <2>1, <2>2, <2>3, <2>4, ExecuteRecords
<1>9. ServesOnce(s, g, c, now)
  <2>1. g.readyQueue = s.readyQueue /\ g.processes = s.processes
    BY <1>6, <1>7 DEF SameQueues
  <2>2. g.currentProcess \in {c, None} /\ g.timeQuantumUsed = s.timeQuantumUsed + 1
    BY <1>6, <1>7
  <2>3. \A r \in Procs : r # c => g.pcb[r] = s.pcb[r]
    BY <1>6, <1>7
  <2> QED BY <1>5, <1>8, <2>1, <2>2, <2>3 DEF ServesOnce
<1>10. CASE h = g
  BY <1>4, <1>5, <1>9, <1>10
<1>11. CASE h # g
  <2>1. PICK p : p = g.currentProcess
    OBVIOUS
  <2>2. /\ p \in Procs /\ SameClock(g, h) /\ h.readyQueue = g.readyQueue
        /\ h.currentProcess = None
        /\ \A r \in Procs : r # p => h.pcb[r] = g.pcb[r]
        /\ StartsBurst(g.pcb[p], h.pcb[p], p)
    BY <1>3, <1>4, <1>11, <2>1, CheckIODoes
  <2>3. p = c
    BY <1>6, <1>7, <2>1, <2>2, EngineAssumption
  <2>4. PICK y : y = h.pcb[c]
    OBVIOUS
  <2>5. x \in PCB /\ StartsBurst(x, y, c)
    BY <1>4, <1>5, <2>2, <2>3, <2>4, SoundFacts
  <2>6. y.hasStarted = x.hasStarted /\ y.startTime = x.startTime
    <3>1. PICK k \in DOMAIN task[c].ioBursts \ x.ioCompleted :
             y = [x EXCEPT !.currentIOIndex = k, !.ioCompleted = x.ioCompleted \cup {k},
                           !.ioRemaining = task[c].ioBursts[k].duration, !.state = "Waiting"]
      BY <2>5 DEF StartsBurst
    <3> QED BY <2>5, <3>1 DEF PCB
  <2>7. h.pcb[c].hasStarted
    BY <1>8, <2>4, <2>6
  <2>8. h.pcb[c].startTime = IF s.pcb[c].hasStarted THEN s.pcb[c].startTime ELSE now
    BY <1>5, <1>8, <2>4, <2>6
  <2>9. \A r \in Procs : r # c => h.pcb[r] = s.pcb[r]
    BY <1>9, <2>2, <2>3 DEF ServesOnce
  <2>10. h.readyQueue = s.readyQueue /\ h.processes = s.processes
    BY <1>9, <2>2 DEF ServesOnce, SameClock
  <2> QED BY <1>4, <1>5, <2>2, <2>7, <2>8, <2>9, <2>10 DEF ServesOnce
<1> QED BY <1>10, <1>11
LEMMA ServeInTurn ==
  ASSUME Static, alg = "rr", NEW s, Sound(s), NEW c, c = s.currentProcess, c # None,
         NEW draw \in Nat, NEW at \in [Procs -> Int], NEW now, now = s.currentTime,
         NEW then, then = now + 1,
         InTurn(s, at, now), TicksLeft(s),
         NEW t, t = expireQuantum(checkIOBurst(chargeTick(executeProcess(s))), draw)
  PROVE  InTurn(t, at, then)
<1>1. PICK h : h = checkIOBurst(chargeTick(executeProcess(s)))
  OBVIOUS
<1>2. ServesOnce(s, h, c, now) /\ Sound(h) /\ c \in Procs
  BY <1>1, ServingStarts, CurrentFacts
<1>3. t = expireQuantum(h, draw)
  BY <1>1
<1>4. /\ Quantum \in Nat /\ now \in Nat /\ s.timeQuantumUsed \in Nat
      /\ s.timeQuantumUsed < Quantum /\ AnswerBound(s) \in Int
  <2>1. now \in Nat /\ s.timeQuantumUsed \in Nat
    BY DEF Sound, Simulator
  <2>2. s.timeQuantumUsed < Quantum
    BY DEF TicksLeft
  <2> QED BY <2>1, <2>2, QuantumAssumption, TurnFacts
<1>5. AnswerBound(h) = AnswerBound(s)
  BY <1>2 DEF AnswerBound, ServesOnce
<1>6. ASSUME NEW j \in 1..Len(h.readyQueue)
      PROVE  Turn(h, j) \in Int /\ Turn(h, j) + 1 <= Turn(s, j)
  <2>1. j \in Int /\ j - 1 \in Int
    BY <1>2, TurnFacts
  <2>2. Rounds(j - 1) \in Int
    BY <2>1, RoundsAdd
  <2>3. Turn(s, j) = Rounds(j - 1) + (Quantum - s.timeQuantumUsed)
    BY DEF Turn
  <2>4. CASE h.currentProcess = None
    <3>1. Turn(h, j) = Rounds(j - 1) + 0
      BY <2>4 DEF Turn
    <3> QED BY <1>4, <2>2, <2>3, <3>1
  <2>5. CASE h.currentProcess # None
    <3>1. Turn(h, j) = Rounds(j - 1) + (Quantum - h.timeQuantumUsed)
      BY <2>5 DEF Turn
    <3>2. h.timeQuantumUsed = s.timeQuantumUsed + 1
      BY <1>2, <2>5 DEF ServesOnce
    <3> QED BY <1>4, <2>2, <2>3, <3>1, <3>2
  <2> QED BY <2>4, <2>5
<1>7. InTurn(h, at, then)
  <2>1. ASSUME NEW j \in 1..Len(h.readyQueue), ~ h.pcb[h.readyQueue[j]].hasStarted
        PROVE  then - at[h.readyQueue[j]] + Turn(h, j) <= AnswerBound(h)
    <3>1. PICK p : p = h.readyQueue[j]
      OBVIOUS
    <3>2. p \in Procs /\ Turn(h, j) \in Int /\ Turn(s, j) \in Int
      <4>1. h.readyQueue = s.readyQueue
        BY <1>2 DEF ServesOnce
      <4> QED BY <1>2, <3>1, <4>1, TurnFacts
    <3>3. p # c
      BY <1>2, <2>1, <3>1 DEF ServesOnce
    <3>4. p = s.readyQueue[j] /\ ~ s.pcb[p].hasStarted
      BY <1>2, <2>1, <3>1, <3>2, <3>3 DEF ServesOnce
    <3>5. j \in 1..Len(s.readyQueue)
      BY <1>2 DEF ServesOnce
    <3>6. now - at[p] + Turn(s, j) <= AnswerBound(s)
      BY <3>4, <3>5 DEF InTurn, QueueInTurn
    <3>7. at[p] \in Int /\ Turn(h, j) + 1 <= Turn(s, j)
      BY <1>6, <3>2
    <3>8. then - at[p] + Turn(h, j) <= AnswerBound(s)
      BY <1>4, <3>2, <3>6, <3>7
    <3> QED BY <1>5, <3>1, <3>8
  <2>2. ASSUME NEW p \in Procs PROVE Answered(h, at, then, p)
    <3>1. Answered(s, at, now, p)
      BY DEF InTurn
    <3>2. CASE p = c
      <4>1. h.pcb[p].hasStarted
        BY <1>2, <3>2 DEF ServesOnce
      <4>2. h.pcb[p].startTime - at[p] <= AnswerBound(s)
        <5>1. CASE s.pcb[p].hasStarted
          <6>1. h.pcb[p].startTime = s.pcb[p].startTime
            BY <1>2, <3>2, <5>1 DEF ServesOnce
          <6> QED BY <3>1, <5>1, <6>1 DEF Answered
        <5>2. CASE ~ s.pcb[p].hasStarted
          <6>1. h.pcb[p].startTime = now
            BY <1>2, <3>2, <5>2 DEF ServesOnce
          <6> QED BY <3>1, <3>2, <5>2, <6>1 DEF Answered
        <5> QED BY <5>1, <5>2
      <4> QED BY <1>5, <4>1, <4>2 DEF Answered
    <3>3. CASE p # c
      <4>1. h.pcb[p] = s.pcb[p] /\ p # h.currentProcess
        BY <1>2, <3>3, EngineAssumption DEF ServesOnce
      <4> QED BY <1>5, <3>1, <4>1 DEF Answered
    <3> QED BY <3>2, <3>3
  <2> QED BY <2>1, <2>2 DEF InTurn, QueueInTurn
<1>8. CASE ~ (h.currentProcess # None /\ quantumExpired(h, h.currentProcess))
  <2>1. t = h
    BY <1>3, <1>8 DEF expireQuantum
  <2> QED BY <1>7, <2>1
<1>9. CASE h.currentProcess # None /\ quantumExpired(h, h.currentProcess)
  <2>1. h.currentProcess = c
    BY <1>2, <1>9 DEF ServesOnce
  <2>2. PICK u : u = requeueExpired(h, c)
    OBVIOUS
  <2>3. t = scheduleNextProcess(u, draw)
    BY <1>3, <1>9, <2>1, <2>2 DEF expireQuantum
  <2>4. Sound(u)
    BY <1>2, <1>9, <2>1, <2>2, RequeueExpiredSound
  <2>5. /\ u.processes = h.processes /\ u.currentProcess = None
        /\ u.readyQueue = Append(h.readyQueue, c) /\ Relabelled(h, u, c, "Ready")
    BY <1>2, <1>9, <2>1, <2>2, RequeueExpiredDoes DEF SameClock
  <2>6. PastKept(h, u)
    BY <1>2, <2>1, <2>2, RequeueKeepsPast DEF Sound
  <2>7. ASSUME NEW p \in Procs
        PROVE  /\ u.pcb[p].hasStarted = h.pcb[p].hasStarted
               /\ u.pcb[p].startTime = h.pcb[p].startTime
    BY <2>6 DEF PastKept, SamePast, SameRun
  <2>8. AnswerBound(u) = AnswerBound(h)
    BY <2>5 DEF AnswerBound
  <2>9. h.pcb[c].hasStarted
    BY <1>2 DEF ServesOnce
  <2>10. Quantum - h.timeQuantumUsed = 0
    <3>1. h.timeQuantumUsed >= Quantum
      BY <1>9, QuantumAssumption DEF quantumExpired, QuantumFor
    <3>2. h.timeQuantumUsed = s.timeQuantumUsed + 1
      BY <1>2, <1>9 DEF ServesOnce
    <3> QED BY <1>4, <3>1, <3>2
  <2>11. PICK q, r : q = h.readyQueue /\ r = u.readyQueue
    OBVIOUS
  <2>12. /\ q \in Seq(Procs) /\ Len(q) \in Nat /\ Len(r) = Len(q) + 1
         /\ \A j \in 1..Len(q) : r[j] = q[j]
         /\ r[Len(q) + 1] = c
    <3>1. q \in Seq(Procs)
      BY <1>2, <2>11 DEF Sound, Simulator
    <3>2. r = Append(q, c)
      BY <2>5, <2>11
    <3> QED BY <1>2, <3>1, <3>2, AppendProperties, LenProperties
  <2>13. ASSUME NEW j \in 1..Len(r), ~ u.pcb[r[j]].hasStarted
         PROVE  then - at[r[j]] + Turn(u, j) <= AnswerBound(u)
    <3>1. CASE j = Len(q) + 1
      BY <1>2, <2>7, <2>9, <2>12, <2>13, <3>1
    <3>2. CASE j # Len(q) + 1
      <4>1. j \in 1..Len(q) /\ r[j] = q[j]
        BY <2>12, <3>2
      <4>2. q[j] \in Procs
        BY <1>2, <2>11, <4>1, TurnFacts
      <4>3. ~ h.pcb[q[j]].hasStarted
        BY <2>7, <2>13, <4>1, <4>2
      <4>4. then - at[q[j]] + Turn(h, j) <= AnswerBound(h)
        BY <1>7, <2>11, <4>1, <4>3 DEF InTurn, QueueInTurn
      <4>5. Turn(u, j) = Turn(h, j)
        BY <1>9, <2>5, <2>10 DEF Turn
      <4> QED BY <2>8, <4>1, <4>4, <4>5
    <3> QED BY <3>1, <3>2
  <2>14. ASSUME NEW p \in Procs PROVE Answered(u, at, then, p)
    <3>1. Answered(h, at, then, p)
      BY <1>7 DEF InTurn
    <3>2. u.pcb[p].state \in {"Waiting", "Terminated"} => h.pcb[p].state = u.pcb[p].state
      BY <2>5 DEF Relabelled
    <3>3. p # u.currentProcess
      BY <2>5, EngineAssumption
    <3> QED BY <2>7, <2>8, <3>1, <3>2, <3>3 DEF Answered
  <2>15. InTurn(u, at, then)
    BY <2>11, <2>13, <2>14 DEF InTurn, QueueInTurn
  <2>16. then \in Int
    BY <1>4
  <2> QED BY <2>3, <2>4, <2>5, <2>15, <2>16, ScheduleInTurn
<1> QED BY <1>8, <1>9

(* One tick, from its stages.                                               *)
LEMMA TickInTurn ==
  ASSUME Static, alg = "rr", NEW s, Sound(s), QuantumLeft(s),
         NEW draw \in Nat, NEW redraw \in Nat,
         NEW at \in [Procs -> Int], InTurn(s, at, s.currentTime),
         \A p \in Procs : s.pcb[p].state = "New" => at[p] = s.currentTime,
         NEW t, t = executeTimeUnit(s, draw, redraw)
  PROVE  InTurn(t, at, t.currentTime)
<1>1. PICK i, d, w : Stages(s, t, draw, redraw, i, d, w)
  BY TickStages
<1>2. /\ i = tickIOQueue(checkArrivals(s)) /\ d = dispatch(i, draw) /\ t = advanceClock(w)
      /\ Sound(i) /\ Sound(d) /\ Sound(w)
  BY <1>1 DEF Stages
<1>3. PICK now : now = s.currentTime
  OBVIOUS
<1>4. now \in Int /\ t.currentTime = now + 1
  <2>1. now \in Int
    BY <1>3 DEF Sound, Simulator
  <2> QED BY <1>3, <2>1, TickClock
<1>5. PICK then : then = now + 1
  OBVIOUS
<1>6. InTurn(i, at, now)
  BY <1>2, <1>3, <1>4, ReadyingInTurn
<1>7. TicksLeft(i)
  <2>1. i.currentProcess = s.currentProcess /\ i.timeQuantumUsed = s.timeQuantumUsed
    BY <1>2, ReadyingDoes, ReadyingExtends
  <2>2. QuantumFor(s, s.currentProcess) = Quantum /\ Quantum > 0
    BY QuantumAssumption DEF QuantumFor
  <2> QED BY <2>1, <2>2 DEF QuantumLeft, TicksLeft
<1>8. InTurn(d, at, now) /\ TicksLeft(d)
  BY <1>2, <1>4, <1>6, <1>7, DispatchInTurn
<1>9. d.currentTime = now
  <2>1. SameTime(s, i)
    BY <1>2, ReadyingDoes
  <2>2. SameTime(i, d)
    BY <1>2, DispatchDoes
  <2> QED BY <1>3, <2>1, <2>2 DEF SameTime
<1>10. InTurn(w, at, then)
  <2>1. CASE d.currentProcess = None
    <3>1. i.readyQueue = << >> /\ i.currentProcess = None
      BY <1>2, <2>1, DispatchDoes
    <3>2. d = i
      <4>1. d = scheduleNextProcess(i, draw)
        BY <1>2, <3>1 DEF dispatch
      <4> QED BY <1>2, <3>1, <4>1, ScheduleDoes
    <3>3. /\ w.readyQueue = << >> /\ w.currentProcess = None /\ w.pcb = d.pcb
          /\ w.processes = d.processes
      BY <1>1, <1>2, <2>1, <3>1, <3>2, IdleDoes DEF Stages, SameQueues
    <3>4. QueueInTurn(w, at, then)
      <4>1. Len(w.readyQueue) = 0
        BY <3>3
      <4> QED BY <4>1 DEF QueueInTurn
    <3>5. AnswerBound(w) = AnswerBound(d)
      BY <3>3 DEF AnswerBound
    <3>6. ASSUME NEW p \in Procs PROVE Answered(w, at, then, p)
      <4>1. Answered(d, at, now, p)
        BY <1>8 DEF InTurn
      <4>2. p # w.currentProcess
        BY <3>3, EngineAssumption
      <4> QED BY <3>3, <3>5, <4>1, <4>2 DEF Answered
    <3> QED BY <3>4, <3>6 DEF InTurn
  <2>2. CASE d.currentProcess # None
    <3>1. PICK c : c = d.currentProcess
      OBVIOUS
    <3>2. w = expireQuantum(checkIOBurst(chargeTick(executeProcess(d))), redraw)
      BY <1>1, <2>2 DEF Stages
    <3> QED BY <1>2, <1>5, <1>8, <1>9, <2>2, <3>1, <3>2, ServeInTurn
  <2> QED BY <2>1, <2>2
<1>11. /\ t.readyQueue = w.readyQueue /\ t.processes = w.processes
       /\ t.currentProcess = w.currentProcess /\ t.timeQuantumUsed = w.timeQuantumUsed
  BY <1>2, AdvanceDoes DEF SameQueues
<1>12. AnswerBound(t) = AnswerBound(w) /\ \A j : Turn(t, j) = Turn(w, j)
  BY <1>11 DEF AnswerBound, Turn
<1>13. ASSUME NEW p \in Procs
       PROVE  /\ t.pcb[p].hasStarted = w.pcb[p].hasStarted
              /\ t.pcb[p].startTime = w.pcb[p].startTime
              /\ t.pcb[p].state = w.pcb[p].state
  <2>1. SameRun(w.pcb[p], t.pcb[p])
    BY <1>2, AdvanceKeepsRun DEF Sound
  <2>2. t.pcb[p].state = w.pcb[p].state
    BY <1>2, AdvanceDoes
  <2> QED BY <2>1, <2>2 DEF SameRun
<1>14. QueueInTurn(t, at, then)
  <2>1. \A j \in 1..Len(w.readyQueue) : w.readyQueue[j] \in Procs
    BY <1>2, TurnFacts
  <2>2. QueueInTurn(w, at, then)
    BY <1>10 DEF InTurn
  <2>3. ASSUME NEW j \in 1..Len(t.readyQueue), ~ t.pcb[t.readyQueue[j]].hasStarted
        PROVE  then - at[t.readyQueue[j]] + Turn(t, j) <= AnswerBound(t)
    <3>1. PICK p : p = t.readyQueue[j]
      OBVIOUS
    <3>2. p = w.readyQueue[j] /\ j \in 1..Len(w.readyQueue) /\ p \in Procs
      BY <1>11, <2>1, <3>1
    <3>3. ~ w.pcb[p].hasStarted
      BY <1>13, <2>3, <3>1, <3>2
    <3>4. then - at[p] + Turn(w, j) <= AnswerBound(w)
      BY <2>2, <3>2, <3>3 DEF QueueInTurn
    <3> QED BY <1>12, <3>1, <3>4
  <2> QED BY <2>3 DEF QueueInTurn
<1>15. ASSUME NEW p \in Procs PROVE Answered(t, at, then, p)
  <2>1. Answered(w, at, then, p)
    BY <1>10 DEF InTurn
  <2> QED BY <1>11, <1>12, <1>13, <2>1 DEF Answered
<1> QED BY <1>4, <1>5, <1>14, <1>15 DEF InTurn

(* The invariant with the dates at which the log says the processes came.   *)
Prompt(s) ==
    alg = "rr" /\ UniquePIDs =>
        \E at \in [Procs -> Int] :
            /\ \A p \in Procs : \A k \in Arrivals(s, p) : s.events[k].time = at[p]
            /\ InTurn(s, at, s.currentTime)

LEMMA TickPrompt ==
  ASSUME Static, NEW s, Sound(s), Tracked(s), QuantumLeft(s), Prompt(s),
         NEW draw \in Nat, NEW redraw \in Nat, NEW t, t = executeTimeUnit(s, draw, redraw)
  PROVE  Prompt(t)
<1> SUFFICES ASSUME alg = "rr", UniquePIDs
             PROVE  \E at \in [Procs -> Int] :
                      /\ \A p \in Procs : \A k \in Arrivals(t, p) : t.events[k].time = at[p]
                      /\ InTurn(t, at, t.currentTime)
  BY DEF Prompt
<1>1. PICK since \in [Procs -> Int] :
         /\ \A p \in Procs : \A k \in Arrivals(s, p) : s.events[k].time = since[p]
         /\ InTurn(s, since, s.currentTime)
  BY DEF Prompt
<1>2. PICK now \in Int : now = s.currentTime
  BY DEF Sound, Simulator
<1>3. Sound(t) /\ Tracked(t) /\ Ledger(s) /\ Ledger(t) /\ Fresh(s)
  BY TickSound, TickTracked DEF Tracked
<1>4. AddedAt(s.events, t.events, now)
  BY <1>2, TickStages, TickLogs
<1>5. PICK at \in [Procs -> Int] :
         \A p \in Procs : at[p] = IF s.pcb[p].state = "New" THEN now ELSE since[p]
  <2>1. [p \in Procs |-> IF s.pcb[p].state = "New" THEN now ELSE since[p]] \in [Procs -> Int]
    OBVIOUS
  <2> QED BY <2>1
<1>6. InTurn(s, at, now)
  <2>1. QueueInTurn(s, since, now)
    BY <1>1, <1>2 DEF InTurn
  <2>2. ASSUME NEW j \in 1..Len(s.readyQueue)
        PROVE  at[s.readyQueue[j]] = since[s.readyQueue[j]]
    <3>1. PICK p, q : q = s.readyQueue /\ p = q[j]
      OBVIOUS
    <3>2. q \in Seq(Procs) /\ ToSet(q) = In(s, "Ready")
      BY <3>1 DEF Sound, Holds
    <3>3. p \in ToSet(q)
      BY <3>1, <3>2, LenProperties DEF ToSet
    <3>4. p \in Procs /\ s.pcb[p].state = "Ready"
      BY <3>2, <3>3 DEF In
    <3> QED BY <1>5, <3>1, <3>4
  <2>3. QueueInTurn(s, at, now)
    BY <2>1, <2>2 DEF QueueInTurn
  <2>4. ASSUME NEW p \in Procs PROVE Answered(s, at, now, p)
    <3>1. Answered(s, since, now, p)
      BY <1>1, <1>2 DEF InTurn
    <3>2. CASE s.pcb[p].state = "New"
      <4>1. s.pcb[p] = InitialPCB(p)
        BY <1>3, <3>2 DEF Fresh
      <4>2. ~ s.pcb[p].hasStarted
        <5>1. PICK b : b = s.pcb[p] /\ b = InitialPCB(p)
          BY <4>1
        <5> QED BY <5>1 DEF InitialPCB
      <4>3. p # s.currentProcess
        BY <3>2, CurrentFacts, EngineAssumption
      <4> QED BY <3>2, <4>2, <4>3 DEF Answered
    <3>3. CASE s.pcb[p].state # "New"
      <4>1. at[p] = since[p]
        BY <1>5, <3>3
      <4> QED BY <3>1, <4>1 DEF Answered
    <3> QED BY <3>2, <3>3
  <2> QED BY <2>3, <2>4 DEF InTurn
<1>7. \A p \in Procs : s.pcb[p].state = "New" => at[p] = now
  BY <1>5
<1>8. InTurn(t, at, t.currentTime)
  BY <1>2, <1>6, <1>7, TickInTurn
<1>9. ASSUME NEW p \in Procs, NEW k \in Arrivals(t, p) PROVE t.events[k].time = at[p]
  <2>1. t.pcb[p].state # "New"
    BY <1>3, ArrivalLogged
  <2>2. /\ s.pcb[p].state = "New" => t.events[k].time = now
        /\ s.pcb[p].state # "New" =>
             k \in Arrivals(s, p) /\ t.events[k].time = s.events[k].time
    BY <1>2, <1>3, <1>4, <2>1, TickArrivals
  <2> QED BY <1>1, <1>5, <2>2
<1> QED BY <1>8, <1>9

(* After NewSimulator and Reset nobody has arrived.                         *)
LEMMA FreshPrompt ==
  ASSUME NEW t, \A p \in Procs : t.pcb[p] = InitialPCB(p),
         t.readyQueue = << >>, t.events = << >>, t.currentProcess = None
  PROVE  Prompt(t)
<1>1. PICK at : at = [p \in Procs |-> 0]
  OBVIOUS
<1>2. at \in [Procs -> Int]
  BY <1>1
<1>3. \A p \in Procs : Arrivals(t, p) = {}
  BY DEF Arrivals, Marked
<1>4. QueueInTurn(t, at, t.currentTime)
  <2>1. Len(t.readyQueue) = 0
    OBVIOUS
  <2> QED BY <2>1 DEF QueueInTurn
<1>5. ASSUME NEW p \in Procs PROVE Answered(t, at, t.currentTime, p)
  <2>1. PICK b : b = t.pcb[p] /\ b = InitialPCB(p)
    OBVIOUS
  <2>2. ~ b.hasStarted
    BY <2>1 DEF InitialPCB
  <2>3. b.state = "New"
    BY <2>1 DEF InitialPCB
  <2>4. p # t.currentProcess
    BY EngineAssumption
  <2> QED BY <2>1, <2>2, <2>3, <2>4 DEF Answered
<1> QED BY <1>2, <1>3, <1>4, <1>5 DEF Prompt, InTurn

(* A process added late makes the bound larger and leaves the rest alone.   *)
LEMMA AddPrompt ==
  ASSUME Static, Sound(sim), Prompt(sim), NEW p \in Procs, AddProcess(p)
  PROVE  Prompt(sim')
<1>1. PICK s, t : s = sim /\ t = sim'
  OBVIOUS
<1>2. /\ t.readyQueue = s.readyQueue /\ t.currentProcess = s.currentProcess
      /\ t.currentTime = s.currentTime /\ t.events = s.events
      /\ t.timeQuantumUsed = s.timeQuantumUsed /\ t.pcb = s.pcb
  BY <1>1, AddDoes
<1>3. Sound(s) /\ Sound(t) /\ ToSet(t.processes) = ToSet(s.processes) \cup {p}
  BY <1>1, AddSound
<1>4. PICK m, n : m = Len(s.processes) /\ n = Len(t.processes)
  OBVIOUS
<1>5. m \in Nat /\ n \in Nat /\ m <= n
  <2>1. /\ s.processes \in Seq(Procs) /\ t.processes \in Seq(Procs)
        /\ IsInjective(s.processes) /\ IsInjective(t.processes)
    BY <1>3 DEF Sound, Simulator
  <2>2. m = Cardinality(ToSet(s.processes)) /\ n = Cardinality(ToSet(t.processes))
    BY <1>4, <2>1, DistinctCount
  <2>3. IsFiniteSet(ToSet(t.processes))
    BY <1>3, ProcessSets, ProcsAssumption, FS_Subset
  <2>4. Cardinality(ToSet(s.processes)) <= Cardinality(ToSet(t.processes))
    BY <1>3, <2>3, FS_Subset
  <2> QED BY <1>4, <2>1, <2>2, <2>4, LenProperties
<1>6. AnswerBound(s) \in Int /\ AnswerBound(t) \in Int /\ AnswerBound(s) <= AnswerBound(t)
  <2>1. m - 1 \in Int /\ n - 1 \in Int /\ m - 1 <= n - 1
    BY <1>5
  <2>2. Rounds(m - 1) <= Rounds(n - 1)
    BY <2>1, RoundsGrow
  <2>3. Rounds(m - 1) \in Int /\ Rounds(n - 1) \in Int
    BY <2>1, RoundsAdd
  <2> QED BY <1>4, <2>2, <2>3 DEF AnswerBound
<1>7. \A j : Turn(t, j) = Turn(s, j)
  BY <1>2 DEF Turn
<1>8. PICK now \in Int : now = s.currentTime
  BY <1>3 DEF Sound, Simulator
<1>9. ASSUME NEW at \in [Procs -> Int], InTurn(s, at, now) PROVE InTurn(t, at, now)
  <2>1. ASSUME NEW j \in 1..Len(t.readyQueue), ~ t.pcb[t.readyQueue[j]].hasStarted
        PROVE  now - at[t.readyQueue[j]] + Turn(t, j) <= AnswerBound(t)
    <3>1. PICK r, u : r = s.readyQueue[j] /\ u = Turn(s, j)
      OBVIOUS
    <3>2. r \in Procs /\ u \in Int
      BY <1>2, <1>3, <3>1, TurnFacts
    <3>3. now - at[r] + u <= AnswerBound(s)
      BY <1>2, <1>9, <2>1, <3>1 DEF InTurn, QueueInTurn
    <3>4. now - at[r] + u <= AnswerBound(t)
      BY <1>6, <3>2, <3>3
    <3> QED BY <1>2, <1>7, <3>1, <3>4
  <2>2. QueueInTurn(t, at, now)
    BY <2>1 DEF QueueInTurn
  <2>3. ASSUME NEW r \in Procs PROVE Answered(t, at, now, r)
    <3>1. Answered(s, at, now, r)
      BY <1>9 DEF InTurn
    <3>2. PICK b : b = s.pcb[r]
      OBVIOUS
    <3>3. b \in PCB
      BY <1>3, <3>2, SoundFacts
    <3>4. b.startTime \in Int
      BY <3>3 DEF PCB
    <3>5. b.startTime - at[r] <= AnswerBound(s) => b.startTime - at[r] <= AnswerBound(t)
      BY <1>6, <3>4
    <3>6. now - at[r] <= AnswerBound(s) => now - at[r] <= AnswerBound(t)
      BY <1>6
    <3> QED BY <1>2, <3>1, <3>2, <3>5, <3>6 DEF Answered
  <2> QED BY <2>2, <2>3 DEF InTurn
<1>10. \A r \in Procs : Arrivals(t, r) = Arrivals(s, r)
  BY <1>2 DEF Arrivals
<1>11. Prompt(s)
  BY <1>1
<1>12. Prompt(t)
  BY <1>2, <1>8, <1>9, <1>10, <1>11 DEF Prompt
<1> QED BY <1>1, <1>12

LEMMA PromptInductive == Spec => []Prompt(sim)
<1>1. Init => Prompt(sim)
  <2> SUFFICES ASSUME Init PROVE Prompt(sim)
    OBVIOUS
  <2>1. /\ sim.pcb = [p \in Procs |-> InitialPCB(p)]
        /\ sim.readyQueue = << >> /\ sim.events = << >> /\ sim.currentProcess = None
    BY DEF Init, NewSimulator
  <2>2. \A p \in Procs : sim.pcb[p] = InitialPCB(p)
    BY <2>1
  <2> QED BY <2>1, <2>2, FreshPrompt
<1>2. TickInv /\ Prompt(sim) /\ [Next]_vars => Prompt(sim)'
  <2> SUFFICES ASSUME TickInv, Prompt(sim), [Next]_vars PROVE Prompt(sim)'
    OBVIOUS
  <2>1. Static /\ Sound(sim) /\ Tracked(sim) /\ QuantumLeft(sim)
    BY DEF TickInv, EngineInv
  <2>2. ASSUME UNCHANGED <<alg, task>>, Prompt(sim') PROVE Prompt(sim)'
    <3>1. PID' = PID
      BY <2>2 DEF PID
    <3>2. UniquePIDs' = UniquePIDs
      BY <3>1 DEF UniquePIDs
    <3>3. \A p \in Procs : Arrivals(sim, p)' = Arrivals(sim', p)
      BY <3>1 DEF Arrivals, Marked, Entries
    <3> QED BY <2>2, <3>2, <3>3 DEF Prompt
  <2>3. ASSUME NEW p \in Procs, AddProcess(p) PROVE Prompt(sim)'
    <3>1. Prompt(sim')
      BY <2>1, <2>3, AddPrompt
    <3> QED BY <2>2, <2>3, <3>1 DEF AddProcess
  <2>4. CASE Tick
    <3>1. PICK draw \in Nat, redraw \in Nat : sim' = executeTimeUnit(sim, draw, redraw)
      BY <2>4, DrawsAreNat DEF Tick
    <3>2. Prompt(sim')
      BY <2>1, <3>1, TickPrompt
    <3> QED BY <2>2, <2>4, <3>2 DEF Tick
  <2>5. CASE Reset
    <3>1. /\ \A p \in Procs : sim'.pcb[p] = InitialPCB(p)
          /\ sim'.events = << >> /\ sim'.currentProcess = None
          /\ sim' = [NewSimulator EXCEPT !.processes = sim.processes]
      BY <2>1, <2>5, ResetDoes
    <3>2. sim'.readyQueue = << >>
      BY <3>1 DEF NewSimulator
    <3>3. Prompt(sim')
      BY <3>1, <3>2, FreshPrompt
    <3> QED BY <2>2, <2>5, <3>3 DEF Reset
  <2>6. CASE UNCHANGED vars
    <3>1. sim' = sim /\ UNCHANGED <<alg, task>>
      BY <2>6 DEF vars
    <3> QED BY <2>2, <3>1
  <2> QED BY <2>3, <2>4, <2>5, <2>6 DEF Next
<1> QED BY <1>1, <1>2, TickInvInductive, PTL DEF Spec

(* Nobody's turn lies in the past.                                          *)
LEMMA TurnIsAhead ==
  ASSUME Static, alg = "rr", NEW s, Sound(s), QuantumLeft(s),
         NEW j \in 1..Len(s.readyQueue)
  PROVE  Turn(s, j) >= 0
<1>1. Len(s.readyQueue) \in Nat /\ s.timeQuantumUsed \in Nat
  BY TurnFacts
<1>2. PICK k \in Int : k = j - 1
  BY <1>1
<1>3. k >= 0
  BY <1>1, <1>2
<1>4. Rounds(k) \in Int /\ Rounds(0) = 0 /\ Rounds(0) <= Rounds(k)
  <2>1. Rounds(0) = 0
    BY QuantumAssumption DEF Rounds
  <2>2. Rounds(k) \in Int
    BY RoundsAdd
  <2>3. 0 \in Int /\ 0 <= k
    BY <1>3
  <2>4. Rounds(0) <= Rounds(k)
    BY <2>3, RoundsGrow
  <2> QED BY <2>1, <2>2, <2>4
<1>5. CASE s.currentProcess = None
  <2>1. Turn(s, j) = Rounds(k) + 0
    BY <1>2, <1>5 DEF Turn
  <2> QED BY <1>4, <2>1
<1>6. CASE s.currentProcess # None
  <2>1. QuantumFor(s, s.currentProcess) = Quantum /\ Quantum \in Nat /\ Quantum > 0
    BY QuantumAssumption DEF QuantumFor
  <2>2. s.timeQuantumUsed < Quantum
    BY <1>6, <2>1 DEF QuantumLeft
  <2>3. Turn(s, j) = Rounds(k) + (Quantum - s.timeQuantumUsed)
    BY <1>2, <1>6 DEF Turn
  <2> QED BY <1>1, <1>4, <2>1, <2>2, <2>3
<1> QED BY <1>5, <1>6

(* Under round robin with distinct PIDs a process that checkArrivals let in *)
(* has its first tick, which executeTimeUnit records as StartTime, at most  *)
(* (n - 1) quanta later, n being the number of processes added: the bound   *)
(* of docs/ALGORITHMS.md, with I/O, late arrivals and late additions.       *)
THEOREM RoundRobinAnswersInTime == Spec => []RoundRobinResponse
<1>1. TickInv /\ Prompt(sim) => RoundRobinResponse
  <2> SUFFICES ASSUME TickInv, Prompt(sim), alg = "rr", UniquePIDs,
                      NEW p \in Procs, NEW e \in ToSet(sim.events),
                      e.pid = PID[p], e.type = "arrival"
               PROVE  (IF sim.pcb[p].hasStarted THEN sim.pcb[p].startTime
                       ELSE sim.currentTime) - e.time
                        <= (Len(sim.processes) - 1) * Quantum
    BY DEF RoundRobinResponse
  <2>1. Static /\ Sound(sim) /\ sim \in Simulator /\ Ledger(sim) /\ QuantumLeft(sim)
    BY DEF TickInv, EngineInv, Sound, Tracked
  <2>2. PICK at \in [Procs -> Int] :
           /\ \A r \in Procs : \A k \in Arrivals(sim, r) : sim.events[k].time = at[r]
           /\ InTurn(sim, at, sim.currentTime)
    BY DEF Prompt
  <2>3. PICK k \in DOMAIN sim.events : e = sim.events[k]
    BY DEF ToSet
  <2>4. e \in EventRecord
    <3>1. sim.events \in Seq(EventRecord)
      BY <2>1 DEF Simulator
    <3> QED BY <2>3, <3>1, LenProperties, ElementOfSeq
  <2>5. k \in Arrivals(sim, p)
    BY <2>3, <2>4 DEF Arrivals, Marked, Entries
  <2>6. e.time = at[p]
    BY <2>2, <2>3, <2>5
  <2>7. PICK b, now, bound : /\ b = sim.pcb[p] /\ now = sim.currentTime
                             /\ bound = (Len(sim.processes) - 1) * Quantum
    OBVIOUS
  <2>8. bound = AnswerBound(sim)
    BY <2>7 DEF AnswerBound, Rounds
  <2>9. now \in Int
    BY <2>1, <2>7 DEF Simulator
  <2>10. b.state \in State \ {"New"}
    <3>1. b \in PCB
      BY <2>1, <2>7, SoundFacts
    <3>2. b.state \in State
      BY <3>1 DEF PCB
    <3>3. b.state # "New"
      BY <2>1, <2>5, <2>7, ArrivalLogged
    <3> QED BY <3>2, <3>3
  <2>11. Answered(sim, at, now, p) /\ QueueInTurn(sim, at, now)
    BY <2>2, <2>7 DEF InTurn
  <2>12. CASE b.hasStarted
    <3>1. b.startTime - at[p] <= bound
      BY <2>7, <2>8, <2>11, <2>12 DEF Answered
    <3> QED BY <2>6, <2>7, <2>12, <3>1
  <2>13. CASE ~ b.hasStarted
    <3>1. now - at[p] <= bound
      <4>1. CASE b.state = "Ready"
        <5>1. p \in ToSet(sim.readyQueue)
          BY <2>1, <2>7, <4>1 DEF Sound, Holds, In
        <5>2. PICK j \in 1..Len(sim.readyQueue) : sim.readyQueue[j] = p
          <6>1. sim.readyQueue \in Seq(Procs)
            BY <2>1 DEF Simulator
          <6> QED BY <5>1, <6>1, LenProperties DEF ToSet
        <5>3. PICK u : u = Turn(sim, j)
          OBVIOUS
        <5>4. u \in Int /\ bound \in Int
          BY <2>1, <2>8, <5>3, TurnFacts
        <5>5. u >= 0
          BY <2>1, <5>3, TurnIsAhead
        <5>6. now - at[p] + u <= bound
          BY <2>7, <2>8, <2>11, <2>13, <5>2, <5>3 DEF QueueInTurn
        <5> QED BY <2>9, <5>4, <5>5, <5>6
      <4>2. CASE b.state = "Running"
        <5>1. p = sim.currentProcess
          BY <2>1, <2>7, <4>2 DEF Sound, In
        <5> QED BY <2>7, <2>8, <2>11, <2>13, <5>1 DEF Answered
      <4>3. CASE b.state \in {"Waiting", "Terminated"}
        BY <2>7, <2>11, <2>13, <4>3 DEF Answered
      <4> QED BY <2>10, <4>1, <4>2, <4>3 DEF State
    <3> QED BY <2>6, <2>7, <2>13, <3>1
  <2> QED BY <2>12, <2>13
<1> QED BY <1>1, TickInvInductive, PromptInductive, PTL
=============================================================================
