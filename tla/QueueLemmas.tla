---------------------------- MODULE QueueLemmas ----------------------------
(***************************************************************************)
(* What the operations on the engine's queues do to the set of processes a *)
(* queue holds, for queues of any length; that Schedule always has a       *)
(* process to return and takes it from the ready queue, for each of the    *)
(* ten algorithms; and that it is the one a single pass over the queue     *)
(* finds.                                                                  *)
(***************************************************************************)
EXTENDS Engine, SequenceTheorems, WellFoundedInduction, TLAPS

(* The queue q holds exactly the processes of A, each once.                 *)
Holds(q, A) ==
    /\ q \in Seq(Procs)
    /\ IsInjective(q)
    /\ ToSet(q) = A

----------------------------------------------------------------------------
(* Every nonempty set of natural numbers has a least element.  It replaces  *)
(* induction below: a claim about all n fails, if it does, at a least n.    *)
LEMMA LeastNat ==
  ASSUME NEW T \in SUBSET Nat, T # {}
  PROVE  \E x \in T : \A y \in T : x <= y
<1>1. IsWellFoundedOn(OpToRel(<, Nat), Nat)
  BY NatLessThanWellFounded
<1>2. PICK x \in T : \A y \in T : ~ (<<y, x>> \in OpToRel(<, Nat))
  BY <1>1, WFMin
<1>3. ASSUME NEW y \in T PROVE x <= y
  <2>1. y \in Nat /\ x \in Nat
    OBVIOUS
  <2>2. ~ (y < x)
    BY <1>2, <2>1 DEF OpToRel
  <2> QED BY <2>1, <2>2
<1> QED BY <1>3

(* k is the table of prefixes that KeptUpTo builds, up to n.                *)
IsKept(k, n, q, S) ==
    k = [i \in 0..n |-> IF i = 0 THEN << >>
                        ELSE IF q[i] \in S THEN Append(k[i-1], q[i]) ELSE k[i-1]]

(* A table of prefixes can be extended by one.                              *)
LEMMA KeptNext ==
  ASSUME NEW q \in Seq(Procs), NEW S, NEW n \in Nat, NEW k, IsKept(k, n, q, S)
  PROVE  \E g : IsKept(g, n+1, q, S)
<1> DEFINE g == [i \in 0..(n+1) |->
                   IF i = n+1 THEN (IF q[i] \in S THEN Append(k[n], q[i]) ELSE k[n])
                   ELSE k[i]]
<1>1. \A i \in 0..n : k[i] = IF i = 0 THEN << >>
                             ELSE IF q[i] \in S THEN Append(k[i-1], q[i]) ELSE k[i-1]
  BY DEF IsKept
<1>2. \A i \in 0..(n+1) : g[i] = IF i = 0 THEN << >>
                                 ELSE IF q[i] \in S THEN Append(g[i-1], q[i]) ELSE g[i-1]
  BY <1>1
<1>3. IsKept(g, n+1, q, S)
  <2> HIDE DEF g
  <2>1. g = [i \in 0..(n+1) |-> g[i]]
    BY DEF g
  <2> QED BY <1>2, <2>1 DEF IsKept
<1> QED BY <1>3

(* There is a table of prefixes of every length.                            *)
LEMMA KeptTable ==
  ASSUME NEW q \in Seq(Procs), NEW S, NEW n \in Nat
  PROVE  \E k : IsKept(k, n, q, S)
<1> DEFINE T == {m \in Nat : ~ \E k : IsKept(k, m, q, S)}
<1> SUFFICES ASSUME T # {} PROVE FALSE
  OBVIOUS
<1>1. PICK m \in T : \A y \in T : m <= y
  BY LeastNat
<1>2. m # 0
  <2>1. IsKept([i \in 0..0 |-> << >>], 0, q, S)
    BY DEF IsKept
  <2> QED BY <1>1, <2>1
<1>3. m-1 \in Nat /\ m-1 \notin T
  BY <1>1, <1>2
<1>4. PICK k : IsKept(k, m-1, q, S)
  BY <1>3
<1>5. \E g : IsKept(g, (m-1)+1, q, S)
  BY <1>3, <1>4, KeptNext
<1> QED BY <1>1, <1>5

(* The recursive function in the definition of Kept satisfies its equation. *)
LEMMA KeptEquation ==
  ASSUME NEW q \in Seq(Procs), NEW S
  PROVE  IsKept(KeptUpTo(q, S), Len(q), q, S)
<1>1. Len(q) \in Nat
  BY LenProperties
<1>2. PICK k : IsKept(k, Len(q), q, S)
  BY <1>1, KeptTable
<1> QED BY <1>2 DEF KeptUpTo, IsKept

----------------------------------------------------------------------------
(* Appending a process that is not in the queue.                            *)
LEMMA AppendHolds ==
  ASSUME NEW q, NEW A, Holds(q, A), NEW p \in Procs, p \notin A
  PROVE  Holds(Append(q, p), A \cup {p})
<1> DEFINE r == Append(q, p)
<1>1. q \in Seq(Procs) /\ r \in Seq(Procs)
  BY AppendProperties DEF Holds
<1>2. Len(q) \in Nat /\ Len(r) = Len(q) + 1
  BY <1>1, AppendProperties, LenProperties
<1>3. DOMAIN q = 1..Len(q) /\ DOMAIN r = 1..(Len(q) + 1)
  BY <1>1, <1>2, LenProperties
<1>4. \A i \in 1..Len(q) : r[i] = q[i]
  BY <1>1, AppendProperties
<1>5. r[Len(q) + 1] = p
  BY <1>1, AppendProperties
<1>6. \A i \in 1..Len(q) : q[i] \in A
  BY <1>3 DEF Holds, ToSet
<1> HIDE DEF r
<1>7. IsInjective(r)
  <2> SUFFICES ASSUME NEW a \in DOMAIN r, NEW b \in DOMAIN r, r[a] = r[b] PROVE a = b
    BY DEF IsInjective
  <2>1. CASE a = Len(q) + 1
    BY <1>2, <1>3, <1>4, <1>5, <1>6, <2>1
  <2>2. CASE b = Len(q) + 1
    BY <1>2, <1>3, <1>4, <1>5, <1>6, <2>2
  <2>3. CASE a # Len(q) + 1 /\ b # Len(q) + 1
    <3>1. a \in DOMAIN q /\ b \in DOMAIN q
      BY <1>2, <1>3, <2>3
    <3> QED BY <1>3, <1>4, <3>1 DEF Holds, IsInjective
  <2> QED BY <2>1, <2>2, <2>3
<1>8. ToSet(r) = A \cup {p}
  <2>1. ToSet(r) = {r[i] : i \in 1..(Len(q) + 1)}
    BY <1>3 DEF ToSet
  <2>2. A = {q[i] : i \in 1..Len(q)}
    BY <1>3 DEF Holds, ToSet
  <2>3. 1..(Len(q) + 1) = 1..Len(q) \cup {Len(q) + 1}
    BY <1>2
  <2> QED BY <1>4, <1>5, <2>1, <2>2, <2>3
<1> QED BY <1>1, <1>7, <1>8 DEF Holds, r

(* The empty queue holds no process.                                        *)
LEMMA EmptyHolds == Holds(<< >>, {})
<1>1. << >> \in Seq(Procs) /\ Len(<< >>) = 0
  OBVIOUS
<1>2. DOMAIN << >> = {}
  OBVIOUS
<1> QED BY <1>1, <1>2 DEF Holds, IsInjective, ToSet

(* The part of a queue that is in S.                                        *)
LEMMA KeptHolds ==
  ASSUME NEW q, NEW A, Holds(q, A), NEW S
  PROVE  Holds(Kept(q, S), A \cap S)
<1> DEFINE k == KeptUpTo(q, S)
           Seen(n) == {q[j] : j \in 1..n}
           Good(n) == Holds(k[n], Seen(n) \cap S)
           T == {n \in 0..Len(q) : ~ Good(n)}
<1>1. q \in Seq(Procs) /\ Len(q) \in Nat /\ DOMAIN q = 1..Len(q)
  BY LenProperties DEF Holds
<1>2. IsKept(k, Len(q), q, S)
  BY <1>1, KeptEquation
<1> HIDE DEF k
<1>3. \A i \in 0..Len(q) :
        k[i] = IF i = 0 THEN << >>
               ELSE IF q[i] \in S THEN Append(k[i-1], q[i]) ELSE k[i-1]
  BY <1>2 DEF IsKept
<1>4. Seen(0) = {} /\ Seen(Len(q)) = A
  BY <1>1 DEF Holds, ToSet
<1>5. ASSUME NEW n \in 1..Len(q)
      PROVE  q[n] \notin Seen(n-1) /\ Seen(n) = Seen(n-1) \cup {q[n]}
  <2>1. ASSUME NEW j \in 1..(n-1), q[n] = q[j] PROVE FALSE
    <3>1. j \in DOMAIN q /\ n \in DOMAIN q /\ j # n
      BY <1>1
    <3> QED BY <2>1, <3>1 DEF Holds, IsInjective
  <2>2. 1..n = 1..(n-1) \cup {n}
    BY <1>1
  <2> QED BY <2>1, <2>2
<1> HIDE DEF Seen, Good
<1>6. T = {}
  <2> SUFFICES ASSUME T # {} PROVE FALSE
    OBVIOUS
  <2>1. PICK n \in T : \A y \in T : n <= y
    <3>1. T \in SUBSET Nat
      BY <1>1
    <3> HIDE DEF T
    <3> QED BY <3>1, LeastNat
  <2>2. n # 0
    <3>1. k[0] = << >> /\ Seen(0) \cap S = {}
      BY <1>1, <1>3, <1>4
    <3> QED BY <2>1, <3>1, EmptyHolds DEF Good
  <2>3. n \in 1..Len(q) /\ n-1 \in 0..Len(q) /\ n-1 \in Nat
    BY <1>1, <2>1, <2>2
  <2>4. Holds(k[n-1], Seen(n-1) \cap S)
    <3>1. n-1 \notin T
      <4> HIDE DEF T
      <4> QED BY <2>1, <2>3
    <3>2. Good(n-1)
      BY <2>3, <3>1
    <3> QED BY <3>2 DEF Good
  <2>5. q[n] \in Procs
    BY <1>1, <2>3, ElementOfSeq
  <2>6. k[n] = IF q[n] \in S THEN Append(k[n-1], q[n]) ELSE k[n-1]
    BY <1>3, <2>3
  <2>7. CASE q[n] \in S
    <3>1. Holds(Append(k[n-1], q[n]), (Seen(n-1) \cap S) \cup {q[n]})
      BY <1>5, <2>3, <2>4, <2>5, AppendHolds
    <3>2. (Seen(n-1) \cap S) \cup {q[n]} = Seen(n) \cap S
      BY <1>5, <2>3, <2>7
    <3> QED BY <2>1, <2>6, <2>7, <3>1, <3>2 DEF Good
  <2>8. CASE q[n] \notin S
    <3>1. Seen(n) \cap S = Seen(n-1) \cap S
      BY <1>5, <2>3, <2>8
    <3> QED BY <2>1, <2>4, <2>6, <2>8, <3>1 DEF Good
  <2> QED BY <2>7, <2>8
<1>7. Good(Len(q))
  BY <1>1, <1>6
<1> QED BY <1>4, <1>7 DEF Good, Kept, k

(* One queue after another: what arrived, or finished its I/O, in a tick.   *)
LEMMA ConcatHolds ==
  ASSUME NEW q, NEW A, Holds(q, A), NEW r, NEW B, Holds(r, B), A \cap B = {}
  PROVE  Holds(q \o r, A \cup B)
<1> DEFINE c == q \o r
           n == Len(q)
           m == Len(r)
<1>1. q \in Seq(Procs) /\ r \in Seq(Procs) /\ c \in Seq(Procs)
  BY ConcatProperties DEF Holds
<1>2. n \in Nat /\ m \in Nat /\ Len(c) = n + m
  BY <1>1, ConcatProperties, LenProperties
<1>3. DOMAIN q = 1..n /\ DOMAIN r = 1..m /\ DOMAIN c = 1..(n + m)
  BY <1>1, <1>2, LenProperties
<1>4. \A i \in 1..(n + m) : c[i] = IF i <= n THEN q[i] ELSE r[i - n]
  BY <1>1, <1>2, ConcatProperties
<1>5. A = {q[i] : i \in 1..n} /\ B = {r[i] : i \in 1..m}
  BY <1>3 DEF Holds, ToSet
<1>6. /\ \A i, j \in 1..n : q[i] = q[j] => i = j
      /\ \A i, j \in 1..m : r[i] = r[j] => i = j
  BY <1>3 DEF Holds, IsInjective
<1> HIDE DEF c, n, m
<1>7. IsInjective(c)
  <2> SUFFICES ASSUME NEW i \in 1..(n + m), NEW j \in 1..(n + m), c[i] = c[j] PROVE i = j
    BY <1>3 DEF IsInjective
  <2>1. CASE i <= n /\ j <= n
    BY <1>2, <1>4, <1>6, <2>1
  <2>2. CASE i > n /\ j > n
    <3>1. i - n \in 1..m /\ j - n \in 1..m
      BY <1>2, <2>2
    <3>2. r[i - n] = r[j - n]
      BY <1>2, <1>4, <2>2
    <3>3. i - n = j - n
      BY <1>6, <3>1, <3>2
    <3> QED BY <1>2, <3>3
  <2>3. ASSUME NEW x \in 1..n, NEW y \in 1..m, q[x] = r[y] PROVE FALSE
    BY <1>5, <2>3
  <2>4. CASE i <= n /\ j > n
    <3>1. i \in 1..n /\ j - n \in 1..m /\ q[i] = r[j - n]
      BY <1>2, <1>4, <2>4
    <3> QED BY <2>3, <3>1
  <2>5. CASE i > n /\ j <= n
    <3>1. j \in 1..n /\ i - n \in 1..m /\ q[j] = r[i - n]
      BY <1>2, <1>4, <2>5
    <3> QED BY <2>3, <3>1
  <2> QED BY <1>2, <2>1, <2>2, <2>4, <2>5
<1>8. ToSet(c) = A \cup B
  <2>1. ToSet(c) = {c[i] : i \in 1..(n + m)}
    BY <1>3 DEF ToSet
  <2>2. ASSUME NEW i \in 1..(n + m) PROVE c[i] \in A \cup B
    <3>1. CASE i <= n
      BY <1>2, <1>4, <1>5, <3>1
    <3>2. CASE i > n
      <4>1. i - n \in 1..m /\ c[i] = r[i - n]
        BY <1>2, <1>4, <3>2
      <4> QED BY <1>5, <4>1
    <3> QED BY <1>2, <3>1, <3>2
  <2>3. ASSUME NEW i \in 1..n PROVE q[i] \in ToSet(c)
    <3>1. i \in 1..(n + m) /\ c[i] = q[i]
      BY <1>2, <1>4
    <3> QED BY <2>1, <3>1
  <2>4. ASSUME NEW i \in 1..m PROVE r[i] \in ToSet(c)
    <3>1. i + n \in 1..(n + m) /\ c[i + n] = r[i]
      BY <1>2, <1>4
    <3> QED BY <2>1, <3>1
  <2> QED BY <1>5, <2>1, <2>2, <2>3, <2>4
<1> QED BY <1>1, <1>7, <1>8 DEF Holds, c

(* The least element of a nonempty set of numbers, as Min chooses it.       *)
LEMMA MinIsLeast ==
  ASSUME NEW T \in SUBSET Nat, T # {}
  PROVE  Min(T) \in T /\ \A y \in T : Min(T) <= y
BY LeastNat DEF Min

(* Removing a process by pointer, as scheduleNextProcess does: those behind *)
(* it move up by one place.                                                 *)
LEMMA RemoveShifts ==
  ASSUME NEW q \in Seq(Procs), IsInjective(q), NEW x \in 1..Len(q)
  PROVE  LET c == RemoveFirst(q, q[x])
         IN  /\ c \in Seq(Procs)
             /\ Len(c) = Len(q) - 1
             /\ \A i \in 1..(Len(q) - 1) : c[i] = IF i < x THEN q[i] ELSE q[i + 1]
<1> DEFINE n == Len(q)
           I == {i \in 1..n : q[i] = q[x]}
           c == SubSeq(q, 1, x - 1) \o SubSeq(q, x + 1, n)
<1>1. n \in Nat /\ DOMAIN q = 1..n
  BY LenProperties
<1>2. \A i, j \in 1..n : q[i] = q[j] => i = j
  BY <1>1 DEF IsInjective
<1>3. I \in SUBSET Nat /\ I # {} /\ I \subseteq {x}
  BY <1>1, <1>2
<1>4. Min(I) = x
  <2> HIDE DEF I
  <2> QED BY <1>3, MinIsLeast
<1>5. x \in 1..n
  OBVIOUS
<1>6. RemoveFirst(q, q[x]) = c
  BY <1>3, <1>4 DEF RemoveFirst, RemoveAt, SelectInSeq
<1> HIDE DEF I
<1>7. /\ c \in Seq(Procs)
      /\ Len(c) = n - 1
      /\ \A i \in 1..(n - 1) : c[i] = IF i < x THEN q[i] ELSE q[i + 1]
  <2> DEFINE f == SubSeq(q, 1, x - 1)
             b == SubSeq(q, x + 1, n)
  <2>1. f \in Seq(Procs) /\ Len(f) = x - 1 /\ \A i \in 1..(x - 1) : f[i] = q[i]
    BY <1>1, <1>5
  <2>2. b \in Seq(Procs) /\ Len(b) = n - x /\ \A i \in 1..(n - x) : b[i] = q[x + i]
    <3>1. x + 1 \in 1..(n + 1) /\ n \in x..n
      BY <1>1, <1>5
    <3>2. /\ b \in Seq(Procs)
          /\ Len(b) = IF x + 1 <= n THEN n - (x + 1) + 1 ELSE 0
          /\ \A i \in 1..(n - (x + 1) + 1) : b[i] = q[x + 1 + i - 1]
      BY <1>1, <3>1, SubSeqProperties
    <3>3. ASSUME NEW i \in 1..(n - x) PROVE b[i] = q[x + i]
      <4>1. i \in 1..(n - (x + 1) + 1) /\ x + 1 + i - 1 = x + i
        BY <1>1, <1>5
      <4> QED BY <3>2, <4>1
    <3>4. Len(b) = n - x
      <4> HIDE DEF b, n
      <4> QED BY <1>1, <1>5, <3>2
    <3> QED BY <3>2, <3>3, <3>4
  <2> HIDE DEF f, b
  <2>3. f \o b \in Seq(Procs) /\ Len(f \o b) = Len(f) + Len(b)
    BY <2>1, <2>2, ConcatProperties
  <2>4. Len(f \o b) = n - 1
    BY <1>1, <1>5, <2>1, <2>2, <2>3
  <2>5. ASSUME NEW i \in 1..(n - 1)
        PROVE  (f \o b)[i] = IF i < x THEN q[i] ELSE q[i + 1]
    <3>1. (f \o b)[i] = IF i <= x - 1 THEN f[i] ELSE b[i - (x - 1)]
      BY <1>1, <1>5, <2>1, <2>2, ConcatProperties
    <3>2. CASE i < x
      BY <1>1, <1>5, <2>1, <3>1, <3>2
    <3>3. CASE ~ (i < x)
      <4>1. i - (x - 1) \in 1..(n - x) /\ x + (i - (x - 1)) = i + 1
        BY <1>1, <1>5, <3>3
      <4> QED BY <1>1, <1>5, <2>2, <3>1, <3>3, <4>1
    <3> QED BY <3>2, <3>3
  <2> QED BY <2>3, <2>4, <2>5 DEF f, b
<1> HIDE DEF c
<1> QED BY <1>6, <1>7

LEMMA RemoveHolds ==
  ASSUME NEW q, NEW A, Holds(q, A), NEW p \in A
  PROVE  Holds(RemoveFirst(q, p), A \ {p})
<1> DEFINE n == Len(q)
           c == RemoveFirst(q, p)
<1>1. q \in Seq(Procs) /\ n \in Nat /\ DOMAIN q = 1..n
  BY LenProperties DEF Holds
<1>2. A = {q[i] : i \in 1..n}
  BY <1>1 DEF Holds, ToSet
<1>3. \A i, j \in 1..n : q[i] = q[j] => i = j
  BY <1>1 DEF Holds, IsInjective
<1>4. PICK x \in 1..n : q[x] = p
  BY <1>2
<1>5. x \in 1..n /\ q[x] = p
  BY <1>4
<1>6. /\ c \in Seq(Procs) /\ Len(c) = n - 1
      /\ \A i \in 1..(n - 1) : c[i] = IF i < x THEN q[i] ELSE q[i + 1]
  BY <1>1, <1>5, RemoveShifts DEF Holds
<1> HIDE DEF c
<1>7. /\ c \in Seq(Procs) /\ DOMAIN c = 1..(n - 1)
      /\ \A i \in 1..(n - 1) : c[i] = IF i < x THEN q[i] ELSE q[i + 1]
  BY <1>6, LenProperties
<1>8. IsInjective(c)
  <2> SUFFICES ASSUME NEW i \in 1..(n - 1), NEW j \in 1..(n - 1), c[i] = c[j] PROVE i = j
    BY <1>7 DEF IsInjective
  <2>1. i \in 1..n /\ j \in 1..n /\ i + 1 \in 1..n /\ j + 1 \in 1..n
    BY <1>1
  <2> QED BY <1>1, <1>3, <1>5, <1>7, <2>1
<1>9. ToSet(c) = A \ {p}
  <2>1. ToSet(c) = {c[i] : i \in 1..(n - 1)}
    BY <1>7 DEF ToSet
  <2>2. ASSUME NEW i \in 1..(n - 1) PROVE c[i] \in A \ {p}
    <3>1. PICK j \in 1..n : c[i] = q[j] /\ j # x
      BY <1>1, <1>5, <1>7
    <3> QED BY <1>2, <1>3, <1>5, <3>1
  <2>3. ASSUME NEW j \in 1..n, j # x PROVE q[j] \in ToSet(c)
    <3>1. CASE j < x
      <4>1. j \in 1..(n - 1) /\ c[j] = q[j]
        BY <1>1, <1>5, <1>7, <3>1
      <4> QED BY <2>1, <4>1
    <3>2. CASE j > x
      <4>1. j - 1 \in 1..(n - 1) /\ c[j - 1] = q[j]
        BY <1>1, <1>5, <1>7, <3>2
      <4> QED BY <2>1, <4>1
    <3> QED BY <1>1, <1>5, <2>3, <3>1, <3>2
  <2>4. ASSUME NEW y \in A \ {p} PROVE y \in ToSet(c)
    <3>1. PICK j \in 1..n : y = q[j]
      BY <1>2
    <3> QED BY <1>5, <2>3, <3>1
  <2> QED BY <2>1, <2>2, <2>4
<1> QED BY <1>7, <1>8, <1>9 DEF Holds, c
----------------------------------------------------------------------------
(* A scan over a nonempty set finds a best process.                         *)
LEMMA LeastNonempty ==
  ASSUME NEW S \in SUBSET Procs, S # {}, NEW key, \A p \in S : key[p] \in Nat
  PROVE  Least(S, key) # {} /\ Least(S, key) \subseteq S
<1> DEFINE T == {key[p] : p \in S}
<1>1. T \in SUBSET Nat /\ T # {}
  OBVIOUS
<1>2. PICK x \in T : \A y \in T : x <= y
  <2> HIDE DEF T
  <2> QED BY <1>1, LeastNat
<1>3. PICK p \in S : key[p] = x
  BY <1>2
<1>4. p \in Least(S, key)
  BY <1>2, <1>3 DEF Least
<1> QED BY <1>4 DEF Least

(* The keys of every algorithm are natural numbers.                         *)
LEMMA KeysAreNat ==
  ASSUME alg \in Algorithm, task \in [Procs -> Task], NEW s \in Simulator, NEW p \in Procs
  PROVE  /\ ArrivalTime[p] \in Nat
         /\ BurstTime[p] \in Nat
         /\ PID[p] \in Nat
         /\ RemainingTime(s)[p] \in Nat
         /\ VRuntime(s)[p] \in Nat
         /\ Level(s)[p] \in Nat
         /\ levelFor[p] \in Nat
         /\ effectivePriority(s)[p] \in Nat
<1>1. task[p] \in Task
  OBVIOUS
<1>2. s.pcb[p] \in PCB
  BY DEF Simulator
<1>3. ArrivalTime[p] \in Nat /\ BurstTime[p] \in Nat /\ PID[p] \in Nat
  BY <1>1 DEF ArrivalTime, BurstTime, PID, Task
<1>4. RemainingTime(s)[p] \in Nat /\ VRuntime(s)[p] \in Nat
  BY <1>2 DEF RemainingTime, VRuntime, PCB
<1>5. Level(s)[p] \in Nat
  <2>1. PICK D \in SUBSET Procs : s.levels \in [D -> 0..(NumLevels - 1)]
    BY DEF Simulator, Levels
  <2>2. CASE p \in D
    BY <2>1, <2>2 DEF Level
  <2>3. CASE p \notin D
    BY <2>1, <2>3 DEF Level
  <2> QED BY <2>2, <2>3
<1>6. levelFor[p] \in Nat
  BY <1>1, QuantumAssumption DEF levelFor, Task
<1>7. effectivePriority(s)[p] \in Nat
  <2>1. task[p].priority \in Int /\ task[p].arrivalTime \in Nat
    BY <1>1 DEF Task
  <2>2. s.pcb[p].lastExecuted \in Nat /\ s.currentTime \in Nat
    BY <1>2 DEF PCB, Simulator
  <2> QED BY <2>1, <2>2, QuantumAssumption DEF effectivePriority
<1> QED BY <1>3, <1>4, <1>5, <1>6, <1>7

(* Every algorithm's Schedule has a candidate when the ready queue is not   *)
(* empty.                                                                   *)
LEMMA BestNonempty ==
  ASSUME alg \in Algorithm, task \in [Procs -> Task], NEW s \in Simulator, ToSet(s.readyQueue) # {},
         ToSet(s.readyQueue) \subseteq Procs
  PROVE  Best(s) # {} /\ Best(s) \subseteq ToSet(s.readyQueue)
<1> DEFINE R == ToSet(s.readyQueue)
<1>1. \A p \in R : /\ ArrivalTime[p] \in Nat
         /\ BurstTime[p] \in Nat
         /\ PID[p] \in Nat
         /\ RemainingTime(s)[p] \in Nat
         /\ VRuntime(s)[p] \in Nat
         /\ Level(s)[p] \in Nat
         /\ levelFor[p] \in Nat
         /\ effectivePriority(s)[p] \in Nat
  BY KeysAreNat
<1>2. ASSUME NEW key, \A p \in R : key[p] \in Nat,
             NEW S \in SUBSET R, S # {}
      PROVE Least(S, key) # {} /\ Least(S, key) \in SUBSET R
  BY <1>2, LeastNonempty
<1>3. CASE alg = "fcfs"
  BY <1>1, <1>2, <1>3 DEF Best
<1>4. CASE alg = "sjf"
  BY <1>1, <1>2, <1>4 DEF Best
<1>5. CASE alg = "srtf"
  BY <1>1, <1>2, <1>5 DEF Best
<1>6. CASE alg = "priority" \/ alg = "priority_np"
  BY <1>1, <1>2, <1>6 DEF Best
<1>7. CASE alg = "cfs"
  BY <1>1, <1>2, <1>7 DEF Best
<1>8. CASE alg = "mlfq"
  BY <1>1, <1>2, <1>8 DEF Best
<1>9. CASE alg = "mlq"
  BY <1>1, <1>2, <1>9 DEF Best
<1>10. CASE alg = "rr" \/ alg = "lottery"
  BY <1>10 DEF Best
<1> QED BY <1>3, <1>4, <1>5, <1>6, <1>7, <1>8, <1>9, <1>10 DEF Algorithm

(* Schedule returns a process of the ready queue, whatever the algorithm    *)
(* and, for the lottery, whatever ticket is drawn.                          *)
LEMMA ScheduleFromQueue ==
  ASSUME alg \in Algorithm, task \in [Procs -> Task], NEW s \in Simulator,
         s.readyQueue # << >>, NEW draw \in Nat
  PROVE  /\ Schedule(s, draw) \in ToSet(s.readyQueue)
         /\ alg # "lottery" => Schedule(s, draw) \in Best(s)
<1> DEFINE q == s.readyQueue
           n == Len(q)
<1>1. q \in Seq(Procs) /\ n \in Nat /\ n > 0 /\ DOMAIN q = 1..n
  <2>1. q \in Seq(Procs)
    BY DEF Simulator
  <2> QED BY <2>1, LenProperties, EmptySeq
<1>2. ToSet(q) = {q[i] : i \in 1..n} /\ ToSet(q) \subseteq Procs /\ ToSet(q) # {}
  <2>1. ToSet(q) = {q[i] : i \in 1..n}
    BY <1>1 DEF ToSet
  <2>2. \A i \in 1..n : q[i] \in Procs
    BY <1>1, ElementOfSeq
  <2>3. 1 \in 1..n
    <3> HIDE DEF n
    <3> QED BY <1>1
  <2> HIDE DEF q, n
  <2> QED BY <2>1, <2>2, <2>3
<1>3. CASE alg = "lottery"
  <2>1. (draw % n) + 1 \in 1..n
    <3> HIDE DEF n
    <3>1. draw % n \in 0..(n - 1)
      BY <1>1
    <3> QED BY <1>1, <3>1
  <2> QED BY <1>2, <1>3, <2>1 DEF Schedule
<1>4. CASE alg # "lottery"
  <2> DEFINE I == {i \in 1..n : q[i] \in Best(s)}
  <2>1. Best(s) # {} /\ Best(s) \subseteq ToSet(q)
    BY <1>2, BestNonempty
  <2>2. I \in SUBSET Nat /\ I # {}
    BY <1>1, <1>2, <2>1
  <2>3. Min(I) \in I
    <3> HIDE DEF I
    <3> QED BY <2>2, MinIsLeast
  <2>4. FirstIndex(q, Best(s)) = Min(I)
    BY <2>2 DEF FirstIndex, SelectInSeq
  <2> QED BY <1>2, <1>4, <2>3, <2>4 DEF Schedule
<1> QED BY <1>3, <1>4
(* Round robin takes the process at the head of the queue.                  *)
LEMMA RoundRobinTakesHead ==
  ASSUME alg = "rr", NEW s \in Simulator, s.readyQueue # << >>, NEW draw
  PROVE  Schedule(s, draw) = s.readyQueue[1] /\ 1 \in 1..Len(s.readyQueue)
<1> DEFINE q == s.readyQueue
           I == {i \in 1..Len(q) : q[i] \in ToSet(q)}
<1>1. q \in Seq(Procs) /\ Len(q) \in Nat /\ Len(q) > 0 /\ DOMAIN q = 1..Len(q)
  <2>1. q \in Seq(Procs)
    BY DEF Simulator
  <2> QED BY <2>1, LenProperties, EmptySeq
<1>2. Best(s) = ToSet(q)
  BY DEF Best
<1>3. I = 1..Len(q)
  BY <1>1 DEF ToSet
<1>4. PICK n \in Nat : n = Len(q)
  BY <1>1
<1>5. 1 \in 1..n
  BY <1>1, <1>4
<1>6. Min(1..n) = 1
  <2>1. 1..n # {}
    BY <1>5
  <2>2. 1..n \in SUBSET Nat
    OBVIOUS
  <2>3. Min(1..n) \in 1..n /\ \A y \in 1..n : Min(1..n) <= y
    BY <2>1, <2>2, MinIsLeast
  <2> QED BY <1>5, <2>3
<1>7. Min(I) = 1 /\ I # {}
  BY <1>3, <1>4, <1>5, <1>6
<1>8. FirstIndex(q, ToSet(q)) = 1
  BY <1>7 DEF FirstIndex, SelectInSeq
<1> QED BY <1>2, <1>4, <1>5, <1>8 DEF Schedule

----------------------------------------------------------------------------
(* The comparison of every scan is lexicographic in at most three keys: an  *)
(* algorithm with fewer has constant ones for the rest.                     *)
Lex(a, b, c, p, r) ==
    \/ a[p] < a[r]
    \/ a[p] = a[r] /\ b[p] < b[r]
    \/ a[p] = a[r] /\ b[p] = b[r] /\ c[p] < c[r]
NatKey(key) == \A p \in Procs : key[p] \in Nat
Constant == [p \in Procs |-> 0]

LEMMA LeastConstant ==
  ASSUME NEW S, S \subseteq Procs
  PROVE  NatKey(Constant) /\ Least(S, Constant) = S
BY DEF Least, Constant, NatKey

LEMMA BestIsLex ==
  ASSUME alg \in Algorithm, alg # "lottery", task \in [Procs -> Task], NEW s \in Simulator,
         ToSet(s.readyQueue) \subseteq Procs
  PROVE  \E a, b, c :
           /\ NatKey(a) /\ NatKey(b) /\ NatKey(c)
           /\ \A p, r \in Procs : Better(s, p, r) <=> Lex(a, b, c, p, r)
           /\ Best(s) = Least(Least(Least(ToSet(s.readyQueue), a), b), c)
<1>1. PICK R, z : R = ToSet(s.readyQueue) /\ z = Constant
  OBVIOUS
<1>2. /\ NatKey(z) /\ \A p \in Procs : z[p] = 0
      /\ \A key : Least(Least(R, key), z) = Least(R, key)
      /\ \A S \in SUBSET R : Least(S, z) = S
      /\ R \subseteq Procs
  <2>1. \A key : Least(R, key) \subseteq Procs
    BY <1>1 DEF Least
  <2>2. NatKey(z) /\ \A p \in Procs : z[p] = 0
    BY <1>1, LeastConstant DEF Constant
  <2>3. \A S : S \subseteq Procs => Least(S, z) = S
    BY <1>1, LeastConstant
  <2> QED BY <1>1, <2>1, <2>2, <2>3
<1>3. \A S, key : Least(S, key) \subseteq S
  BY DEF Least
<1>4. PICK at, burst, pid, left, vrt, level, fixed, prio :
        /\ at = ArrivalTime /\ burst = BurstTime /\ pid = PID /\ left = RemainingTime(s)
        /\ vrt = VRuntime(s) /\ level = Level(s) /\ fixed = levelFor
        /\ prio = effectivePriority(s)
  OBVIOUS
<1>5. /\ NatKey(at) /\ NatKey(burst) /\ NatKey(pid) /\ NatKey(left) /\ NatKey(vrt)
      /\ NatKey(level) /\ NatKey(fixed) /\ NatKey(prio)
  BY <1>4, KeysAreNat DEF NatKey
<1> DEFINE Fits(a, b, c) ==
             /\ NatKey(a) /\ NatKey(b) /\ NatKey(c)
             /\ \A p, r \in Procs : Better(s, p, r) <=> Lex(a, b, c, p, r)
             /\ Best(s) = Least(Least(Least(R, a), b), c)
<1>6. SUFFICES \E a, b, c : Fits(a, b, c)
  BY <1>1
<1>7. CASE alg = "fcfs"
  <2>1. \A p, r \in Procs : Better(s, p, r) <=> Lex(at, z, z, p, r)
    BY <1>2, <1>4, <1>7 DEF Better, EarlierArrival, Lex
  <2>2. Best(s) = Least(Least(Least(R, at), z), z)
    BY <1>1, <1>2, <1>4, <1>7 DEF Best
  <2>3. Fits(at, z, z)
    BY <1>2, <1>5, <2>1, <2>2
  <2> HIDE DEF Fits
  <2> QED BY <2>3
<1>8. ASSUME NEW a, NEW b, NatKey(a), NatKey(b),
             \A p, r \in Procs :
                Better(s, p, r) <=> a[p] < a[r] \/ (a[p] = a[r] /\ b[p] < b[r]),
             Best(s) = Least(Least(R, a), b)
      PROVE  Fits(a, b, z)
  <2>1. \A p, r \in Procs : Better(s, p, r) <=> Lex(a, b, z, p, r)
    BY <1>2, <1>8 DEF Lex
  <2>2. Least(Least(R, a), b) \in SUBSET R
    BY <1>3
  <2>3. Best(s) = Least(Least(Least(R, a), b), z)
    BY <1>2, <1>8, <2>2
  <2> QED BY <1>2, <1>8, <2>1, <2>3
<1>9. CASE alg = "sjf"
  <2>1. \A p, r \in Procs :
           Better(s, p, r) <=> burst[p] < burst[r] \/ (burst[p] = burst[r] /\ at[p] < at[r])
    BY <1>4, <1>9 DEF Better, ShorterJob, EarlierArrival
  <2>2. Best(s) = Least(Least(R, burst), at)
    BY <1>1, <1>4, <1>9 DEF Best
  <2>3. Fits(burst, at, z)
    BY <1>5, <1>8, <2>1, <2>2
  <2> HIDE DEF Fits
  <2> QED BY <2>3
<1>10. CASE alg = "srtf"
  <2>1. \A p, r \in Procs :
           Better(s, p, r) <=> left[p] < left[r] \/ (left[p] = left[r] /\ at[p] < at[r])
    BY <1>4, <1>10 DEF Better, ShorterRemaining, EarlierArrival
  <2>2. Best(s) = Least(Least(R, left), at)
    BY <1>1, <1>4, <1>10 DEF Best
  <2>3. Fits(left, at, z)
    BY <1>5, <1>8, <2>1, <2>2
  <2> HIDE DEF Fits
  <2> QED BY <2>3
<1>11. CASE alg \in {"priority", "priority_np"}
  <2>1. \A p, r \in Procs :
           Better(s, p, r) <=> prio[p] < prio[r] \/ (prio[p] = prio[r] /\ at[p] < at[r])
    BY <1>4, <1>11 DEF Better, HigherPriority, EarlierArrival
  <2>2. Best(s) = Least(Least(R, prio), at)
    BY <1>1, <1>4, <1>11 DEF Best
  <2>3. Fits(prio, at, z)
    BY <1>5, <1>8, <2>1, <2>2
  <2> HIDE DEF Fits
  <2> QED BY <2>3
<1>12. CASE alg = "cfs"
  <2>1. \A p, r \in Procs :
           Better(s, p, r) <=> vrt[p] < vrt[r] \/ (vrt[p] = vrt[r] /\ pid[p] < pid[r])
    BY <1>4, <1>12 DEF Better, SmallerVRuntime
  <2>2. Best(s) = Least(Least(R, vrt), pid)
    BY <1>1, <1>4, <1>12 DEF Best
  <2>3. Fits(vrt, pid, z)
    BY <1>5, <1>8, <2>1, <2>2
  <2> HIDE DEF Fits
  <2> QED BY <2>3
<1>13. CASE alg = "mlfq"
  <2>1. \A p, r \in Procs : Better(s, p, r) <=> Lex(level, at, pid, p, r)
    BY <1>4, <1>13 DEF Better, HigherLevel, EarlierArrival, Lex
  <2>2. Best(s) = Least(Least(Least(R, level), at), pid)
    BY <1>1, <1>4, <1>13 DEF Best
  <2>3. Fits(level, at, pid)
    BY <1>5, <2>1, <2>2
  <2> HIDE DEF Fits
  <2> QED BY <2>3
<1>14. CASE alg = "mlq"
  <2>1. \A p, r \in Procs : Better(s, p, r) <=> Lex(fixed, at, pid, p, r)
    BY <1>4, <1>14 DEF Better, HigherLevel, EarlierArrival, Lex
  <2>2. Best(s) = Least(Least(Least(R, fixed), at), pid)
    BY <1>1, <1>4, <1>14 DEF Best
  <2>3. Fits(fixed, at, pid)
    BY <1>5, <2>1, <2>2
  <2> HIDE DEF Fits
  <2> QED BY <2>3
<1>15. CASE alg = "rr"
  <2>1. \A p, r \in Procs : Better(s, p, r) <=> Lex(z, z, z, p, r)
    BY <1>2, <1>15 DEF Better, Lex
  <2>2. Best(s) = Least(Least(Least(R, z), z), z)
    BY <1>1, <1>2, <1>15 DEF Best
  <2>3. Fits(z, z, z)
    BY <1>2, <2>1, <2>2
  <2> HIDE DEF Fits
  <2> QED BY <2>3
<1> HIDE DEF Fits
<1> QED BY <1>7, <1>9, <1>10, <1>11, <1>12, <1>13, <1>14, <1>15 DEF Algorithm

(* The members of Best are those that no other one is better than, and      *)
(* "better" can be chained.                                                 *)
LEMMA BetterOrders ==
  ASSUME alg \in Algorithm, alg # "lottery", task \in [Procs -> Task], NEW s \in Simulator,
         ToSet(s.readyQueue) \subseteq Procs
  PROVE  /\ \A p \in Procs : ~ Better(s, p, p)
         /\ \A p, r, o \in Procs : Better(s, p, r) /\ Better(s, r, o) => Better(s, p, o)
         /\ \A p, r, o \in Procs : Better(s, p, o) => Better(s, p, r) \/ Better(s, r, o)
         /\ \A p \in ToSet(s.readyQueue) :
              p \in Best(s) <=> \A r \in ToSet(s.readyQueue) : ~ Better(s, r, p)
<1>1. PICK a, b, c :
        /\ NatKey(a) /\ NatKey(b) /\ NatKey(c)
        /\ \A p, r \in Procs : Better(s, p, r) <=> Lex(a, b, c, p, r)
        /\ Best(s) = Least(Least(Least(ToSet(s.readyQueue), a), b), c)
  BY BestIsLex
<1>2. \A p \in Procs : a[p] \in Nat /\ b[p] \in Nat /\ c[p] \in Nat
  BY <1>1 DEF NatKey
<1>3. PICK R : R = ToSet(s.readyQueue)
  OBVIOUS
<1>4. \A p \in Procs : ~ Lex(a, b, c, p, p)
  BY <1>2 DEF Lex
<1>5. ASSUME NEW p \in Procs, NEW r \in Procs, NEW o \in Procs
      PROVE  /\ Lex(a, b, c, p, r) /\ Lex(a, b, c, r, o) => Lex(a, b, c, p, o)
             /\ Lex(a, b, c, p, o) => Lex(a, b, c, p, r) \/ Lex(a, b, c, r, o)
  BY <1>2 DEF Lex
<1>6. ASSUME NEW p \in R
      PROVE  p \in Least(Least(Least(R, a), b), c) <=> \A r \in R : ~ Lex(a, b, c, r, p)
  <2>1. R \subseteq Procs
    BY <1>3
  <2>2. ASSUME p \in Least(Least(Least(R, a), b), c), NEW r \in R
        PROVE  ~ Lex(a, b, c, r, p)
    <3>1. /\ p \in Least(R, a) /\ p \in Least(Least(R, a), b)
          /\ a[p] <= a[r]
          /\ r \in Least(R, a) => b[p] <= b[r]
          /\ r \in Least(Least(R, a), b) => c[p] <= c[r]
      BY <2>2 DEF Least
    <3>2. a[r] = a[p] => r \in Least(R, a)
      BY <3>1 DEF Least
    <3>3. a[r] = a[p] /\ b[r] = b[p] => r \in Least(Least(R, a), b)
      BY <3>1, <3>2 DEF Least
    <3> QED BY <1>2, <2>1, <3>1, <3>2, <3>3 DEF Lex
  <2>3. ASSUME \A r \in R : ~ Lex(a, b, c, r, p)
        PROVE  p \in Least(Least(Least(R, a), b), c)
    <3>1. ASSUME NEW r \in R
          PROVE  /\ a[p] <= a[r]
                 /\ a[r] = a[p] => b[p] <= b[r]
                 /\ a[r] = a[p] /\ b[r] = b[p] => c[p] <= c[r]
      BY <1>2, <2>1, <2>3 DEF Lex
    <3>2. p \in Least(R, a)
      BY <3>1 DEF Least
    <3>3. \A r \in Least(R, a) : r \in R /\ a[r] = a[p]
      BY <1>2, <2>1, <3>1, <3>2 DEF Least
    <3>4. p \in Least(Least(R, a), b)
      BY <3>1, <3>2, <3>3 DEF Least
    <3>5. \A r \in Least(Least(R, a), b) : r \in R /\ a[r] = a[p] /\ b[r] = b[p]
      <4> SUFFICES ASSUME NEW r \in Least(Least(R, a), b)
                   PROVE  r \in R /\ a[r] = a[p] /\ b[r] = b[p]
        OBVIOUS
      <4>1. r \in Least(R, a) /\ b[r] <= b[p]
        BY <3>2 DEF Least
      <4>2. r \in R /\ a[r] = a[p] /\ b[p] <= b[r]
        BY <3>1, <3>3, <4>1
      <4> QED BY <1>2, <2>1, <4>1, <4>2
    <3> QED BY <3>1, <3>4, <3>5 DEF Least
  <2> QED BY <2>2, <2>3
<1>7. \A p, r, o \in Procs :
        /\ Better(s, p, r) /\ Better(s, r, o) => Better(s, p, o)
        /\ Better(s, p, o) => Better(s, p, r) \/ Better(s, r, o)
  BY <1>1, <1>5
<1>8. \A p \in ToSet(s.readyQueue) :
              p \in Best(s) <=> \A r \in ToSet(s.readyQueue) : ~ Better(s, r, p)
  BY <1>1, <1>3, <1>6
<1> QED BY <1>1, <1>4, <1>7, <1>8
----------------------------------------------------------------------------
(* The scan, position by position.  Its definition folds over the sets of   *)
(* positions of Tail(readyQueue), largest first; Seen is the set of         *)
(* positions of the queue that such a set stands for.                       *)
ScanTable(f, s) ==
    f = [t \in SUBSET DOMAIN Tail(s.readyQueue) |->
            IF t = {} THEN Head(s.readyQueue)
            ELSE IF Better(s, Tail(s.readyQueue)[Max(t)], f[t \ {Max(t)}])
                 THEN Tail(s.readyQueue)[Max(t)] ELSE f[t \ {Max(t)}]]
Seen(t) == {1} \cup {i + 1 : i \in t}

(* Position k of the queue q wins among those in W: nobody there is better, *)
(* and it is better than those before it.                                   *)
Wins(s, q, k, W) ==
    /\ k \in W
    /\ \A j \in W : ~ Better(s, q[j], q[k]) /\ (j < k => Better(s, q[k], q[j]))

LEMMA ScanIsFold ==
  ASSUME NEW s
  PROVE  Scan(s) = (CHOOSE f : ScanTable(f, s))[DOMAIN Tail(s.readyQueue)]
BY DEF Scan, FoldLeft, MapThenFoldSet, ScanTable

(* The largest element of a nonempty set of positions, as Max chooses it.   *)
LEMMA MaxIsGreatest ==
  ASSUME NEW n \in Nat, NEW t \in SUBSET (1..n), t # {}
  PROVE  Max(t) \in t /\ \A y \in t : y <= Max(t)
<1> DEFINE T == {n - x : x \in t}
<1>1. T \in SUBSET Nat /\ T # {}
  <2>1. \A x \in t : n - x \in Nat
    OBVIOUS
  <2>2. T \in SUBSET Nat
    BY <2>1
  <2> QED BY <2>2
<1>2. PICK x \in T : \A y \in T : x <= y
  <2> HIDE DEF T
  <2> QED BY <1>1, LeastNat
<1>3. PICK m \in t : x = n - m
  BY <1>2
<1>4. ASSUME NEW y \in t PROVE m >= y
  <2>1. n - y \in T
    OBVIOUS
  <2>2. n - m <= n - y
    BY <1>2, <1>3, <2>1
  <2> QED BY <2>2
<1>5. Max(t) \in t /\ \A y \in t : Max(t) >= y
  BY <1>4 DEF Max
<1> QED BY <1>5

(* Nobody else wins.                                                        *)
LEMMA WinnerUnique ==
  ASSUME NEW s, NEW q, NEW W \in SUBSET Nat, NEW k, NEW l, Wins(s, q, k, W), Wins(s, q, l, W)
  PROVE  k = l
<1>1. k \in Nat /\ l \in Nat /\ k \in W /\ l \in W
  BY DEF Wins
<1>2. ~ (k < l) /\ ~ (l < k)
  BY <1>1 DEF Wins
<1> QED BY <1>1, <1>2

(* The next position wins if it is better than the winner so far, which     *)
(* otherwise remains the winner.                                            *)
LEMMA WinnerNext ==
  ASSUME alg \in Algorithm, alg # "lottery", task \in [Procs -> Task], NEW s \in Simulator,
         NEW q, q = s.readyQueue, NEW W \in SUBSET (1..Len(q)), NEW k, Wins(s, q, k, W),
         NEW m \in 1..Len(q), \A j \in W : j < m
  PROVE  Wins(s, q, IF Better(s, q[m], q[k]) THEN m ELSE k, W \cup {m})
<1>1. q \in Seq(Procs) /\ \A j \in 1..Len(q) : q[j] \in Procs
  <2>1. q \in Seq(Procs)
    BY DEF Simulator
  <2> QED BY <2>1, ElementOfSeq
<1>2. ToSet(q) \subseteq Procs
  BY <1>1, LenProperties DEF ToSet
<1>3. /\ \A p \in Procs : ~ Better(s, p, p)
      /\ \A p, r, o \in Procs : Better(s, p, r) /\ Better(s, r, o) => Better(s, p, o)
      /\ \A p, r, o \in Procs : Better(s, p, o) => Better(s, p, r) \/ Better(s, r, o)
  BY <1>2, BetterOrders
<1>4. k \in W /\ k \in 1..Len(q) /\ k < m /\ m \in Nat /\ Len(q) \in Nat
  BY <1>1, LenProperties DEF Wins
<1>5. CASE Better(s, q[m], q[k])
  <2>1. ASSUME NEW j \in W PROVE ~ Better(s, q[j], q[m]) /\ Better(s, q[m], q[j])
    <3>1. q[j] \in Procs /\ q[m] \in Procs /\ q[k] \in Procs /\ ~ Better(s, q[j], q[k])
      BY <1>1, <1>4 DEF Wins
    <3> QED BY <1>3, <1>5, <3>1
  <2>2. ~ Better(s, q[m], q[m]) /\ ~ (m < m)
    BY <1>1, <1>3, <1>4
  <2> QED BY <1>5, <2>1, <2>2 DEF Wins
<1>6. CASE ~ Better(s, q[m], q[k])
  <2>1. ~ (m < k)
    BY <1>4
  <2> QED BY <1>4, <1>6, <2>1 DEF Wins
<1> QED BY <1>5, <1>6

(* A set of positions without its largest.                                  *)
Tops(n, t, m) ==
    /\ m \in 1..n
    /\ t \ {m} \in SUBSET (1..(m - 1))
    /\ Seen(t) = Seen(t \ {m}) \cup {m + 1}
    /\ \A j \in Seen(t \ {m}) : j < m + 1
    /\ Seen(t \ {m}) \in SUBSET (1..(n + 1))

LEMMA SeenNext ==
  ASSUME NEW n \in Nat, NEW t \in SUBSET (1..n), t # {}, NEW m, m = Max(t)
  PROVE  Tops(n, t, m)
<1>1. m \in t /\ \A y \in t : y <= m
  BY MaxIsGreatest
<1>2. \A y \in t : y \in Nat /\ 1 <= y /\ y <= n
  OBVIOUS
<1>3. \A y \in t \ {m} : y \in 1..(m - 1) /\ y + 1 < m + 1 /\ y + 1 \in 1..(n + 1)
  BY <1>1, <1>2
<1>4. 1 < m + 1 /\ 1 \in 1..(n + 1)
  BY <1>1, <1>2
<1>5. Seen(t) = Seen(t \ {m}) \cup {m + 1}
  BY <1>1 DEF Seen
<1>6. \A j \in Seen(t \ {m}) : j < m + 1 /\ j \in 1..(n + 1)
  BY <1>3, <1>4 DEF Seen
<1> QED BY <1>1, <1>3, <1>5, <1>6 DEF Tops

(* Every set of positions has a winner.                                     *)
LEMMA WinnerExists ==
  ASSUME alg \in Algorithm, alg # "lottery", task \in [Procs -> Task], NEW s \in Simulator,
         NEW q, q = s.readyQueue, NEW n \in Nat, Len(q) = n + 1, NEW t \in SUBSET (1..n)
  PROVE  \E k : Wins(s, q, k, Seen(t))
<1> DEFINE T == {i \in 0..n : \E r \in SUBSET (1..i) : ~ \E k : Wins(s, q, k, Seen(r))}
<1> SUFFICES ASSUME T # {} PROVE FALSE
  <2>1. n \in 0..n
    OBVIOUS
  <2> QED BY <2>1
<1>1. PICK i \in T : \A j \in T : i <= j
  <2>1. T \in SUBSET Nat
    OBVIOUS
  <2> HIDE DEF T
  <2> QED BY <2>1, LeastNat
<1>2. PICK r \in SUBSET (1..i) : ~ \E k : Wins(s, q, k, Seen(r))
  BY <1>1
<1>3. i \in Nat /\ i <= n
  BY <1>1
<1>4. q \in Seq(Procs) /\ \A j \in 1..Len(q) : q[j] \in Procs
  <2>1. q \in Seq(Procs)
    BY DEF Simulator
  <2> QED BY <2>1, ElementOfSeq
<1>5. ToSet(q) \subseteq Procs
  BY <1>4, LenProperties DEF ToSet
<1>6. r # {}
  <2> SUFFICES ASSUME r = {} PROVE FALSE
    OBVIOUS
  <2>1. Seen(r) = {1}
    BY DEF Seen
  <2>2. q[1] \in Procs
    BY <1>4
  <2>3. ~ Better(s, q[1], q[1]) /\ ~ (1 < 1)
    BY <1>5, <2>2, BetterOrders
  <2>4. Wins(s, q, 1, Seen(r))
    BY <2>1, <2>3 DEF Wins
  <2> QED BY <1>2, <2>4
<1>7. PICK m : m = Max(r)
  OBVIOUS
<1>8. /\ m \in 1..i /\ r \ {m} \in SUBSET (1..(m - 1))
      /\ Seen(r) = Seen(r \ {m}) \cup {m + 1}
      /\ \A j \in Seen(r \ {m}) : j < m + 1
      /\ Seen(r \ {m}) \in SUBSET (1..(i + 1))
  <2>1. Tops(i, r, m)
    BY <1>3, <1>6, <1>7, SeenNext
  <2> QED BY <2>1 DEF Tops
<1>9. m - 1 \in 0..n /\ ~ (i <= m - 1) /\ m + 1 \in 1..Len(q) /\ 1..(i + 1) \subseteq 1..Len(q)
  BY <1>3, <1>8
<1>10. m - 1 \notin T
  <2> HIDE DEF T
  <2> QED BY <1>1, <1>9
<1>11. PICK k : Wins(s, q, k, Seen(r \ {m}))
  BY <1>8, <1>9, <1>10
<1>12. Seen(r \ {m}) \in SUBSET (1..Len(q))
  BY <1>8, <1>9
<1>13. \E l : Wins(s, q, l, Seen(r \ {m}) \cup {m + 1})
  BY <1>8, <1>9, <1>11, <1>12, WinnerNext
<1> QED BY <1>2, <1>8, <1>13

(* So the table of the scan exists, and it has the winners.                 *)
Winner(s, q, t) == CHOOSE k : Wins(s, q, k, Seen(t))
Challenge(s, p, best) == IF Better(s, p, best) THEN p ELSE best
Follows(s, q, t) ==
    q[Winner(s, q, t)] =
        IF t = {} THEN q[1]
        ELSE Challenge(s, q[Max(t) + 1], q[Winner(s, q, t \ {Max(t)})])

LEMMA WinnerStep ==
  ASSUME alg \in Algorithm, alg # "lottery", task \in [Procs -> Task], NEW s \in Simulator,
         NEW q, q = s.readyQueue, NEW n \in Nat, Len(q) = n + 1, NEW t \in SUBSET (1..n)
  PROVE  Follows(s, q, t)
<1>1. Wins(s, q, Winner(s, q, t), Seen(t))
  BY WinnerExists DEF Winner
<1>2. CASE t = {}
  <2>1. Seen(t) = {1}
    BY <1>2 DEF Seen
  <2>2. Winner(s, q, t) = 1
    BY <1>1, <2>1 DEF Wins
  <2> QED BY <1>2, <2>2 DEF Follows
<1>3. CASE t # {}
  <2>1. PICK m, k : m = Max(t) /\ k = Winner(s, q, t \ {m})
    OBVIOUS
  <2>2. /\ m \in 1..n /\ t \ {m} \in SUBSET (1..(m - 1))
        /\ Seen(t) = Seen(t \ {m}) \cup {m + 1}
        /\ \A j \in Seen(t \ {m}) : j < m + 1
        /\ Seen(t \ {m}) \in SUBSET (1..(n + 1))
    <3>1. Tops(n, t, m)
      BY <1>3, <2>1, SeenNext
    <3> QED BY <3>1 DEF Tops
  <2>3. t \ {m} \in SUBSET (1..n) /\ m + 1 \in 1..Len(q)
    BY <2>2
  <2>4. Wins(s, q, k, Seen(t \ {m}))
    BY <2>1, <2>3, WinnerExists DEF Winner
  <2>5. PICK l : l = IF Better(s, q[m + 1], q[k]) THEN m + 1 ELSE k
    OBVIOUS
  <2>6. Wins(s, q, l, Seen(t \ {m}) \cup {m + 1})
    BY <2>2, <2>3, <2>4, <2>5, WinnerNext
  <2>7. Seen(t) \in SUBSET Nat
    <3>1. \A i \in t : i + 1 \in Nat
      OBVIOUS
    <3> QED BY <3>1 DEF Seen
  <2>8. l = Winner(s, q, t)
    BY <1>1, <2>2, <2>6, <2>7, WinnerUnique
  <2>9. q[l] = Challenge(s, q[m + 1], q[k])
    BY <2>5 DEF Challenge
  <2> QED BY <1>3, <2>1, <2>8, <2>9 DEF Follows
<1> QED BY <1>2, <1>3

LEMMA ScanWins ==
  ASSUME alg \in Algorithm, alg # "lottery", task \in [Procs -> Task], NEW s \in Simulator,
         NEW q, q = s.readyQueue, NEW n \in Nat, Len(q) = n + 1
  PROVE  Scan(s) = q[Winner(s, q, 1..n)]
<1>1. PICK tail : tail = Tail(q)
  OBVIOUS
<1>2. q \in Seq(Procs) /\ q # << >>
  <2>1. q \in Seq(Procs)
    BY DEF Simulator
  <2> QED BY <2>1, EmptySeq
<1>3. /\ DOMAIN tail = 1..n /\ Head(q) = q[1]
      /\ \A i \in 1..n : tail[i] = q[i + 1]
  BY <1>1, <1>2, HeadTailProperties, LenProperties
<1> DEFINE F == [t \in SUBSET (1..n) |-> q[Winner(s, q, t)]]
           Step(f, t) == IF t = {} THEN q[1]
                         ELSE Challenge(s, q[Max(t) + 1], f[t \ {Max(t)}])
           D == SUBSET (1..n)
<1>4. ASSUME NEW f
      PROVE  ScanTable(f, s) <=> f = [t \in D |-> Step(f, t)]
  <2>1. ASSUME NEW t \in D
        PROVE  Step(f, t) = IF t = {} THEN Head(s.readyQueue)
            ELSE IF Better(s, Tail(s.readyQueue)[Max(t)], f[t \ {Max(t)}])
                 THEN Tail(s.readyQueue)[Max(t)] ELSE f[t \ {Max(t)}]
    <3>1. CASE t = {}
      BY <1>3, <3>1
    <3>2. CASE t # {}
      <4>1. Max(t) \in 1..n
        BY <3>2, MaxIsGreatest
      <4>2. tail[Max(t)] = q[Max(t) + 1]
        BY <1>3, <4>1
      <4> QED BY <1>1, <3>2, <4>2 DEF Challenge
    <3> QED BY <3>1, <3>2
  <2>2. D = SUBSET DOMAIN Tail(s.readyQueue)
    BY <1>1, <1>3
  <2> HIDE DEF Step, D
  <2> QED BY <2>1, <2>2 DEF ScanTable
<1>5. ASSUME NEW t \in D PROVE Step(F, t) = q[Winner(s, q, t)]
  <2>1. CASE t = {}
    <3>1. Follows(s, q, t)
      BY WinnerStep
    <3> QED BY <2>1, <3>1 DEF Follows
  <2>2. CASE t # {}
    <3>1. PICK m : m = Max(t)
      OBVIOUS
    <3>2. t \ {m} \in D
      OBVIOUS
    <3>3. F[t \ {m}] = q[Winner(s, q, t \ {m})]
      BY <3>2
    <3>4. q[Winner(s, q, t)] = Challenge(s, q[Max(t) + 1], q[Winner(s, q, t \ {Max(t)})])
      <4>1. Follows(s, q, t)
        BY WinnerStep
      <4> QED BY <2>2, <4>1 DEF Follows
    <3> HIDE DEF F
    <3> QED BY <2>2, <3>1, <3>3, <3>4
  <2> QED BY <2>1, <2>2
<1>6. ScanTable(F, s)
  <2>1. F = [t \in D |-> Step(F, t)]
    <3> HIDE DEF Step
    <3> QED BY <1>5
  <2> HIDE DEF F, Step, D
  <2> QED BY <1>4, <2>1
<1>7. PICK f : f = CHOOSE g : ScanTable(g, s)
  OBVIOUS
<1>8. ScanTable(f, s)
  <2> HIDE DEF F
  <2> QED BY <1>6, <1>7
<1>9. \A t \in D : f[t] = Step(f, t)
  <2> HIDE DEF Step, D
  <2>1. f = [t \in D |-> Step(f, t)]
    BY <1>4, <1>8
  <2> QED BY <2>1
<1> DEFINE T == {i \in 0..n : \E t \in SUBSET (1..i) : f[t] # q[Winner(s, q, t)]}
<1>10. T = {}
  <2> SUFFICES ASSUME T # {} PROVE FALSE
    OBVIOUS
  <2>1. PICK i \in T : \A j \in T : i <= j
    <3>1. T \in SUBSET Nat
      OBVIOUS
    <3> HIDE DEF T
    <3> QED BY <3>1, LeastNat
  <2>2. PICK t \in SUBSET (1..i) : f[t] # q[Winner(s, q, t)]
    BY <2>1
  <2>3. i \in Nat /\ i <= n
    BY <2>1
  <2>4. t \in D
    BY <2>3
  <2>5. t # {}
    <3> SUFFICES ASSUME t = {} PROVE FALSE
      OBVIOUS
    <3>1. f[t] = q[1]
      BY <1>9, <2>4
    <3>2. q[Winner(s, q, t)] = q[1]
      <4>1. Follows(s, q, t)
        BY <2>4, WinnerStep
      <4> QED BY <4>1 DEF Follows
    <3> QED BY <2>2, <3>1, <3>2
  <2>6. PICK m : m = Max(t)
    OBVIOUS
  <2>7. m \in 1..i /\ t \ {m} \in SUBSET (1..(m - 1))
    <3>1. Tops(i, t, m)
      BY <2>3, <2>5, <2>6, SeenNext
    <3> QED BY <3>1 DEF Tops
  <2>8. m - 1 \in 0..n /\ ~ (i <= m - 1)
    BY <2>3, <2>7
  <2>9. m - 1 \notin T
    <3> HIDE DEF T
    <3> QED BY <2>1, <2>8
  <2>10. f[t \ {m}] = q[Winner(s, q, t \ {m})]
    BY <2>7, <2>8, <2>9
  <2>11. f[t] = q[Winner(s, q, t)]
    <3>1. f[t] = Challenge(s, q[Max(t) + 1], f[t \ {Max(t)}])
      BY <1>9, <2>4, <2>5
    <3>2. q[Winner(s, q, t)] = Challenge(s, q[Max(t) + 1], q[Winner(s, q, t \ {Max(t)})])
      <4>1. Follows(s, q, t)
        BY <2>4, WinnerStep
      <4> QED BY <2>5, <4>1 DEF Follows
    <3> QED BY <2>6, <2>10, <3>1, <3>2
  <2> QED BY <2>2, <2>11
<1>11. f[1..n] = q[Winner(s, q, 1..n)]
  <2>1. n \in 0..n
    OBVIOUS
  <2>2. n \notin T
    <3> HIDE DEF T
    <3> QED BY <1>10
  <2> QED BY <2>1, <2>2
<1>12. Scan(s) = f[1..n]
  BY <1>1, <1>3, <1>7, ScanIsFold
<1> QED BY <1>11, <1>12

(* Schedule is the scan.                                                    *)
LEMMA ScheduleScans ==
  ASSUME alg \in Algorithm, alg # "lottery", task \in [Procs -> Task], NEW s \in Simulator,
         s.readyQueue # << >>
  PROVE  Schedule(s, 0) = Scan(s)
<1>1. PICK q : q = s.readyQueue
  OBVIOUS
<1>2. q \in Seq(Procs) /\ Len(q) \in Nat /\ DOMAIN q = 1..Len(q) /\ Len(q) > 0
  <2>1. q \in Seq(Procs)
    BY <1>1 DEF Simulator
  <2> QED BY <1>1, <2>1, LenProperties, EmptySeq
<1>3. PICK n \in Nat : Len(q) = n + 1
  <2>1. Len(q) - 1 \in Nat /\ Len(q) = (Len(q) - 1) + 1
    BY <1>2
  <2> QED BY <2>1
<1>4. PICK k : k = Winner(s, q, 1..n)
  OBVIOUS
<1>5. Seen(1..n) = 1..Len(q)
  <2>1. \A j \in 1..(n + 1) : j = 1 \/ j - 1 \in 1..n
    OBVIOUS
  <2>2. \A j \in 1..(n + 1) : j = (j - 1) + 1
    OBVIOUS
  <2>3. \A j \in 1..(n + 1) : j \in Seen(1..n)
    BY <2>1, <2>2 DEF Seen
  <2>4. \A j \in Seen(1..n) : j \in 1..(n + 1)
    BY DEF Seen
  <2> QED BY <1>3, <2>3, <2>4
<1>6. Wins(s, q, k, 1..Len(q))
  <2>1. 1..n \in SUBSET (1..n)
    OBVIOUS
  <2>2. \E l : Wins(s, q, l, Seen(1..n))
    BY <1>1, <1>3, <2>1, WinnerExists
  <2>3. Wins(s, q, k, Seen(1..n))
    BY <1>4, <2>2 DEF Winner
  <2> QED BY <1>5, <2>3
<1>7. Scan(s) = q[k]
  BY <1>1, <1>3, <1>4, ScanWins
<1>8. /\ ToSet(q) \subseteq Procs
      /\ ToSet(q) = {q[j] : j \in 1..Len(q)}
  BY <1>2, ElementOfSeq DEF ToSet
<1>9. \A p \in ToSet(q) : p \in Best(s) <=> \A r \in ToSet(q) : ~ Better(s, r, p)
  BY <1>1, <1>8, BetterOrders
<1> DEFINE I == {i \in 1..Len(q) : q[i] \in Best(s)}
<1>10. k \in I
  <2>1. k \in 1..Len(q) /\ \A j \in 1..Len(q) : ~ Better(s, q[j], q[k])
    BY <1>6 DEF Wins
  <2>2. q[k] \in ToSet(q) /\ \A r \in ToSet(q) : ~ Better(s, r, q[k])
    BY <1>8, <2>1
  <2> QED BY <1>9, <2>1, <2>2
<1>11. ASSUME NEW j \in I PROVE ~ (j < k)
  <2>1. j \in 1..Len(q) /\ q[j] \in Best(s) /\ q[j] \in ToSet(q)
    BY <1>8
  <2>2. k \in 1..Len(q) /\ q[k] \in ToSet(q)
    BY <1>8, <1>10
  <2>3. ~ Better(s, q[k], q[j])
    BY <1>9, <2>1, <2>2
  <2> QED BY <1>6, <2>1, <2>3 DEF Wins
<1>12. Min(I) = k
  <2>1. I \in SUBSET Nat /\ I # {}
    BY <1>10
  <2>2. Min(I) \in I /\ \A y \in I : Min(I) <= y
    <3> HIDE DEF I
    <3> QED BY <2>1, MinIsLeast
  <2>3. Min(I) <= k /\ ~ (Min(I) < k) /\ Min(I) \in Nat /\ k \in Nat
    <3> HIDE DEF I
    <3> QED BY <1>10, <1>11, <2>1, <2>2
  <2> QED BY <2>3
<1>13. FirstIndex(q, Best(s)) = Min(I)
  BY <1>2, <1>10 DEF FirstIndex, SelectInSeq
<1>14. Schedule(s, 0) = q[FirstIndex(q, Best(s))]
  BY <1>1 DEF Schedule
<1> QED BY <1>7, <1>12, <1>13, <1>14
=============================================================================
