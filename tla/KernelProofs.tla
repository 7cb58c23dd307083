---------------------------- MODULE KernelProofs ----------------------------
(* Theorems about the kernel, for any tasks, priorities and programs within   *)
(* the assumptions of Kernel.                                                 *)
EXTENDS Kernel, SequenceTheorems, FiniteSetTheorems, WellFoundedInduction, TLAPS

-------------------------------------------------------------------------------
(* Natural numbers *)

(* A set of natural numbers that is not empty has a least element. *)
LEMMA LeastElement ==
  ASSUME NEW A, A \subseteq Nat, A # {}
  PROVE  Min(A) \in A /\ \A n \in A : Min(A) <= n
<1> DEFINE Less == OpToRel(<, Nat)
<1>1. IsWellFoundedOn(Less, Nat)
  BY NatLessThanWellFounded
<1>2. \A m, n \in Nat : n < m => <<n, m>> \in Less
  BY DEF OpToRel
<1> HIDE DEF Less
<1>3. PICK m \in A : \A n \in A : ~(<<n, m>> \in Less)
  BY <1>1, WFMin
<1>4. \A n \in A : ~(n < m)
  BY <1>2, <1>3
<1>5. \A n \in A : m <= n
  BY <1>4
<1> QED BY <1>5 DEF Min

(* A finite set of natural numbers that is not empty has a greatest element.  *)
LEMMA GreatestElement ==
  ASSUME NEW A, A \subseteq Nat, A # {}, NEW b \in Nat, \A n \in A : n <= b
  PROVE  Max(A) \in A /\ \A n \in A : n <= Max(A)
<1> DEFINE B == {b - n : n \in A}
<1>1. B \subseteq Nat /\ B # {}
  <2>1. \A n \in A : b - n \in Nat
    OBVIOUS
  <2> QED BY <2>1
<1> HIDE DEF B
<1>2. Min(B) \in B /\ \A n \in B : Min(B) <= n
  BY <1>1, LeastElement
<1>3. PICK m \in A : Min(B) = b - m
  BY <1>2 DEF B
<1>4. \A n \in A : b - m <= b - n
  BY <1>2, <1>3 DEF B
<1>5. \A n \in A : m >= n
  BY <1>4
<1> QED BY <1>5 DEF Max

(* A finite set of natural numbers that is not empty has a greatest element.  *)
LEMMA FiniteMax ==
  ASSUME NEW A, A \subseteq Nat, A # {}, IsFiniteSet(A)
  PROVE  \E b \in A : \A n \in A : n <= b
<1> DEFINE Bad(B) == B \subseteq Nat /\ B # {} /\ IsFiniteSet(B) /\ ~\E b \in B : \A n \in B : n <= b
           C == {n \in Nat : \E B : Bad(B) /\ Cardinality(B) = n}
<1>1. SUFFICES ASSUME C # {} PROVE FALSE
  <2>1. Cardinality(A) \in Nat
    BY FS_CardinalityType
  <2>2. ~Bad(A)
    BY <1>1, <2>1
  <2> QED BY <2>2
<1>2. C \subseteq Nat
  OBVIOUS
<1>3. Min(C) \in C /\ \A n \in C : Min(C) <= n
  BY <1>1, <1>2, LeastElement
<1>4. PICK B : Bad(B) /\ Cardinality(B) = Min(C)
  BY <1>3
<1>5. PICK x \in B : TRUE
  BY <1>4
<1> DEFINE D == B \ {x}
<1>6. IsFiniteSet(D) /\ Cardinality(D) = Cardinality(B) - 1 /\ Cardinality(B) \in Nat /\ Cardinality(D) \in Nat
  BY <1>4, <1>5, FS_RemoveElement, FS_CardinalityType
<1>7. ~Bad(D)
  <2>1. SUFFICES ASSUME Bad(D) PROVE FALSE
    OBVIOUS
  <2>2. Cardinality(D) \in C
    BY <1>6, <2>1
  <2>3. Min(C) <= Cardinality(D) /\ Min(C) = Cardinality(B)
    BY <1>3, <1>4, <2>2
  <2> HIDE DEF C, D
  <2> QED BY <1>6, <2>3
<1>8. CASE D = {}
  <2>1. \A n \in B : n <= x
    BY <1>4, <1>5, <1>8
  <2> QED BY <1>4, <1>5, <2>1
<1>9. CASE D # {}
  <2>1. D \subseteq Nat
    BY <1>4
  <2>2. PICK b \in D : \A n \in D : n <= b
    BY <1>6, <1>7, <1>9, <2>1
  <2>3. x \in Nat /\ b \in Nat /\ b \in B
    BY <1>4, <1>5, <2>1
  <2>4. CASE x <= b
    <3>1. \A n \in B : n <= b
      BY <2>2, <2>4
    <3> QED BY <1>4, <2>3, <3>1
  <2>5. CASE b <= x
    <3>1. \A n \in D : n <= x
      BY <2>1, <2>2, <2>3, <2>5
    <3>2. \A n \in B : n <= x
      BY <2>3, <3>1
    <3> QED BY <1>4, <1>5, <3>2
  <2> QED BY <2>3, <2>4, <2>5
<1> QED BY <1>8, <1>9

(* The priorities are the natural numbers up to a greatest one, and every     *)
(* task is created with one of them.                                          *)
LEMMA PrioritiesAre ==
  /\ Priorities \subseteq Nat /\ Priorities # {}
  /\ BasePriority \in [Task -> Priorities]
  /\ Max(Priorities) \in Priorities /\ \A p \in Priorities : p <= Max(Priorities)
  /\ \A p \in Priorities : 0..p \subseteq Priorities
<1> DEFINE A == {BasePriority[t] : t \in Task}
<1>1. A \subseteq Nat /\ A # {}
  BY KernelAssumption
<1>2. IsFiniteSet(A)
  <2> DEFINE f == [t \in Task |-> BasePriority[t]]
  <2>1. f \in Surjection(Task, A)
    BY DEF Surjection
  <2> QED BY <2>1, KernelAssumption, FS_Surjection
<1>3. PICK b \in A : \A n \in A : n <= b
  BY <1>1, <1>2, FiniteMax
<1>4. Max(A) \in A /\ \A n \in A : n <= Max(A)
  BY <1>1, <1>3, GreatestElement
<1>5. PICK m \in Nat : m = Max(A)
  BY <1>1, <1>4
<1>6. Priorities = 0..m
  BY <1>5 DEF Priorities
<1>7. BasePriority \in [Task -> Priorities]
  <2>1. ASSUME NEW t \in Task PROVE BasePriority[t] \in Priorities
    <3>1. BasePriority[t] \in A
      OBVIOUS
    <3> QED BY <1>1, <1>4, <1>5, <1>6, <3>1
  <2> QED BY <2>1, KernelAssumption
<1> HIDE DEF A
<1>8. Max(Priorities) \in Priorities /\ \A p \in Priorities : p <= Max(Priorities)
  <2>1. Priorities \subseteq Nat /\ Priorities # {} /\ \A p \in Priorities : p <= m
    BY <1>6
  <2> QED BY <2>1, GreatestElement
<1> QED BY <1>6, <1>7, <1>8

(* Of two natural numbers the greater one.                                    *)
LEMMA MaxOfTwo ==
  ASSUME NEW a \in Nat, NEW b \in Nat
  PROVE  Max({a, b}) \in {a, b} /\ Max({a, b}) >= a /\ Max({a, b}) >= b
<1>1. \E m \in {a, b} : \A n \in {a, b} : n <= m
  OBVIOUS
<1>2. PICK m \in {a, b} : \A n \in {a, b} : n <= m
  BY <1>1
<1>3. {a, b} \subseteq Nat /\ {a, b} # {} /\ m \in Nat
  OBVIOUS
<1>4. Max({a, b}) \in {a, b} /\ \A n \in {a, b} : n <= Max({a, b})
  BY <1>2, <1>3, GreatestElement
<1> QED BY <1>4

(* A remainder is unique. *)
LEMMA Remainder ==
  ASSUME NEW M \in Nat \ {0}, NEW a \in Int, NEW q \in Int, NEW r \in 0..M-1, a = M * q + r
  PROVE  a % M = r
<1> DEFINE p == a \div M
           x == a % M
<1>1. p \in Int /\ x \in 0..M-1 /\ a = M * p + x
  OBVIOUS
<1> HIDE DEF p, x
<1>2. M * (p - q) = r - x
  BY <1>1
<1>3. ~(p > q)
  <2>1. SUFFICES ASSUME p > q PROVE FALSE
    OBVIOUS
  <2>2. M * (p - q - 1) \in Nat
    BY <1>1, <2>1
  <2>3. M * (p - q) = M * (p - q - 1) + M
    BY <1>1
  <2> QED BY <1>1, <1>2, <2>2, <2>3
<1>4. ~(q > p)
  <2>1. SUFFICES ASSUME q > p PROVE FALSE
    OBVIOUS
  <2>2. M * (q - p - 1) \in Nat
    BY <1>1, <2>1
  <2>3. M * (q - p) = M * (q - p - 1) + M /\ M * (q - p) = x - r
    BY <1>1
  <2> QED BY <1>1, <1>2, <2>2, <2>3
<1>5. p = q
  BY <1>1, <1>3, <1>4
<1> QED BY <1>1, <1>2, <1>5 DEF x
(* One turn of a counter either way. *)
LEMMA Mod ==
  ASSUME NEW M \in Nat, M > 2, NEW n \in Int, -M <= n, n < 2 * M
  PROVE  n % M = IF n < 0 THEN n + M ELSE IF n < M THEN n ELSE n - M
<1>1. CASE n < 0
  <2>1. n = M * (-1) + (n + M) /\ n + M \in 0..M-1
    BY <1>1
  <2> QED BY <1>1, <2>1, Remainder
<1>2. CASE 0 <= n /\ n < M
  <2>1. n = M * 0 + n /\ n \in 0..M-1
    BY <1>2
  <2> QED BY <1>2, <2>1, Remainder
<1>3. CASE M <= n
  <2>1. n = M * 1 + (n - M) /\ n - M \in 0..M-1
    BY <1>3
  <2> QED BY <1>3, <2>1, Remainder
<1> QED BY <1>1, <1>2, <1>3

(* Counting on from a remainder is counting on from the number.               *)
LEMMA CountOn ==
  ASSUME NEW M \in Nat \ {0}, NEW a \in Nat, NEW b, b = a + 1
  PROVE  ((a % M) + 1) % M = b % M
<1> DEFINE p == a \div M
           x == a % M
<1>1. p \in Int /\ x \in 0..M-1 /\ a = M * p + x
  OBVIOUS
<1> HIDE DEF p, x
<1>2. CASE x + 1 < M
  <2>1. PICK y \in 0..M-1 : y = x + 1
    BY <1>1, <1>2
  <2>2. y % M = y
    <3>1. y = M * 0 + y
      BY <1>1, <2>1
    <3> QED BY <2>1, <3>1, Remainder
  <2>3. b % M = y
    <3>1. b \in Int /\ b = M * p + y
      BY <1>1, <2>1
    <3> QED BY <1>1, <2>1, <3>1, Remainder
  <2> QED BY <2>1, <2>2, <2>3 DEF x
<1>3. CASE x + 1 = M
  <2>1. 0 \in 0..M-1 /\ M = M * 1 + 0 /\ 1 \in Int /\ M \in Int
    OBVIOUS
  <2>2. M % M = 0
    BY <2>1, Remainder
  <2>3. b % M = 0
    <3>1. PICK q \in Int : q = p + 1
      BY <1>1
    <3>2. b \in Int /\ b = M * q + 0
      BY <1>1, <1>3, <3>1
    <3> QED BY <2>1, <3>1, <3>2, Remainder
  <2> QED BY <1>3, <2>2, <2>3 DEF x
<1> QED BY <1>1, <1>2, <1>3

-------------------------------------------------------------------------------
(* Lists *)

NoDup(list) == \A i, j \in 1..Len(list) : list[i] = list[j] => i = j

(* Whatever two elements of a follow each other in b as well.                *)
Sublist(a, b) ==
  \A i, j \in 1..Len(a) : i < j =>
    \E m, n \in 1..Len(b) : m < n /\ b[m] = a[i] /\ b[n] = a[j]

(* A list from which the element at i is removed.                             *)
LEMMA RemoveAtIs ==
  ASSUME NEW S, NEW list \in Seq(S), NEW i \in 1..Len(list)
  PROVE  /\ RemoveAt(list, i) \in Seq(S)
         /\ Len(RemoveAt(list, i)) = Len(list) - 1
         /\ \A j \in 1..Len(list) - 1 : RemoveAt(list, i)[j] = IF j < i THEN list[j] ELSE list[j + 1]
<1> DEFINE a == SubSeq(list, 1, i - 1)
           b == SubSeq(list, i + 1, Len(list))
<1>0. \A j \in 1..Len(list) : list[j] \in S
  OBVIOUS
<1>1. a \in Seq(S) /\ Len(a) = i - 1 /\ \A j \in 1..i - 1 : a[j] = list[j]
  <2>1. \A j \in 1..i - 1 : list[j] \in S
    BY <1>0
  <2> QED BY <2>1, SubSeqProperties
<1>2. b \in Seq(S) /\ Len(b) = Len(list) - i /\ \A j \in 1..Len(list) - i : b[j] = list[i + j]
  <2>1. \A j \in i + 1..Len(list) : list[j] \in S
    BY <1>0
  <2> QED BY <2>1, SubSeqProperties
<1> HIDE DEF a, b
<1>3. /\ a \o b \in Seq(S) /\ Len(a \o b) = Len(list) - 1
      /\ \A j \in 1..Len(list) - 1 : (a \o b)[j] = IF j <= i - 1 THEN a[j] ELSE b[j - (i - 1)]
  <2>1. a \in Seq(S) /\ b \in Seq(S)
    BY <1>1, <1>2
  <2>2. /\ a \o b \in Seq(S) /\ Len(a \o b) = Len(a) + Len(b)
        /\ \A j \in 1..Len(a) + Len(b) : (a \o b)[j] = IF j <= Len(a) THEN a[j] ELSE b[j - Len(a)]
    BY <2>1, ConcatProperties
  <2>3. Len(a) = i - 1 /\ Len(a) + Len(b) = Len(list) - 1
    BY <1>1, <1>2
  <2> QED BY <2>2, <2>3
<1>4. RemoveAt(list, i) = a \o b
  BY DEF RemoveAt, a, b
<1>5. ASSUME NEW j \in 1..Len(list) - 1
      PROVE  RemoveAt(list, i)[j] = IF j < i THEN list[j] ELSE list[j + 1]
  <2>1. CASE j < i
    BY <1>1, <1>3, <1>4, <2>1
  <2>2. CASE j >= i
    <3>1. b[j - (i - 1)] = list[i + (j - (i - 1))]
      BY <1>2, <2>2
    <3> QED BY <1>3, <1>4, <2>2, <3>1
  <2> QED BY <2>1, <2>2
<1> QED BY <1>3, <1>4, <1>5

(* vListRemove takes one element out, and the others keep their order.        *)
LEMMA Removed ==
  ASSUME NEW S, NEW list \in Seq(S), NoDup(list), NEW t
  PROVE  /\ vListRemove(list, t) \in Seq(S)
         /\ NoDup(vListRemove(list, t))
         /\ \A u : Contains(vListRemove(list, t), u) <=> Contains(list, u) /\ u # t
         /\ Sublist(vListRemove(list, t), list)
<1> DEFINE r == vListRemove(list, t)
<1>1. CASE ~Contains(list, t)
  <2>1. r = list
    BY <1>1 DEF vListRemove, RemoveFirst, Contains
  <2> QED BY <1>1, <2>1 DEF Sublist, Contains
<1>2. CASE Contains(list, t)
  <2> DEFINE I == {i \in 1..Len(list) : list[i] = t}
             i == Min(I)
  <2>1. I \subseteq Nat /\ I # {}
    BY <1>2 DEF Contains
  <2>2. i \in I
    BY <2>1, LeastElement
  <2>3. r = RemoveAt(list, i)
    BY <1>2, <2>1 DEF vListRemove, RemoveFirst, Contains, SelectInSeq
  <2>4. i \in 1..Len(list) /\ list[i] = t
    BY <2>2
  <2> HIDE DEF i, r
  <2>5. /\ r \in Seq(S) /\ Len(r) = Len(list) - 1
        /\ \A j \in 1..Len(list) - 1 : r[j] = IF j < i THEN list[j] ELSE list[j + 1]
    BY <2>3, <2>4, RemoveAtIs
  <2>6. NoDup(r)
    BY <2>4, <2>5 DEF NoDup
  <2>7. ASSUME NEW u PROVE Contains(r, u) <=> Contains(list, u) /\ u # t
    <3>1. ASSUME Contains(r, u) PROVE Contains(list, u) /\ u # t
      BY <2>4, <2>5, <3>1 DEF Contains, NoDup
    <3>2. ASSUME Contains(list, u), u # t PROVE Contains(r, u)
      <4>1. PICK j \in 1..Len(list) : list[j] = u
        BY <3>2 DEF Contains
      <4>2. CASE j < i
        BY <2>4, <2>5, <4>1, <4>2 DEF Contains
      <4>3. CASE j > i
        <5>1. j - 1 \in 1..Len(list) - 1 /\ r[j - 1] = u
          BY <2>4, <2>5, <4>1, <4>3
        <5> QED BY <2>5, <5>1 DEF Contains
      <4> QED BY <2>4, <3>2, <4>1, <4>2, <4>3
    <3> QED BY <3>1, <3>2
  <2>8. Sublist(r, list)
    <3> SUFFICES ASSUME NEW x \in 1..Len(r), NEW y \in 1..Len(r), x < y
                 PROVE  \E m, n \in 1..Len(list) : m < n /\ list[m] = r[x] /\ list[n] = r[y]
      BY DEF Sublist
    <3> DEFINE m == IF x < i THEN x ELSE x + 1
               n == IF y < i THEN y ELSE y + 1
    <3>1. m \in 1..Len(list) /\ n \in 1..Len(list) /\ m < n
      BY <2>4, <2>5
    <3>2. list[m] = r[x] /\ list[n] = r[y]
      BY <2>4, <2>5
    <3> QED BY <3>1, <3>2
  <2> QED BY <2>5, <2>6, <2>7, <2>8 DEF r
<1> QED BY <1>1, <1>2

(* InsertAt makes room for one element. *)
LEMMA InsertAtIs ==
  ASSUME NEW S, NEW list \in Seq(S), NEW t \in S, NEW i \in Nat, 1 <= i, i <= Len(list) + 1
  PROVE  /\ InsertAt(list, i, t) \in Seq(S)
         /\ Len(InsertAt(list, i, t)) = Len(list) + 1
         /\ \A j \in 1..Len(list) + 1 : InsertAt(list, i, t)[j] =
              IF j < i THEN list[j] ELSE IF j = i THEN t ELSE list[j - 1]
<1> DEFINE a == SubSeq(list, 1, i - 1)
           b == SubSeq(list, i, Len(list))
<1>0. \A j \in 1..Len(list) : list[j] \in S
  OBVIOUS
<1>1. a \in Seq(S) /\ Len(a) = i - 1 /\ \A j \in 1..i - 1 : a[j] = list[j]
  <2>1. \A j \in 1..i - 1 : list[j] \in S
    BY <1>0
  <2> QED BY <2>1, SubSeqProperties
<1>2. b \in Seq(S) /\ Len(b) = Len(list) - i + 1 /\ \A j \in 1..Len(list) - i + 1 : b[j] = list[i + j - 1]
  <2>1. \A j \in i..Len(list) : list[j] \in S
    BY <1>0
  <2> QED BY <2>1, SubSeqProperties
<1> HIDE DEF a, b
<1> DEFINE c == a \o <<t>>
<1>3. c \in Seq(S) /\ Len(c) = i /\ \A j \in 1..i : c[j] = IF j < i THEN list[j] ELSE t
  <2>1. <<t>> \in Seq(S) /\ Len(<<t>>) = 1 /\ <<t>>[1] = t
    OBVIOUS
  <2> QED BY <1>1, <2>1, ConcatProperties
<1> HIDE DEF c
<1>4. /\ c \o b \in Seq(S) /\ Len(c \o b) = Len(list) + 1
      /\ \A j \in 1..Len(list) + 1 : (c \o b)[j] = IF j <= i THEN c[j] ELSE b[j - i]
  BY <1>2, <1>3, ConcatProperties
<1>5. InsertAt(list, i, t) = c \o b
  BY DEF InsertAt, a, b, c
<1> QED BY <1>2, <1>3, <1>4, <1>5

(* vListInsert puts one element in, and keeps a sorted list sorted.           *)
LEMMA Inserted ==
  ASSUME NEW S, NEW list \in Seq(S), NEW t \in S, NEW key \in [S -> Int],
         NoDup(list), ~Contains(list, t)
  PROVE  LET r == vListInsert(list, t, key)
         IN /\ r \in Seq(S) /\ NoDup(r)
            /\ \A u : Contains(r, u) <=> Contains(list, u) \/ u = t
            /\ (\A i, j \in 1..Len(list) : i < j => key[list[i]] <= key[list[j]]) =>
                 \A i, j \in 1..Len(r) : i < j => key[r[i]] <= key[r[j]]
<1> DEFINE I == {i \in 1..Len(list) : key[list[i]] > key[t]} \cup {Len(list) + 1}
           p == Min(I)
           r == vListInsert(list, t, key)
<1>0. \A i \in 1..Len(list) : list[i] \in S /\ key[list[i]] \in Int
  OBVIOUS
<1>1. I \subseteq 1..Len(list) + 1 /\ I \subseteq Nat /\ I # {}
  OBVIOUS
<1>2. p \in I /\ \A i \in I : p <= i
  BY <1>1, LeastElement
<1>3. r = InsertAt(list, p, t)
  BY DEF vListInsert
<1>4. p \in 1..Len(list) + 1
  BY <1>1, <1>2
<1>5. \A i \in 1..Len(list) : i < p => key[list[i]] <= key[t]
  <2>1. \A i \in 1..Len(list) : i < p => i \notin I
    BY <1>1, <1>2
  <2> QED BY <1>0, <2>1
<1>6. p <= Len(list) => key[list[p]] > key[t]
  BY <1>2, <1>4
<1> HIDE DEF p, r, I
<1>7. /\ r \in Seq(S) /\ Len(r) = Len(list) + 1 /\ r[p] = t
      /\ \A j \in 1..Len(list) : IF j < p THEN r[j] = list[j] ELSE r[j + 1] = list[j]
  <2>1. /\ r \in Seq(S) /\ Len(r) = Len(list) + 1
        /\ \A j \in 1..Len(list) + 1 :
             r[j] = IF j < p THEN list[j] ELSE IF j = p THEN t ELSE list[j - 1]
    <3>1. p \in Nat /\ 1 <= p /\ p <= Len(list) + 1
      BY <1>4
    <3>2. /\ InsertAt(list, p, t) \in Seq(S) /\ Len(InsertAt(list, p, t)) = Len(list) + 1
          /\ \A j \in 1..Len(list) + 1 : InsertAt(list, p, t)[j] =
               IF j < p THEN list[j] ELSE IF j = p THEN t ELSE list[j - 1]
      BY <3>1, InsertAtIs
    <3> QED BY <1>3, <3>2
  <2>2. r[p] = t
    BY <1>4, <2>1
  <2>3. ASSUME NEW j \in 1..Len(list) PROVE IF j < p THEN r[j] = list[j] ELSE r[j + 1] = list[j]
    <3>1. CASE j < p
      <4>1. j \in 1..Len(list) + 1
        OBVIOUS
      <4> QED BY <2>1, <3>1, <4>1
    <3>2. CASE ~(j < p)
      <4>1. j + 1 \in 1..Len(list) + 1 /\ ~(j + 1 < p) /\ j + 1 # p /\ (j + 1) - 1 = j
        BY <1>4, <3>2
      <4>2. r[j + 1] = list[(j + 1) - 1]
        BY <2>1, <4>1
      <4> QED BY <3>2, <4>1, <4>2
    <3> QED BY <3>1, <3>2
  <2> QED BY <2>1, <2>2, <2>3
<1>8. ASSUME NEW i \in 1..Len(r), i # p
      PROVE  \E j \in 1..Len(list) : r[i] = list[j] /\ (IF i < p THEN j = i ELSE j + 1 = i /\ j >= p)
  <2>1. CASE i < p
    <3>1. i \in 1..Len(list)
      BY <1>4, <1>7, <2>1
    <3> QED BY <1>7, <2>1, <3>1
  <2>2. CASE ~(i < p)
    <3>1. i - 1 \in 1..Len(list) /\ i - 1 >= p /\ (i - 1) + 1 = i
      BY <1>4, <1>7, <1>8, <2>2
    <3>2. ~(i - 1 < p)
      BY <1>4, <3>1
    <3>3. r[(i - 1) + 1] = list[i - 1]
      BY <1>7, <3>1, <3>2
    <3> QED BY <2>2, <3>1, <3>3
  <2> QED BY <2>1, <2>2
<1>9. ASSUME NEW u PROVE Contains(r, u) <=> Contains(list, u) \/ u = t
  <2>1. ASSUME Contains(r, u) PROVE Contains(list, u) \/ u = t
    BY <1>7, <1>8, <2>1 DEF Contains
  <2>2. CASE u = t
    BY <1>4, <1>7, <2>2 DEF Contains
  <2>3. ASSUME Contains(list, u) PROVE Contains(r, u)
    <3>1. PICK j \in 1..Len(list) : list[j] = u
      BY <2>3 DEF Contains
    <3>2. j \in 1..Len(r) /\ j + 1 \in 1..Len(r)
      BY <1>7
    <3>3. r[j] = u \/ r[j + 1] = u
      BY <1>7, <3>1
    <3> QED BY <3>2, <3>3 DEF Contains
  <2> QED BY <2>1, <2>2, <2>3
<1>11. NoDup(r)
  <2> SUFFICES ASSUME NEW i \in 1..Len(r), NEW j \in 1..Len(r), r[i] = r[j], i < j PROVE FALSE
    BY <1>7 DEF NoDup
  <2>1. \A n \in 1..Len(list) : list[n] # t
    BY DEF Contains
  <2>2. CASE i = p
    <3>1. PICK n \in 1..Len(list) : r[j] = list[n]
      BY <1>8, <2>2
    <3> QED BY <1>7, <2>1, <2>2, <3>1
  <2>3. CASE j = p
    <3>1. PICK n \in 1..Len(list) : r[i] = list[n]
      BY <1>8, <2>3
    <3>2. r[j] = t
      BY <1>7, <2>3
    <3> QED BY <2>1, <3>1, <3>2
  <2>4. CASE i # p /\ j # p
    <3>1. PICK m \in 1..Len(list) : r[i] = list[m] /\ (IF i < p THEN m = i ELSE m + 1 = i /\ m >= p)
      BY <1>8, <2>4
    <3>2. PICK n \in 1..Len(list) : r[j] = list[n] /\ (IF j < p THEN n = j ELSE n + 1 = j /\ n >= p)
      BY <1>8, <2>4
    <3>3. m = n
      BY <3>1, <3>2 DEF NoDup
    <3> QED BY <1>4, <3>1, <3>2, <3>3
  <2> QED BY <2>2, <2>3, <2>4
<1>10. ASSUME \A i, j \in 1..Len(list) : i < j => key[list[i]] <= key[list[j]],
              NEW i \in 1..Len(r), NEW j \in 1..Len(r), i < j
       PROVE  key[r[i]] <= key[r[j]]
  <2>0. key[t] \in Int
    OBVIOUS
  <2>1. \A n \in 1..Len(list) : n >= p => key[t] < key[list[n]]
    <3> SUFFICES ASSUME NEW n \in 1..Len(list), n >= p PROVE key[t] < key[list[n]]
      OBVIOUS
    <3>1. p \in 1..Len(list) /\ key[list[p]] > key[t]
      BY <1>4, <1>6
    <3>2. key[list[p]] <= key[list[n]]
      BY <1>0, <1>10, <3>1
    <3> QED BY <1>0, <2>0, <3>1, <3>2
  <2>2. \A n \in 1..Len(list) : n < p => key[list[n]] <= key[t]
    BY <1>5
  <2>3. CASE i = p
    <3>1. PICK n \in 1..Len(list) : r[j] = list[n] /\ n >= p
      BY <1>8, <1>10, <2>3
    <3>2. r[i] = t
      BY <1>7, <2>3
    <3>3. key[list[n]] \in Int /\ key[t] < key[list[n]]
      BY <1>0, <2>1, <3>1
    <3>4. key[r[i]] = key[t] /\ key[r[j]] = key[list[n]] /\ key[t] \in Int
      BY <1>0, <3>1, <3>2
    <3> QED BY <3>3, <3>4
  <2>4. CASE j = p
    <3>1. PICK n \in 1..Len(list) : r[i] = list[n] /\ n < p
      BY <1>8, <1>10, <2>4
    <3>2. r[j] = t
      BY <1>7, <2>4
    <3>3. key[list[n]] \in Int /\ key[list[n]] <= key[t]
      BY <1>0, <2>2, <3>1
    <3> QED BY <2>0, <3>1, <3>2, <3>3
  <2>5. CASE i # p /\ j # p
    <3>1. PICK m \in 1..Len(list) : r[i] = list[m] /\ (IF i < p THEN m = i ELSE m + 1 = i /\ m >= p)
      BY <1>8, <2>5
    <3>2. PICK n \in 1..Len(list) : r[j] = list[n] /\ (IF j < p THEN n = j ELSE n + 1 = j /\ n >= p)
      BY <1>8, <2>5
    <3>3. m < n
      BY <1>4, <1>10, <2>5, <3>1, <3>2
    <3> QED BY <1>10, <3>1, <3>2, <3>3
  <2> QED BY <2>3, <2>4, <2>5
<1> QED BY <1>7, <1>9, <1>10, <1>11 DEF r

(* What a list contains once an element is appended.                          *)
LEMMA Appended ==
  ASSUME NEW S, NEW list \in Seq(S), NEW t \in S
  PROVE  /\ Append(list, t) \in Seq(S) /\ Append(list, t) # <<>>
         /\ \A u : Contains(Append(list, t), u) <=> Contains(list, u) \/ u = t
         /\ NoDup(list) /\ ~Contains(list, t) => NoDup(Append(list, t))
<1> DEFINE r == Append(list, t)
<1>1. /\ r \in Seq(S) /\ r # <<>> /\ Len(r) = Len(list) + 1
      /\ \A i \in 1..Len(list) : r[i] = list[i]
      /\ r[Len(list) + 1] = t
  BY AppendProperties
<1> HIDE DEF r
<1>2. ASSUME NEW u PROVE Contains(r, u) <=> Contains(list, u) \/ u = t
  <2>1. ASSUME Contains(r, u) PROVE Contains(list, u) \/ u = t
    BY <1>1, <2>1 DEF Contains
  <2>2. ASSUME u = t PROVE Contains(r, u)
    <3>1. Len(list) + 1 \in 1..Len(r)
      BY <1>1
    <3> QED BY <1>1, <2>2, <3>1 DEF Contains
  <2>3. ASSUME Contains(list, u) PROVE Contains(r, u)
    BY <1>1, <2>3 DEF Contains
  <2> QED BY <2>1, <2>2, <2>3
<1>3. ASSUME NoDup(list), ~Contains(list, t) PROVE NoDup(r)
  <2> SUFFICES ASSUME NEW i \in 1..Len(r), NEW j \in 1..Len(r), r[i] = r[j], i < j PROVE FALSE
    BY <1>1 DEF NoDup
  <2>1. \A n \in 1..Len(list) : list[n] # t
    BY <1>3 DEF Contains
  <2> QED BY <1>1, <1>3, <2>1 DEF NoDup
<1> QED BY <1>1, <1>2, <1>3 DEF r

(* Without its head a list has lost the head and nothing else.                *)
LEMMA Tailed ==
  ASSUME NEW S, NEW list \in Seq(S), list # <<>>, NoDup(list)
  PROVE  /\ Head(list) \in S /\ Contains(list, Head(list))
         /\ Tail(list) \in Seq(S) /\ NoDup(Tail(list))
         /\ \A u : Contains(Tail(list), u) <=> Contains(list, u) /\ u # Head(list)
<1> DEFINE r == Tail(list)
           h == Head(list)
<1>1. /\ h \in S /\ r \in Seq(S) /\ Len(r) = Len(list) - 1
      /\ \A i \in 1..Len(r) : r[i] = list[i + 1]
  BY HeadTailProperties
<1>2. h = list[1] /\ 1 \in 1..Len(list)
  OBVIOUS
<1> HIDE DEF r, h
<1>3. NoDup(r)
  BY <1>1 DEF NoDup
<1>4. ASSUME NEW u PROVE Contains(r, u) <=> Contains(list, u) /\ u # h
  <2>1. ASSUME Contains(r, u) PROVE Contains(list, u) /\ u # h
    BY <1>1, <1>2, <2>1 DEF Contains, NoDup
  <2>2. ASSUME Contains(list, u), u # h PROVE Contains(r, u)
    <3>1. PICK j \in 1..Len(list) : list[j] = u
      BY <2>2 DEF Contains
    <3>2. j - 1 \in 1..Len(r) /\ r[j - 1] = u
      BY <1>1, <1>2, <2>2, <3>1
    <3> QED BY <3>2 DEF Contains
  <2> QED BY <2>1, <2>2
<1>5. Contains(list, h)
  BY <1>2 DEF Contains
<1> QED BY <1>1, <1>3, <1>4, <1>5 DEF r, h

(* A list turned by one has the same elements.                                *)
LEMMA Turned ==
  ASSUME NEW S, NEW list \in Seq(S), list # <<>>, NoDup(list)
  PROVE  LET r == Append(Tail(list), Head(list))
         IN /\ r \in Seq(S) /\ r # <<>> /\ NoDup(r)
            /\ \A u : Contains(r, u) <=> Contains(list, u)
<1>1. /\ Head(list) \in S /\ Contains(list, Head(list))
      /\ Tail(list) \in Seq(S) /\ NoDup(Tail(list))
      /\ \A u : Contains(Tail(list), u) <=> Contains(list, u) /\ u # Head(list)
  BY Tailed
<1>2. ~Contains(Tail(list), Head(list))
  BY <1>1
<1> QED BY <1>1, <1>2, Appended

(* A list is empty if it contains nothing.                                    *)
LEMMA Emptied ==
  ASSUME NEW S, NEW list \in Seq(S)
  PROVE  list = <<>> <=> \A u \in S : ~Contains(list, u)
<1>1. ASSUME list # <<>> PROVE \E u \in S : Contains(list, u)
  <2>1. 1 \in 1..Len(list) /\ list[1] \in S
    BY <1>1
  <2> QED BY <2>1 DEF Contains
<1>2. ASSUME list = <<>> PROVE \A u : ~Contains(list, u)
  BY <1>2 DEF Contains
<1> QED BY <1>1, <1>2
-------------------------------------------------------------------------------
(* What every function of the kernel keeps of its data *)

Ready(t, s) == \E p \in Priorities : Contains(s.ready[p], t)
Asleep(t, s) == Contains(s.delayed, t) \/ Contains(s.overflow, t)

(* A list holds a task once. *)
Lists(s) ==
  /\ s \in KernelData
  /\ \A p \in Priorities : NoDup(s.ready[p])
  /\ NoDup(s.delayed) /\ NoDup(s.overflow) /\ NoDup(s.pending) /\ NoDup(s.dying)
  /\ \A q \in Sem : NoDup(s.waiting[q])

(* The list of its priority, a delayed list and that of the deleted exclude   *)
(* each other.                                                                *)
Places(s) ==
  /\ \A t \in Task : \A p \in Priorities :
       Contains(s.ready[p], t) => p = s.prio[t] /\ ~Asleep(t, s) /\ ~Contains(s.dying, t)
  /\ \A t \in Task :
       /\ ~(Contains(s.delayed, t) /\ Contains(s.overflow, t))
       /\ Contains(s.dying, t) => ~Asleep(t, s)

(* A task waits for one event, and sleeps meanwhile. *)
Events(s) ==
  \A t \in Task :
    /\ Contains(s.pending, t) => Asleep(t, s) /\ \A q \in Sem : ~Contains(s.waiting[q], t)
    /\ \A q \in Sem : Contains(s.waiting[q], t) =>
         Asleep(t, s) /\ \A r \in Sem : Contains(s.waiting[r], t) => r = q

Tops(s) == \A p \in Priorities : s.ready[p] # <<>> => p <= s.top

Sound(s) == Lists(s) /\ Places(s) /\ Events(s) /\ Tops(s) /\ Ready(Idle, s)

(* The order of the sleepers, but for the delayed tasks lying ahead *)
Sorted(list, key) == \A i, j \in 1..Len(list) : i < j => key[list[i]] <= key[list[j]]
Rows(s) ==
  /\ Sorted(s.delayed, s.wake) /\ Sorted(s.overflow, s.wake)
  /\ \A t \in Task : Contains(s.overflow, t) => s.wake[t] < s.tick
Ahead(s) == \A t \in Task : Contains(s.delayed, t) => s.wake[t] > s.tick

(* No ready task is more urgent than the running one. *)
Urgent(s) == \A u \in Task : Ready(u, s) => s.prio[u] <= s.prio[s.cur]

(* What the functions that move tasks between lists leave alone *)
Kept(s, r) ==
  /\ r.tick = s.tick /\ r.missed = s.missed /\ r.suspended = s.suspended
  /\ r.left = s.left /\ r.entered = s.entered /\ r.wrapped = s.wrapped
  /\ r.full = s.full /\ r.holder = s.holder /\ r.lock = s.lock
Untouched(s, r) == Kept(s, r) /\ r.cur = s.cur /\ r.missedYield = s.missedYield

(* Only the lists of waiters on which one of W stands have changed. *)
Waits(s, r, W) ==
  \A q \in Sem : (\A u \in W : ~Contains(s.waiting[q], u)) => r.waiting[q] = s.waiting[q]

(* A task that need not be woken any more *)
Awake(t, s) == ~Asleep(t, s) \/ Contains(s.pending, t)

(* Waking tasks is all that happens to them. *)
Forward(s, r) ==
  /\ r.dying = s.dying
  /\ \A u \in Task : Ready(u, s) => Ready(u, r)
  /\ \A u \in Task : Asleep(u, s) => Asleep(u, r) \/ Ready(u, r)
  /\ \A u \in Task : Asleep(u, r) => Asleep(u, s)
  /\ \A u \in Task : Ready(u, r) => Ready(u, s) \/ Asleep(u, s)
  /\ \A u \in Task : Awake(u, s) => Awake(u, r)
  /\ \A q \in Sem, u \in Task : Contains(r.waiting[q], u) => Contains(s.waiting[q], u)

(* Two steps forward are one.                                                 *)
LEMMA ForwardTwice ==
  ASSUME NEW s, NEW r, NEW z, Forward(s, r), Forward(r, z)
  PROVE  Forward(s, z)
BY DEF Forward

(* Nothing goes back when no list changes.                                    *)
LEMMA ForwardNot ==
  ASSUME NEW s, NEW r, r.dying = s.dying, r.ready = s.ready, r.delayed = s.delayed, r.overflow = s.overflow,
         r.pending = s.pending, r.waiting = s.waiting
  PROVE  Forward(s, r)
BY DEF Forward, Ready, Asleep, Awake

-------------------------------------------------------------------------------
(* Moving tasks between lists *)

(* A task inserted in a sorted list                                           *)
LEMMA InsertedSorted ==
  ASSUME NEW list \in Seq(Task), NEW t \in Task, NEW key \in [Task -> Int], NoDup(list), ~Contains(list, t)
  PROVE  LET r == vListInsert(list, t, key)
         IN /\ r \in Seq(Task) /\ NoDup(r)
            /\ \A u : Contains(r, u) <=> Contains(list, u) \/ u = t
            /\ Sorted(list, key) => Sorted(r, key)
BY Inserted DEF Sorted

(* A part of a sorted list is sorted.                                         *)
LEMMA StaysSorted ==
  ASSUME NEW a \in Seq(Task), NEW b \in Seq(Task), NEW f \in [Task -> Int], NEW g \in [Task -> Int],
         Sublist(a, b), \A t \in Task : Contains(a, t) => f[t] = g[t], Sorted(b, g)
  PROVE  Sorted(a, f)
<1> SUFFICES ASSUME NEW i \in 1..Len(a), NEW j \in 1..Len(a), i < j PROVE f[a[i]] <= f[a[j]]
  BY DEF Sorted
<1>1. PICK m \in 1..Len(b), n \in 1..Len(b) : m < n /\ b[m] = a[i] /\ b[n] = a[j]
  BY DEF Sublist
<1>2. a[i] \in Task /\ a[j] \in Task /\ Contains(a, a[i]) /\ Contains(a, a[j])
  BY DEF Contains
<1> QED BY <1>1, <1>2 DEF Sorted

(* A list is a part of itself.                                                *)
LEMMA SameSublist == \A a : Sublist(a, a)
BY DEF Sublist

(* vListRemove of the generic item *)
LEMMA RemoveStateIs ==
  ASSUME NEW s, Lists(s), NEW t \in Task
  PROVE  LET r == RemoveState(t, s)
         IN /\ Lists(r) /\ Untouched(s, r)
            /\ r.prio = s.prio /\ r.top = s.top
            /\ r.pending = s.pending /\ r.dying = s.dying /\ r.waiting = s.waiting
            /\ \A p \in Priorities, u \in Task : Contains(r.ready[p], u) <=> Contains(s.ready[p], u) /\ u # t
            /\ \A u \in Task : Contains(r.delayed, u) <=> Contains(s.delayed, u) /\ u # t
            /\ \A u \in Task : Contains(r.overflow, u) <=> Contains(s.overflow, u) /\ u # t
            /\ \A u \in Task : u # t => r.wake[u] = s.wake[u]
            /\ Rows(s) => Rows(r)
<1> DEFINE r == RemoveState(t, s)
<1>0. s \in KernelData
  BY DEF Lists
<1>1. /\ r.ready = [p \in Priorities |-> vListRemove(s.ready[p], t)]
      /\ r.delayed = vListRemove(s.delayed, t) /\ r.overflow = vListRemove(s.overflow, t)
      /\ r.wake = [s.wake EXCEPT ![t] = 0]
      /\ r.prio = s.prio /\ r.top = s.top
      /\ r.pending = s.pending /\ r.dying = s.dying /\ r.waiting = s.waiting
  BY <1>0 DEF KernelData, RemoveState
<1>2. Untouched(s, r)
  BY <1>0 DEF KernelData, RemoveState, Untouched, Kept
<1>3. \A p \in Priorities :
        /\ r.ready[p] \in Seq(Task) /\ NoDup(r.ready[p])
        /\ \A u \in Task : Contains(r.ready[p], u) <=> Contains(s.ready[p], u) /\ u # t
  <2> SUFFICES ASSUME NEW p \in Priorities
               PROVE  /\ r.ready[p] \in Seq(Task) /\ NoDup(r.ready[p])
                      /\ \A u \in Task : Contains(r.ready[p], u) <=> Contains(s.ready[p], u) /\ u # t
    OBVIOUS
  <2>1. s.ready[p] \in Seq(Task) /\ NoDup(s.ready[p])
    BY DEF Lists, KernelData
  <2>2. r.ready[p] = vListRemove(s.ready[p], t)
    BY <1>1
  <2> QED BY <2>1, <2>2, Removed
<1>4. /\ r.delayed \in Seq(Task) /\ NoDup(r.delayed) /\ Sublist(r.delayed, s.delayed)
      /\ \A u \in Task : Contains(r.delayed, u) <=> Contains(s.delayed, u) /\ u # t
  <2>1. s.delayed \in Seq(Task) /\ NoDup(s.delayed)
    BY DEF Lists, KernelData
  <2> QED BY <1>1, <2>1, Removed
<1>5. /\ r.overflow \in Seq(Task) /\ NoDup(r.overflow) /\ Sublist(r.overflow, s.overflow)
      /\ \A u \in Task : Contains(r.overflow, u) <=> Contains(s.overflow, u) /\ u # t
  <2>1. s.overflow \in Seq(Task) /\ NoDup(s.overflow)
    BY DEF Lists, KernelData
  <2> QED BY <1>1, <2>1, Removed
<1>6. s.wake \in [Task -> 0..TickModulus - 1] /\ s.tick \in 0..TickModulus - 1 /\ TickModulus \in Nat /\ TickModulus > 2
  BY <1>0, KernelAssumption DEF KernelData
<1>7. r.wake \in [Task -> 0..TickModulus - 1] /\ \A u \in Task : u # t => r.wake[u] = s.wake[u]
  BY <1>1, <1>6
<1>8. r \in KernelData
  <2>1. r.ready \in [Priorities -> Seq(Task)]
    BY <1>1, <1>3
  <2>2. r = [s EXCEPT !.ready = r.ready, !.delayed = r.delayed, !.overflow = r.overflow, !.wake = r.wake]
    BY <1>0, <1>1 DEF KernelData, RemoveState
  <2> HIDE DEF r
  <2> QED BY <1>0, <1>4, <1>5, <1>7, <2>1, <2>2 DEF KernelData
<1> HIDE DEF r
<1>9. Lists(r)
  BY <1>1, <1>3, <1>4, <1>5, <1>8 DEF Lists
<1>10. ASSUME Rows(s) PROVE Rows(r)
  <2>0. r.wake \in [Task -> Int] /\ s.wake \in [Task -> Int]
    BY <1>6, <1>7
  <2>1. Sorted(r.delayed, r.wake)
    <3>1. s.delayed \in Seq(Task)
      BY <1>0 DEF KernelData
    <3>2. \A u \in Task : Contains(r.delayed, u) => r.wake[u] = s.wake[u]
      BY <1>4, <1>7
    <3>3. Sorted(s.delayed, s.wake)
      BY <1>10 DEF Rows
    <3> QED BY <1>4, <2>0, <3>1, <3>2, <3>3, StaysSorted
  <2>2. Sorted(r.overflow, r.wake)
    <3>1. s.overflow \in Seq(Task)
      BY <1>0 DEF KernelData
    <3>2. \A u \in Task : Contains(r.overflow, u) => r.wake[u] = s.wake[u]
      BY <1>5, <1>7
    <3>3. Sorted(s.overflow, s.wake)
      BY <1>10 DEF Rows
    <3> QED BY <1>5, <2>0, <3>1, <3>2, <3>3, StaysSorted
  <2>3. r.tick = s.tick
    BY <1>2 DEF Untouched, Kept
  <2> QED BY <1>5, <1>7, <1>10, <2>1, <2>2, <2>3 DEF Rows
<1> QED BY <1>1, <1>2, <1>3, <1>4, <1>5, <1>7, <1>9, <1>10 DEF r

(* vListRemove of the event item *)
LEMMA RemoveEventIs ==
  ASSUME NEW s, Lists(s), NEW t \in Task
  PROVE  LET r == RemoveEvent(t, s)
         IN /\ Lists(r) /\ Untouched(s, r)
            /\ r.prio = s.prio /\ r.top = s.top /\ r.wake = s.wake
            /\ r.ready = s.ready /\ r.delayed = s.delayed /\ r.overflow = s.overflow /\ r.dying = s.dying
            /\ \A u \in Task : Contains(r.pending, u) <=> Contains(s.pending, u) /\ u # t
            /\ \A q \in Sem, u \in Task : Contains(r.waiting[q], u) <=> Contains(s.waiting[q], u) /\ u # t
            /\ Waits(s, r, {t})
<1> DEFINE r == RemoveEvent(t, s)
<1>0. s \in KernelData
  BY DEF Lists
<1>1. /\ r.pending = vListRemove(s.pending, t)
      /\ r.waiting = [q \in Sem |-> vListRemove(s.waiting[q], t)]
      /\ r.prio = s.prio /\ r.top = s.top /\ r.wake = s.wake
      /\ r.ready = s.ready /\ r.delayed = s.delayed /\ r.overflow = s.overflow /\ r.dying = s.dying
  BY <1>0 DEF KernelData, RemoveEvent
<1>2. Untouched(s, r)
  BY <1>0 DEF KernelData, RemoveEvent, Untouched, Kept
<1>3. \A q \in Sem :
        /\ r.waiting[q] \in Seq(Task) /\ NoDup(r.waiting[q])
        /\ \A u \in Task : Contains(r.waiting[q], u) <=> Contains(s.waiting[q], u) /\ u # t
  <2> SUFFICES ASSUME NEW q \in Sem
               PROVE  /\ r.waiting[q] \in Seq(Task) /\ NoDup(r.waiting[q])
                      /\ \A u \in Task : Contains(r.waiting[q], u) <=> Contains(s.waiting[q], u) /\ u # t
    OBVIOUS
  <2>1. s.waiting[q] \in Seq(Task) /\ NoDup(s.waiting[q])
    BY DEF Lists, KernelData
  <2>2. r.waiting[q] = vListRemove(s.waiting[q], t)
    BY <1>1
  <2> QED BY <2>1, <2>2, Removed
<1>4. /\ r.pending \in Seq(Task) /\ NoDup(r.pending)
      /\ \A u \in Task : Contains(r.pending, u) <=> Contains(s.pending, u) /\ u # t
  <2>1. s.pending \in Seq(Task) /\ NoDup(s.pending)
    BY DEF Lists, KernelData
  <2> QED BY <1>1, <2>1, Removed
<1>7. Waits(s, r, {t})
  <2> SUFFICES ASSUME NEW q \in Sem, ~Contains(s.waiting[q], t) PROVE r.waiting[q] = s.waiting[q]
    BY DEF Waits
  <2>1. vListRemove(s.waiting[q], t) = s.waiting[q]
    BY DEF vListRemove, RemoveFirst, Contains
  <2> QED BY <1>1, <2>1
<1>5. r \in KernelData
  <2>1. r.waiting \in [Sem -> Seq(Task)]
    BY <1>1, <1>3
  <2>2. r = [s EXCEPT !.pending = r.pending, !.waiting = r.waiting]
    BY <1>0, <1>1 DEF KernelData, RemoveEvent
  <2> HIDE DEF r
  <2> QED BY <1>0, <1>4, <2>1, <2>2 DEF KernelData
<1> HIDE DEF r
<1>6. Lists(r)
  BY <1>1, <1>3, <1>4, <1>5 DEF Lists
<1> QED BY <1>1, <1>2, <1>3, <1>4, <1>6, <1>7 DEF r

(* What prvAddTaskToReadyQueue changes, for a task that is not on its ready   *)
(* list.                                                                      *)
LEMMA AddIs ==
  ASSUME NEW s, Lists(s), NEW t \in Task, ~Contains(s.ready[s.prio[t]], t)
  PROVE  LET r == AddTaskToReadyQueue(t, s)
         IN /\ Lists(r) /\ Untouched(s, r)
            /\ r.prio = s.prio /\ r.wake = s.wake /\ r.delayed = s.delayed /\ r.overflow = s.overflow
            /\ r.pending = s.pending /\ r.dying = s.dying /\ r.waiting = s.waiting
            /\ \A p \in Priorities, u \in Task :
                 Contains(r.ready[p], u) <=> Contains(s.ready[p], u) \/ (u = t /\ p = s.prio[t])
            /\ Tops(s) => Tops(r)
<1> DEFINE r == AddTaskToReadyQueue(t, s)
           pt == s.prio[t]
<1>0. s \in KernelData
  BY DEF Lists
<1>1. pt \in Priorities /\ s.top \in Priorities
  BY <1>0 DEF KernelData
<1> HIDE DEF pt
<1>2. /\ r.ready = [s.ready EXCEPT ![pt] = Append(@, t)]
      /\ r.top = Max({s.top, pt})
      /\ r.prio = s.prio /\ r.wake = s.wake /\ r.delayed = s.delayed /\ r.overflow = s.overflow
      /\ r.pending = s.pending /\ r.dying = s.dying /\ r.waiting = s.waiting
  BY <1>0 DEF KernelData, AddTaskToReadyQueue, pt
<1>3. Untouched(s, r)
  BY <1>0 DEF KernelData, AddTaskToReadyQueue, Untouched, Kept
<1>4. /\ Append(s.ready[pt], t) \in Seq(Task) /\ NoDup(Append(s.ready[pt], t))
      /\ \A u : Contains(Append(s.ready[pt], t), u) <=> Contains(s.ready[pt], u) \/ u = t
  <2>1. s.ready[pt] \in Seq(Task) /\ NoDup(s.ready[pt]) /\ ~Contains(s.ready[pt], t)
    BY <1>0, <1>1 DEF Lists, KernelData, pt
  <2> QED BY <2>1, Appended
<1>5. r.top \in Priorities /\ r.top >= s.top /\ r.top >= pt
  <2>1. s.top \in Nat /\ pt \in Nat
    BY <1>1, PrioritiesAre
  <2> QED BY <1>1, <1>2, <2>1, MaxOfTwo
<1>6. s.ready \in [Priorities -> Seq(Task)]
  BY <1>0 DEF KernelData
<1>7. r.ready \in [Priorities -> Seq(Task)]
  BY <1>1, <1>2, <1>4, <1>6
<1>8. r \in KernelData
  <2>1. r = [s EXCEPT !.ready = r.ready, !.top = r.top]
    BY <1>0, <1>2 DEF KernelData, AddTaskToReadyQueue, pt
  <2> HIDE DEF r
  <2> QED BY <1>0, <1>5, <1>7, <2>1 DEF KernelData
<1> HIDE DEF r
<1>9. Lists(r)
  <2>1. \A p \in Priorities : NoDup(r.ready[p])
    BY <1>2, <1>4, <1>6 DEF Lists
  <2> QED BY <1>2, <1>8, <2>1 DEF Lists
<1>10. \A p \in Priorities, u \in Task :
         Contains(r.ready[p], u) <=> Contains(s.ready[p], u) \/ (u = t /\ p = pt)
  BY <1>1, <1>2, <1>4, <1>6
<1>11. ASSUME Tops(s) PROVE Tops(r)
  <2> SUFFICES ASSUME NEW p \in Priorities, r.ready[p] # <<>> PROVE p <= r.top
    BY DEF Tops
  <2>1. p \in Nat /\ s.top \in Nat /\ pt \in Nat /\ r.top \in Nat
    BY <1>1, <1>5, PrioritiesAre
  <2>2. CASE p = pt
    BY <1>5, <2>2
  <2>3. CASE p # pt
    <3>1. r.ready[p] = s.ready[p]
      BY <1>2, <1>6, <2>3
    <3>2. p <= s.top
      BY <1>11, <3>1 DEF Tops
    <3> QED BY <1>5, <2>1, <3>2
  <2> QED BY <2>2, <2>3
<1> QED BY <1>2, <1>3, <1>9, <1>10, <1>11 DEF r, pt

(* s has become r in that the tasks of W have been made ready.                *)
MadeReady(s, r, W) ==
  /\ Sound(r) /\ Untouched(s, r)
  /\ r.prio = s.prio /\ r.dying = s.dying
  /\ \A u \in Task : Ready(u, r) <=> Ready(u, s) \/ u \in W
  /\ \A u \in Task : Contains(r.delayed, u) <=> Contains(s.delayed, u) /\ u \notin W
  /\ \A u \in Task : Contains(r.overflow, u) <=> Contains(s.overflow, u) /\ u \notin W
  /\ \A u \in Task : Contains(r.pending, u) <=> Contains(s.pending, u) /\ u \notin W
  /\ \A q \in Sem, u \in Task : Contains(r.waiting[q], u) <=> Contains(s.waiting[q], u) /\ u \notin W
  /\ \A u \in Task : u \notin W => r.wake[u] = s.wake[u]
  /\ Rows(s) => Rows(r)
  /\ Waits(s, r, W)

(* A task that was waiting for anything is ready afterwards.                  *)
LEMMA MakeReadyIs ==
  ASSUME NEW s, Sound(s), NEW t \in Task, ~Contains(s.dying, t)
  PROVE  MadeReady(s, MakeReady(t, s), {t})
<1> DEFINE a == RemoveState(t, s)
           b == RemoveEvent(t, a)
           r == AddTaskToReadyQueue(t, b)
<1>0. /\ Lists(s) /\ Places(s) /\ Events(s) /\ Tops(s) /\ Ready(Idle, s)
      /\ s.prio \in [Task -> Priorities]
  BY DEF Sound, Lists, KernelData
<1>1. /\ Lists(a) /\ Untouched(s, a)
      /\ a.prio = s.prio /\ a.top = s.top
      /\ a.pending = s.pending /\ a.dying = s.dying /\ a.waiting = s.waiting
      /\ \A p \in Priorities, u \in Task : Contains(a.ready[p], u) <=> Contains(s.ready[p], u) /\ u # t
      /\ \A u \in Task : Contains(a.delayed, u) <=> Contains(s.delayed, u) /\ u # t
      /\ \A u \in Task : Contains(a.overflow, u) <=> Contains(s.overflow, u) /\ u # t
      /\ \A u \in Task : u # t => a.wake[u] = s.wake[u]
      /\ Rows(s) => Rows(a)
  BY <1>0, RemoveStateIs
<1>2. Tops(a)
  <2> SUFFICES ASSUME NEW p \in Priorities, a.ready[p] # <<>> PROVE p <= a.top
    BY DEF Tops
  <2>1. a.ready[p] \in Seq(Task) /\ s.ready[p] \in Seq(Task)
    BY <1>0, <1>1 DEF Lists, KernelData
  <2>2. PICK u \in Task : Contains(a.ready[p], u)
    BY <2>1, Emptied
  <2>3. s.ready[p] # <<>>
    BY <1>1, <2>1, <2>2, Emptied
  <2> QED BY <1>0, <1>1, <2>3 DEF Tops
<1> HIDE DEF a
<1>3. /\ Lists(b) /\ Untouched(a, b)
      /\ b.prio = a.prio /\ b.top = a.top /\ b.wake = a.wake
      /\ b.ready = a.ready /\ b.delayed = a.delayed /\ b.overflow = a.overflow /\ b.dying = a.dying
      /\ \A u \in Task : Contains(b.pending, u) <=> Contains(a.pending, u) /\ u # t
      /\ \A q \in Sem, u \in Task : Contains(b.waiting[q], u) <=> Contains(a.waiting[q], u) /\ u # t
      /\ Waits(a, b, {t})
  BY <1>1, RemoveEventIs
<1> HIDE DEF b
<1>4. Tops(b) /\ (Rows(a) => Rows(b))
  BY <1>2, <1>3 DEF Tops, Rows, Untouched, Kept
<1>5. ~Contains(b.ready[b.prio[t]], t)
  BY <1>0, <1>1, <1>3
<1>6. /\ Lists(r) /\ Untouched(b, r)
      /\ r.prio = b.prio /\ r.wake = b.wake /\ r.delayed = b.delayed /\ r.overflow = b.overflow
      /\ r.pending = b.pending /\ r.dying = b.dying /\ r.waiting = b.waiting
      /\ \A p \in Priorities, u \in Task :
           Contains(r.ready[p], u) <=> Contains(b.ready[p], u) \/ (u = t /\ p = b.prio[t])
      /\ Tops(b) => Tops(r)
  BY <1>3, <1>5, AddIs
<1> HIDE DEF r
<1>7. Rows(b) => Rows(r)
  BY <1>6 DEF Rows, Untouched, Kept
<1>8. Untouched(s, r)
  BY <1>1, <1>3, <1>6 DEF Untouched, Kept
<1>9. /\ \A p \in Priorities, u \in Task :
           Contains(r.ready[p], u) <=> (Contains(s.ready[p], u) /\ u # t) \/ (u = t /\ p = s.prio[t])
      /\ \A u \in Task : Contains(r.delayed, u) <=> Contains(s.delayed, u) /\ u # t
      /\ \A u \in Task : Contains(r.overflow, u) <=> Contains(s.overflow, u) /\ u # t
      /\ \A u \in Task : Contains(r.pending, u) <=> Contains(s.pending, u) /\ u # t
      /\ \A q \in Sem, u \in Task : Contains(r.waiting[q], u) <=> Contains(s.waiting[q], u) /\ u # t
      /\ r.prio = s.prio /\ r.dying = s.dying
  BY <1>1, <1>3, <1>6
<1>10. \A u \in Task : Ready(u, r) <=> Ready(u, s) \/ u = t
  BY <1>0, <1>9 DEF Ready
<1>11. Places(r)
  BY <1>0, <1>9 DEF Places, Asleep
<1>12. Events(r)
  BY <1>0, <1>9 DEF Events, Asleep
<1>13. Ready(Idle, r)
  BY <1>0, <1>10, KernelAssumption
<1>14. Sound(r)
  BY <1>2, <1>4, <1>6, <1>11, <1>12, <1>13 DEF Sound
<1>16. Waits(s, r, {t})
  BY <1>1, <1>3, <1>6 DEF Waits
<1>15. MakeReady(t, s) = r
  BY DEF MakeReady, a, b, r
<1>17. \A u \in Task : u # t => r.wake[u] = s.wake[u]
  BY <1>1, <1>3, <1>6
<1>18. Rows(s) => Rows(r)
  BY <1>1, <1>3, <1>4, <1>7
<1>19. MadeReady(s, r, {t})
  <2> DEFINE W == {t}
  <2>1. \A u : u \in W <=> u = t
    OBVIOUS
  <2>2. Waits(s, r, W)
    BY <1>16
  <2> HIDE DEF W
  <2>3. MadeReady(s, r, W)
    BY <1>8, <1>9, <1>10, <1>14, <1>17, <1>18, <2>1, <2>2 DEF MadeReady
  <2> QED BY <2>3 DEF W
<1> QED BY <1>15, <1>19

(* A task that is ready goes to sleep until another time.                     *)
LEMMA SleepIs ==
  ASSUME NEW s, Lists(s), Places(s), Tops(s), Ready(Idle, s), NEW t \in Task \ {Idle},
         ~Asleep(t, s), ~Contains(s.dying, t),
         NEW at \in 0..TickModulus - 1
  PROVE  LET r == Sleep(t, at, s)
         IN /\ Lists(r) /\ Places(r) /\ Tops(r) /\ Ready(Idle, r) /\ Untouched(s, r)
            /\ r.prio = s.prio /\ r.dying = s.dying /\ r.pending = s.pending /\ r.waiting = s.waiting
            /\ \A u \in Task : Ready(u, r) <=> Ready(u, s) /\ u # t
            /\ \A u \in Task : Asleep(u, r) <=> Asleep(u, s) \/ u = t
            /\ r.wake[t] = at /\ \A u \in Task : u # t => r.wake[u] = s.wake[u]
            /\ Rows(s) => Rows(r)
            /\ Ahead(s) /\ at # s.tick => Ahead(r)
<1> DEFINE b == RemoveState(t, s)
           a == [b EXCEPT !.wake[t] = at]
           r == Sleep(t, at, s)
<1>0. s \in KernelData /\ s.prio \in [Task -> Priorities] /\ t \in Task
  BY DEF Lists, KernelData
<1>1. /\ Lists(b) /\ Untouched(s, b)
      /\ b.prio = s.prio /\ b.top = s.top
      /\ b.pending = s.pending /\ b.dying = s.dying /\ b.waiting = s.waiting
      /\ \A p \in Priorities, u \in Task : Contains(b.ready[p], u) <=> Contains(s.ready[p], u) /\ u # t
      /\ \A u \in Task : Contains(b.delayed, u) <=> Contains(s.delayed, u) /\ u # t
      /\ \A u \in Task : Contains(b.overflow, u) <=> Contains(s.overflow, u) /\ u # t
      /\ \A u \in Task : u # t => b.wake[u] = s.wake[u]
      /\ Rows(s) => Rows(b)
  BY <1>0, RemoveStateIs
<1>2. Tops(b)
  <2> SUFFICES ASSUME NEW p \in Priorities, b.ready[p] # <<>> PROVE p <= b.top
    BY DEF Tops
  <2>1. b.ready[p] \in Seq(Task) /\ s.ready[p] \in Seq(Task)
    BY <1>0, <1>1 DEF Lists, KernelData
  <2>2. PICK u \in Task : Contains(b.ready[p], u)
    BY <2>1, Emptied
  <2>3. s.ready[p] # <<>>
    BY <1>1, <2>1, <2>2, Emptied
  <2> QED BY <1>1, <2>3 DEF Tops
<1> HIDE DEF b
<1>3. b \in KernelData
  BY <1>1 DEF Lists
<1>4. /\ a.wake = [b.wake EXCEPT ![t] = at]
      /\ a.ready = b.ready /\ a.delayed = b.delayed /\ a.overflow = b.overflow
      /\ a.prio = b.prio /\ a.top = b.top
      /\ a.pending = b.pending /\ a.dying = b.dying /\ a.waiting = b.waiting
      /\ Untouched(b, a)
  BY <1>3 DEF KernelData, Untouched, Kept
<1>5. TickModulus \in Nat /\ b.wake \in [Task -> 0..TickModulus - 1] /\ s.tick \in 0..TickModulus - 1
  BY <1>0, <1>3, KernelAssumption DEF KernelData
<1>6. /\ a.wake \in [Task -> 0..TickModulus - 1] /\ a.wake \in [Task -> Int] /\ b.wake \in [Task -> Int]
      /\ a.wake[t] = at /\ \A u \in Task : u # t => a.wake[u] = s.wake[u] /\ a.wake[u] = b.wake[u]
  BY <1>0, <1>1, <1>4, <1>5
<1>7. a \in KernelData
  <2>1. a = [b EXCEPT !.wake = a.wake]
    BY <1>3 DEF KernelData
  <2> HIDE DEF a
  <2> QED BY <1>3, <1>6, <2>1 DEF KernelData
<1>8. Lists(a)
  BY <1>1, <1>4, <1>7 DEF Lists
<1>9. /\ r = IF at < a.tick THEN [a EXCEPT !.overflow = vListInsert(@, t, a.wake)]
                           ELSE [a EXCEPT !.delayed = vListInsert(@, t, a.wake)]
      /\ a.tick = s.tick
  BY <1>1, <1>4 DEF Sleep, a, b, Untouched, Kept
<1> HIDE DEF a
<1> DEFINE l == vListInsert(a.overflow, t, a.wake)
           d == vListInsert(a.delayed, t, a.wake)
<1>10. /\ ~Contains(a.overflow, t) /\ ~Contains(a.delayed, t)
       /\ a.overflow \in Seq(Task) /\ a.delayed \in Seq(Task) /\ NoDup(a.overflow) /\ NoDup(a.delayed)
  BY <1>0, <1>1, <1>4, <1>8 DEF Lists, KernelData
<1>11. /\ l \in Seq(Task) /\ NoDup(l) /\ \A u : Contains(l, u) <=> Contains(a.overflow, u) \/ u = t
       /\ Sorted(a.overflow, a.wake) => Sorted(l, a.wake)
  <2>1. PICK list \in Seq(Task) : list = a.overflow
    BY <1>10
  <2>2. PICK key \in [Task -> Int] : key = a.wake
    BY <1>6
  <2>3. NoDup(list) /\ ~Contains(list, t)
    BY <1>10, <2>1
  <2>4. /\ vListInsert(list, t, key) \in Seq(Task) /\ NoDup(vListInsert(list, t, key))
        /\ \A u : Contains(vListInsert(list, t, key), u) <=> Contains(list, u) \/ u = t
        /\ Sorted(list, key) => Sorted(vListInsert(list, t, key), key)
    BY <1>0, <2>3, InsertedSorted
  <2> QED BY <2>1, <2>2, <2>4
<1>12. /\ d \in Seq(Task) /\ NoDup(d) /\ \A u : Contains(d, u) <=> Contains(a.delayed, u) \/ u = t
       /\ Sorted(a.delayed, a.wake) => Sorted(d, a.wake)
  <2>1. PICK list \in Seq(Task) : list = a.delayed
    BY <1>10
  <2>2. PICK key \in [Task -> Int] : key = a.wake
    BY <1>6
  <2>3. NoDup(list) /\ ~Contains(list, t)
    BY <1>10, <2>1
  <2>4. /\ vListInsert(list, t, key) \in Seq(Task) /\ NoDup(vListInsert(list, t, key))
        /\ \A u : Contains(vListInsert(list, t, key), u) <=> Contains(list, u) \/ u = t
        /\ Sorted(list, key) => Sorted(vListInsert(list, t, key), key)
    BY <1>0, <2>3, InsertedSorted
  <2> QED BY <2>1, <2>2, <2>4
<1> HIDE DEF l, d
<1>13. Rows(s) => Sorted(a.delayed, a.wake) /\ Sorted(a.overflow, a.wake)
  <2> SUFFICES ASSUME Rows(b) PROVE Sorted(a.delayed, a.wake) /\ Sorted(a.overflow, a.wake)
    BY <1>1
  <2>1. Sorted(b.delayed, b.wake) /\ Sorted(b.overflow, b.wake)
    BY DEF Rows
  <2>2. \A u \in Task : Contains(a.delayed, u) => a.wake[u] = b.wake[u]
    BY <1>6, <1>10
  <2>3. \A u \in Task : Contains(a.overflow, u) => a.wake[u] = b.wake[u]
    BY <1>6, <1>10
  <2>5. /\ b.delayed \in Seq(Task) /\ b.overflow \in Seq(Task)
        /\ a.delayed \in Seq(Task) /\ a.overflow \in Seq(Task)
        /\ a.wake \in [Task -> Int] /\ b.wake \in [Task -> Int]
    BY <1>4, <1>6, <1>10
  <2>6. ASSUME NEW x \in Seq(Task), Sorted(x, b.wake), \A u \in Task : Contains(x, u) => a.wake[u] = b.wake[u]
        PROVE  Sorted(x, a.wake)
    <3>1. Sublist(x, x)
      BY SameSublist
    <3> QED BY <2>5, <2>6, <3>1, StaysSorted
  <2>7. Sorted(a.delayed, a.wake)
    BY <1>4, <2>1, <2>2, <2>5, <2>6
  <2>8. Sorted(a.overflow, a.wake)
    BY <1>4, <2>1, <2>3, <2>5, <2>6
  <2> QED BY <2>7, <2>8
<1>14. /\ r.ready = a.ready /\ r.prio = a.prio /\ r.top = a.top /\ r.wake = a.wake
       /\ r.pending = a.pending /\ r.dying = a.dying /\ r.waiting = a.waiting
       /\ Untouched(a, r)
       /\ IF at < a.tick THEN r.overflow = l /\ r.delayed = a.delayed
                         ELSE r.overflow = a.overflow /\ r.delayed = d
       /\ r \in KernelData
  <2>1. CASE at < a.tick
    <3>1. r = [a EXCEPT !.overflow = l]
      BY <1>7, <1>9, <2>1 DEF KernelData, l
    <3> HIDE DEF r
    <3> QED BY <1>7, <1>11, <2>1, <3>1 DEF KernelData, Untouched, Kept
  <2>2. CASE ~(at < a.tick)
    <3>1. r = [a EXCEPT !.delayed = d]
      BY <1>7, <1>9, <2>2 DEF KernelData, d
    <3> HIDE DEF r
    <3> QED BY <1>7, <1>12, <2>2, <3>1 DEF KernelData, Untouched, Kept
  <2> QED BY <2>1, <2>2
<1> HIDE DEF r
<1>15. Lists(r)
  BY <1>8, <1>11, <1>12, <1>14 DEF Lists
<1>16. /\ \A p \in Priorities, u \in Task : Contains(r.ready[p], u) <=> Contains(s.ready[p], u) /\ u # t
       /\ \A u \in Task : Contains(r.delayed, u) <=> Contains(s.delayed, u) \/ (u = t /\ ~(at < a.tick))
       /\ \A u \in Task : Contains(r.overflow, u) <=> Contains(s.overflow, u) \/ (u = t /\ at < a.tick)
       /\ r.prio = s.prio /\ r.dying = s.dying /\ r.pending = s.pending /\ r.waiting = s.waiting
  BY <1>0, <1>1, <1>4, <1>11, <1>12, <1>14 DEF Asleep
<1>17. Places(r)
  BY <1>0, <1>16 DEF Places, Asleep
<1>18. Tops(r)
  BY <1>2, <1>4, <1>14 DEF Tops
<1>19. /\ \A u \in Task : Ready(u, r) <=> Ready(u, s) /\ u # t
       /\ \A u \in Task : Asleep(u, r) <=> Asleep(u, s) \/ u = t
  BY <1>16 DEF Ready, Asleep
<1>20. Ready(Idle, r)
  BY <1>19, KernelAssumption
<1>21. Untouched(s, r)
  BY <1>1, <1>4, <1>14 DEF Untouched, Kept
<1>22. ASSUME Rows(s) PROVE Rows(r)
  <2>1. Sorted(r.delayed, r.wake) /\ Sorted(r.overflow, r.wake)
    BY <1>11, <1>12, <1>13, <1>14, <1>22
  <2>2. \A u \in Task : Contains(r.overflow, u) => r.wake[u] < r.tick
    <3> SUFFICES ASSUME NEW u \in Task, Contains(r.overflow, u) PROVE r.wake[u] < r.tick
      OBVIOUS
    <3>1. r.tick = s.tick /\ a.tick = s.tick /\ r.wake = a.wake
      BY <1>9, <1>14, <1>21 DEF Untouched, Kept
    <3>2. CASE u = t
      BY <1>6, <1>16, <3>1, <3>2 DEF Asleep
    <3>3. CASE u # t
      BY <1>6, <1>16, <1>22, <3>1, <3>3 DEF Rows
    <3> QED BY <3>2, <3>3
  <2> QED BY <2>1, <2>2 DEF Rows
<1>23. ASSUME Ahead(s), at # s.tick PROVE Ahead(r)
  <2> SUFFICES ASSUME NEW u \in Task, Contains(r.delayed, u) PROVE r.wake[u] > r.tick
    BY DEF Ahead
  <2>1. r.tick = s.tick /\ a.tick = s.tick /\ r.wake = a.wake
    BY <1>9, <1>14, <1>21 DEF Untouched, Kept
  <2>2. CASE u = t
    <3>1. ~(at < s.tick)
      BY <1>16, <2>1, <2>2 DEF Asleep
    <3> QED BY <1>5, <1>6, <1>23, <2>1, <2>2, <3>1
  <2>3. CASE u # t
    BY <1>6, <1>16, <1>23, <2>1, <2>3 DEF Ahead
  <2> QED BY <2>2, <2>3
<1> QED BY <1>6, <1>14, <1>15, <1>16, <1>17, <1>18, <1>19, <1>20, <1>21, <1>22, <1>23 DEF r

-------------------------------------------------------------------------------
(* The scheduler *)

(* The most urgent of the ready tasks becomes the current one.                *)
LEMMA SwitchIs ==
  ASSUME NEW s, Sound(s)
  PROVE  LET r == vTaskSwitchContext(s)
         IN /\ Sound(r) /\ Kept(s, r) /\ Forward(s, r)
            /\ r.prio = s.prio /\ r.wake = s.wake /\ r.delayed = s.delayed /\ r.overflow = s.overflow
            /\ r.pending = s.pending /\ r.dying = s.dying /\ r.waiting = s.waiting
            /\ \A p \in Priorities, u \in Task : Contains(r.ready[p], u) <=> Contains(s.ready[p], u)
            /\ IF s.suspended THEN r.cur = s.cur /\ r.missedYield
               ELSE /\ r.missedYield = s.missedYield
                    /\ Ready(r.cur, r)
                    /\ \A p \in Priorities : p > r.prio[r.cur] => r.ready[p] = <<>>
<1> DEFINE r == vTaskSwitchContext(s)
<1>0. /\ s \in KernelData /\ Lists(s) /\ Places(s) /\ Events(s) /\ Tops(s) /\ Ready(Idle, s)
      /\ s.prio \in [Task -> Priorities] /\ s.ready \in [Priorities -> Seq(Task)] /\ s.top \in Priorities
  BY DEF Sound, Lists, KernelData
<1>1. CASE s.suspended
  <2>1. r = [s EXCEPT !.missedYield = TRUE]
    BY <1>1 DEF vTaskSwitchContext
  <2> HIDE DEF r
  <2>2. /\ r \in KernelData /\ r.missedYield /\ r.cur = s.cur /\ Kept(s, r)
        /\ r.prio = s.prio /\ r.wake = s.wake /\ r.delayed = s.delayed /\ r.overflow = s.overflow
        /\ r.pending = s.pending /\ r.dying = s.dying /\ r.waiting = s.waiting
        /\ r.ready = s.ready /\ r.top = s.top
    BY <1>0, <2>1 DEF KernelData, Kept
  <2>3. Sound(r)
    BY <1>0, <2>2 DEF Sound, Lists, Places, Events, Tops, Asleep, Ready
  <2>4. Forward(s, r)
    BY <2>2, ForwardNot
  <2> QED BY <1>1, <2>2, <2>3, <2>4 DEF r
<1>2. CASE ~s.suspended
  <2> DEFINE P == {p \in 0..s.top : s.ready[p] # <<>>}
             m == Max(P)
             h == Head(s.ready[m])
             l == Append(Tail(s.ready[m]), h)
  <2>1. r = [s EXCEPT !.top = m, !.cur = h, !.ready[m] = l]
    BY <1>2 DEF vTaskSwitchContext
  <2>2. 0..s.top \subseteq Priorities /\ s.top \in Nat /\ Priorities \subseteq Nat
    BY <1>0, PrioritiesAre
  <2>3. \A p \in Priorities : s.ready[p] # <<>> => p \in P
    BY <1>0, <2>2 DEF Tops
  <2>4. P # {}
    <3>1. PICK p \in Priorities : Contains(s.ready[p], Idle)
      BY <1>0 DEF Ready
    <3>2. s.ready[p] # <<>>
      BY <1>0, <3>1, Emptied, KernelAssumption
    <3> QED BY <2>3, <3>2
  <2>5. P \subseteq Nat /\ \A p \in P : p <= s.top
    BY <2>2
  <2>6. m \in P /\ \A p \in P : p <= m
    BY <2>2, <2>4, <2>5, GreatestElement
  <2>7. m \in Priorities /\ s.ready[m] # <<>>
    BY <2>2, <2>6
  <2> HIDE DEF P, m
  <2>8. s.ready[m] \in Seq(Task) /\ NoDup(s.ready[m])
    BY <1>0, <2>7 DEF Lists
  <2>9. h \in Task /\ Contains(s.ready[m], h)
    BY <2>7, <2>8, Tailed
  <2>10. l \in Seq(Task) /\ l # <<>> /\ NoDup(l) /\ \A u : Contains(l, u) <=> Contains(s.ready[m], u)
    BY <2>7, <2>8, Turned
  <2> HIDE DEF r, h, l
  <2>11. /\ r.cur = h /\ r.top = m /\ r.ready = [s.ready EXCEPT ![m] = l]
         /\ r.missedYield = s.missedYield /\ Kept(s, r)
         /\ r.prio = s.prio /\ r.wake = s.wake /\ r.delayed = s.delayed /\ r.overflow = s.overflow
         /\ r.pending = s.pending /\ r.dying = s.dying /\ r.waiting = s.waiting
    BY <1>0, <2>1 DEF KernelData, Kept
  <2>12. r \in KernelData
    <3>1. [s.ready EXCEPT ![m] = l] \in [Priorities -> Seq(Task)]
      BY <1>0, <2>10
    <3> QED BY <1>0, <2>1, <2>7, <2>9, <3>1 DEF KernelData
  <2>13. Lists(r)
    <3>1. \A p \in Priorities : NoDup(r.ready[p])
      BY <1>0, <2>7, <2>10, <2>11 DEF Lists
    <3> QED BY <1>0, <2>11, <2>12, <3>1 DEF Lists
  <2>14. \A p \in Priorities, u \in Task : Contains(r.ready[p], u) <=> Contains(s.ready[p], u)
    BY <1>0, <2>7, <2>10, <2>11
  <2>15. Places(r) /\ Events(r)
    BY <1>0, <2>11, <2>14 DEF Places, Events, Asleep
  <2>16. \A p \in Priorities : r.ready[p] # <<>> => p <= m
    BY <1>0, <2>3, <2>6, <2>7, <2>11
  <2>17. \A u \in Task : Ready(u, r) <=> Ready(u, s)
    BY <2>14 DEF Ready
  <2>18. Sound(r)
    BY <1>0, <2>11, <2>13, <2>15, <2>16, <2>17, KernelAssumption DEF Sound, Tops
  <2>19. Forward(s, r)
    BY <2>11, <2>17 DEF Forward, Asleep, Awake
  <2>20. r.prio[r.cur] = m
    BY <1>0, <2>7, <2>9, <2>11 DEF Places
  <2>21. Ready(r.cur, r)
    BY <2>7, <2>9, <2>11, <2>14 DEF Ready
  <2>22. \A p \in Priorities : p > r.prio[r.cur] => r.ready[p] = <<>>
    <3> SUFFICES ASSUME NEW p \in Priorities, p > r.prio[r.cur], r.ready[p] # <<>> PROVE FALSE
      OBVIOUS
    <3>1. p <= m
      BY <2>16
    <3>2. p \in Nat /\ m \in Nat /\ p > m
      BY <2>2, <2>7, <2>20
    <3> QED BY <3>1, <3>2
  <2> QED BY <1>2, <2>11, <2>14, <2>18, <2>19, <2>21, <2>22 DEF r
<1> QED BY <1>1, <1>2

(* The loop of MakeAllReady as a sequence of states *)
LEMMA MakeAllReadyLoop ==
  ASSUME NEW list \in Seq(Task), NEW s
  PROVE  \E f : /\ f[0] = s /\ f[Len(list)] = MakeAllReady(list, s)
                /\ \A n \in 1..Len(list) : f[n] = MakeReady(list[n], f[n - 1])
<1> DEFINE N == Len(list)
           D(m, f) == [n \in 0..m |-> IF n = 0 THEN s ELSE MakeReady(list[n], f[n - 1])]
           B == {m \in Nat : m <= N /\ ~\E f : f = D(m, f)}
<1>0. N \in Nat
  OBVIOUS
<1>1. B = {}
  <2>1. SUFFICES ASSUME B # {} PROVE FALSE
    OBVIOUS
  <2>2. B \subseteq Nat
    OBVIOUS
  <2> DEFINE m == Min(B)
  <2>3. m \in B /\ \A n \in B : m <= n
    BY <2>1, <2>2, LeastElement
  <2> HIDE DEF m
  <2>4. CASE m = 0
    <3> DEFINE g == [n \in 0..0 |-> s]
    <3>1. g = D(0, g)
      OBVIOUS
    <3> QED BY <2>3, <2>4, <3>1
  <2>5. CASE m # 0
    <3>1. m \in Nat /\ m <= N /\ m - 1 \in Nat /\ m - 1 <= N /\ ~(m <= m - 1)
      BY <1>0, <2>3, <2>5
    <3>2. m - 1 \notin B
      BY <2>3, <3>1
    <3>3. PICK f : f = D(m - 1, f)
      BY <3>1, <3>2
    <3> DEFINE g == [n \in 0..m |-> IF n < m THEN f[n] ELSE MakeReady(list[m], f[m - 1])]
    <3>4. ASSUME NEW n \in 0..m PROVE g[n] = IF n = 0 THEN s ELSE MakeReady(list[n], g[n - 1])
      <4>1. CASE n = 0
        BY <2>5, <3>1, <3>3, <4>1
      <4>2. CASE n # 0 /\ n < m
        <5>1. n \in 0..m - 1 /\ n - 1 \in 0..m /\ n - 1 < m
          BY <3>1, <4>2
        <5>2. f[n] = MakeReady(list[n], f[n - 1])
          BY <3>3, <4>2, <5>1
        <5> QED BY <4>2, <5>1, <5>2
      <4>3. CASE n = m
        <5>1. m - 1 \in 0..m /\ m - 1 < m /\ ~(m < m)
          BY <3>1
        <5> QED BY <2>5, <4>3, <5>1
      <4> QED BY <3>1, <4>1, <4>2, <4>3
    <3>5. g = D(m, g)
      BY <3>4
    <3> QED BY <2>3, <3>5
  <2> QED BY <2>4, <2>5
<1>2. \E f : f = D(N, f)
  BY <1>0, <1>1
<1> DEFINE after_n == CHOOSE f : f = D(N, f)
<1>3. after_n = D(N, after_n)
  BY <1>2
<1>4. MakeAllReady(list, s) = after_n[N]
  BY DEF MakeAllReady
<1> HIDE DEF after_n
<1>5. after_n[0] = s
  BY <1>0, <1>3
<1>6. \A n \in 1..N : after_n[n] = MakeReady(list[n], after_n[n - 1])
  BY <1>0, <1>3
<1> QED BY <1>4, <1>5, <1>6

(* Two groups of tasks made ready one after the other.                        *)
LEMMA MadeReadyTwice ==
  ASSUME NEW s, NEW r, NEW z, NEW V, NEW W, MadeReady(s, r, V), MadeReady(r, z, W)
  PROVE  MadeReady(s, z, V \cup W)
<1>1. Untouched(s, z) /\ Sound(z) /\ z.prio = s.prio /\ z.dying = s.dying
  BY DEF MadeReady, Untouched, Kept
<1>2. /\ \A u \in Task : Ready(u, z) <=> Ready(u, s) \/ u \in V \cup W
      /\ \A u \in Task : Contains(z.delayed, u) <=> Contains(s.delayed, u) /\ u \notin V \cup W
      /\ \A u \in Task : Contains(z.overflow, u) <=> Contains(s.overflow, u) /\ u \notin V \cup W
      /\ \A u \in Task : Contains(z.pending, u) <=> Contains(s.pending, u) /\ u \notin V \cup W
      /\ \A q \in Sem, u \in Task : Contains(z.waiting[q], u) <=> Contains(s.waiting[q], u) /\ u \notin V \cup W
      /\ \A u \in Task : u \notin V \cup W => z.wake[u] = s.wake[u]
      /\ Rows(s) => Rows(z)
  BY DEF MadeReady
<1>3. Waits(s, z, V \cup W)
  <2> SUFFICES ASSUME NEW q \in Sem, \A u \in V \cup W : ~Contains(s.waiting[q], u)
               PROVE  z.waiting[q] = s.waiting[q]
    BY DEF Waits
  <2>1. r.waiting[q] = s.waiting[q]
    BY DEF MadeReady, Waits
  <2> QED BY <2>1 DEF MadeReady, Waits
<1> QED BY <1>1, <1>2, <1>3 DEF MadeReady

(* Making sleepers ready is a step forward.                                   *)
LEMMA MadeReadyForward ==
  ASSUME NEW s, NEW r, NEW W, MadeReady(s, r, W), \A u \in W : Asleep(u, s)
  PROVE  Forward(s, r)
BY DEF MadeReady, Forward, Asleep, Awake

(* Every task of the list is made ready, and no other.                        *)
LEMMA MakeAllReadyIs ==
  ASSUME NEW s, Sound(s), NEW list \in Seq(Task),
         \A u \in Task : Contains(list, u) => ~Contains(s.dying, u)
  PROVE  MadeReady(s, MakeAllReady(list, s), {u \in Task : Contains(list, u)})
<1> DEFINE N == Len(list)
           W(n) == {list[i] : i \in 1..n}
<1>0. N \in Nat
  OBVIOUS
<1>1. PICK f : /\ f[0] = s /\ f[N] = MakeAllReady(list, s)
               /\ \A n \in 1..N : f[n] = MakeReady(list[n], f[n - 1])
  BY MakeAllReadyLoop
<1> DEFINE B == {n \in Nat : n <= N /\ ~MadeReady(s, f[n], W(n))}
<1>2. B = {}
  <2>1. SUFFICES ASSUME B # {} PROVE FALSE
    OBVIOUS
  <2> DEFINE m == Min(B)
  <2>2. m \in B /\ \A n \in B : m <= n
    BY <2>1, LeastElement
  <2> HIDE DEF m
  <2>3. m \in Nat /\ m <= N /\ ~MadeReady(s, f[m], W(m))
    BY <2>2
  <2>4. CASE m = 0
    <3>1. W(0) = {}
      OBVIOUS
    <3> HIDE DEF W
    <3>2. MadeReady(s, s, {})
      BY DEF MadeReady, Untouched, Kept, Waits
    <3> QED BY <1>1, <2>3, <2>4, <3>1, <3>2
  <2>5. CASE m # 0
    <3> DEFINE n == m - 1
    <3>1. n \in Nat /\ n <= N /\ ~(m <= n) /\ m \in 1..N
      BY <1>0, <2>3, <2>5
    <3>2. MadeReady(s, f[n], W(n))
      BY <2>2, <3>1
    <3>3. f[m] = MakeReady(list[m], f[n])
      BY <1>1, <3>1
    <3>4. list[m] \in Task /\ Contains(list, list[m])
      BY <3>1 DEF Contains
    <3>5. W(m) = W(n) \cup {list[m]}
      <4>1. 1..m = (1..n) \cup {m}
        BY <3>1
      <4> QED BY <4>1
    <3> HIDE DEF W, n
    <3>6. Sound(f[n]) /\ ~Contains(f[n].dying, list[m])
      BY <3>2, <3>4 DEF MadeReady
    <3>7. MadeReady(f[n], f[m], {list[m]})
      <4>1. PICK x \in Task : x = list[m]
        BY <3>4
      <4>2. PICK z : z = f[n]
        OBVIOUS
      <4>3. MadeReady(z, MakeReady(x, z), {x})
        BY <3>6, <4>1, <4>2, MakeReadyIs
      <4> QED BY <3>3, <4>1, <4>2, <4>3
    <3>8. MadeReady(s, f[m], W(m))
      BY <3>2, <3>5, <3>7, MadeReadyTwice
    <3> QED BY <2>3, <3>8
  <2> QED BY <2>4, <2>5
<1>3. MadeReady(s, f[N], W(N))
  <2> HIDE DEF W
  <2>1. N \notin B /\ N <= N
    BY <1>0, <1>2
  <2> HIDE DEF N
  <2> QED BY <1>0, <2>1
<1>4. W(N) = {u \in Task : Contains(list, u)}
  BY DEF Contains
<1> HIDE DEF W
<1> QED BY <1>1, <1>3, <1>4

(* prvCheckDelayedTasks: whose time has come is a prefix of the sorted list.  *)
LEMMA CheckDelayedTasksIs ==
  ASSUME NEW s, Sound(s), Rows(s)
  PROVE  LET r == CheckDelayedTasks(s)
         IN /\ Ahead(r)
            /\ \E W \in SUBSET Task : /\ MadeReady(s, r, W)
                                     /\ \A u \in W : Contains(s.delayed, u) /\ s.wake[u] <= s.tick
<1> DEFINE d == s.delayed
           late == {i \in 1..Len(d) : s.wake[d[i]] > s.tick}
           m == Min(late \cup {Len(d) + 1})
           list == SubSeq(d, 1, m - 1)
           W == {u \in Task : Contains(list, u)}
           r == CheckDelayedTasks(s)
<1>0. /\ d \in Seq(Task) /\ NoDup(d) /\ s.wake \in [Task -> Nat] /\ s.tick \in Nat
      /\ \A u \in Task : Contains(s.dying, u) => ~Contains(d, u)
  <2>1. d \in Seq(Task) /\ s.wake \in [Task -> 0..TickModulus - 1] /\ s.tick \in 0..TickModulus - 1
    BY DEF Sound, Lists, KernelData
  <2>2. 0..TickModulus - 1 \subseteq Nat
    BY KernelAssumption
  <2>3. NoDup(d)
    BY DEF Sound, Lists
  <2>4. \A u \in Task : Contains(s.dying, u) => ~Contains(d, u)
    BY DEF Sound, Places, Asleep
  <2> HIDE DEF d
  <2> QED BY <2>1, <2>2, <2>3, <2>4
<1>1. r = MakeAllReady(list, s)
  BY DEF CheckDelayedTasks
<1>2. \A i \in 1..Len(d) : d[i] \in Task /\ s.wake[d[i]] \in Nat
  BY <1>0
<1>3. late \cup {Len(d) + 1} \subseteq Nat /\ late \subseteq 1..Len(d)
  OBVIOUS
<1>4. m \in late \cup {Len(d) + 1} /\ \A i \in late \cup {Len(d) + 1} : m <= i
  BY <1>3, LeastElement
<1>5. m \in Nat /\ 1 <= m /\ m <= Len(d) + 1
  BY <1>0, <1>3, <1>4
<1>11. \A i \in 1..m - 1 : s.wake[d[i]] <= s.tick
  <2> SUFFICES ASSUME NEW i \in 1..m - 1 PROVE s.wake[d[i]] <= s.tick
    OBVIOUS
  <2>1. i \in 1..Len(d) /\ ~(m <= i)
    BY <1>5
  <2>2. i \notin late
    BY <1>4, <2>1
  <2> QED BY <1>0, <1>2, <2>1, <2>2
<1> HIDE DEF m
<1>6. ASSUME NEW i \in 1..Len(d), m <= i PROVE s.wake[d[i]] > s.tick
  <2>1. m \in late
    BY <1>0, <1>4, <1>6
  <2>2. m \in 1..Len(d) /\ s.wake[d[m]] > s.tick
    BY <2>1
  <2>3. s.wake[d[m]] <= s.wake[d[i]]
    <3>1. CASE m = i
      BY <1>2, <3>1
    <3>2. CASE m < i
      BY <2>2, <3>2 DEF Rows, Sorted
    <3> QED BY <1>5, <1>6, <3>1, <3>2
  <2> QED BY <1>0, <1>2, <2>2, <2>3
<1> HIDE DEF r
<1>7. list \in Seq(Task) /\ Len(list) = m - 1 /\ \A i \in 1..m - 1 : list[i] = d[i]
  <2>1. \A i \in 1..m - 1 : d[i] \in Task
    BY <1>2, <1>5
  <2> QED BY <1>5, <2>1, SubSeqProperties
<1> HIDE DEF list
<1>8. \A u \in Task : Contains(list, u) => Contains(d, u) /\ s.wake[u] <= s.tick
  BY <1>5, <1>7, <1>11 DEF Contains
<1>9. MadeReady(s, r, W)
  <2>1. \A u \in Task : Contains(list, u) => ~Contains(s.dying, u)
    BY <1>0, <1>8
  <2> QED BY <1>1, <1>7, <2>1, MakeAllReadyIs
<1>10. Ahead(r)
  <2> SUFFICES ASSUME NEW u \in Task, Contains(r.delayed, u) PROVE r.wake[u] > r.tick
    BY DEF Ahead
  <2>1. /\ Contains(d, u) /\ u \notin W /\ r.wake[u] = s.wake[u] /\ r.tick = s.tick
    BY <1>9 DEF MadeReady, Untouched, Kept
  <2>2. PICK i \in 1..Len(d) : d[i] = u
    BY <2>1 DEF Contains
  <2>3. ~(i < m)
    <3> SUFFICES ASSUME i < m PROVE FALSE
      OBVIOUS
    <3>1. i \in 1..m - 1 /\ i \in 1..Len(list)
      BY <1>5, <1>7
    <3>2. list[i] = u
      BY <1>7, <2>2, <3>1
    <3>3. Contains(list, u)
      BY <3>1, <3>2 DEF Contains
    <3> QED BY <2>1, <3>3
  <2> QED BY <1>5, <1>6, <2>1, <2>2, <2>3
<1> QED BY <1>8, <1>9, <1>10 DEF r

(* What a tick leaves alone *)
Unticked(s, r) ==
  /\ r.cur = s.cur /\ r.suspended = s.suspended /\ r.missedYield = s.missedYield
  /\ r.left = s.left /\ r.entered = s.entered
  /\ r.full = s.full /\ r.holder = s.holder /\ r.lock = s.lock
  /\ r.prio = s.prio

(* n ticks have passed, and only those whose time has come were woken.        *)
Lapsed(s, r, n) ==
  /\ r.tick = (s.tick + n) % TickModulus
  /\ \A u \in Task : Asleep(u, r) => r.wake[u] = s.wake[u]
  /\ \A q \in Sem :
       (\A u \in Task : Contains(s.waiting[q], u) =>
          \A i \in 1..n : s.wake[u] # (s.tick + i) % TickModulus) => r.waiting[q] = s.waiting[q]

(* The order of the sleepers holds over a tick, the turn of the counter       *)
(* included.                                                                  *)
LEMMA IncrementTickIs ==
  ASSUME NEW s, Sound(s), Rows(s), Ahead(s), ~s.suspended
  PROVE  LET r == vTaskIncrementTick(s)
         IN /\ Sound(r) /\ Rows(r) /\ Ahead(r) /\ Forward(s, r) /\ Unticked(s, r)
            /\ r.missed = s.missed /\ Lapsed(s, r, 1)
<1> DEFINE next == (s.tick + 1) % TickModulus
           turned == [s EXCEPT !.delayed = s.overflow, !.overflow = s.delayed,
                               !.wrapped = [t \in Task |-> s.left[t] > 0]]
           z == [IF next = 0 THEN turned ELSE s EXCEPT !.tick = next]
           r == vTaskIncrementTick(s)
<1>0. /\ s \in KernelData /\ Lists(s) /\ Places(s) /\ Events(s) /\ Tops(s) /\ Ready(Idle, s)
      /\ TickModulus \in Nat /\ TickModulus > 2 /\ s.tick \in 0..TickModulus - 1
      /\ s.wake \in [Task -> 0..TickModulus - 1]
      /\ s.delayed \in Seq(Task) /\ s.overflow \in Seq(Task)
  BY KernelAssumption DEF Sound, Lists, KernelData
<1>1. next = IF s.tick + 1 = TickModulus THEN 0 ELSE s.tick + 1
  <2>1. PICK n \in Int : n = s.tick + 1 /\ -TickModulus <= n /\ n < 2 * TickModulus /\ 0 <= n /\ n <= TickModulus
    BY <1>0
  <2>2. n % TickModulus = IF n < 0 THEN n + TickModulus
                          ELSE IF n < TickModulus THEN n ELSE n - TickModulus
    BY <1>0, <2>1, Mod
  <2> QED BY <1>0, <2>1, <2>2
<1>2. next \in 0..TickModulus - 1
  <2> HIDE DEF next
  <2> QED BY <1>0, <1>1
<1>3. r = CheckDelayedTasks(z)
  BY DEF vTaskIncrementTick
<1> HIDE DEF next
<1>4. /\ z.tick = next /\ z.missed = s.missed /\ z.dying = s.dying /\ z.waiting = s.waiting
      /\ z.pending = s.pending /\ z.ready = s.ready /\ z.top = s.top /\ z.wake = s.wake
      /\ Unticked(s, z)
      /\ IF next = 0 THEN z.delayed = s.overflow /\ z.overflow = s.delayed
         ELSE z.delayed = s.delayed /\ z.overflow = s.overflow
      /\ z \in KernelData
  <2>1. CASE next = 0
    <3>1. [t \in Task |-> s.left[t] > 0] \in [Task -> BOOLEAN]
      OBVIOUS
    <3>2. z = [s EXCEPT !.delayed = s.overflow, !.overflow = s.delayed,
                        !.wrapped = [t \in Task |-> s.left[t] > 0], !.tick = next]
      BY <1>0, <2>1 DEF KernelData
    <3> HIDE DEF z
    <3> QED BY <1>0, <1>2, <2>1, <3>1, <3>2 DEF KernelData, Unticked
  <2>2. CASE next # 0
    <3>2. z = [s EXCEPT !.tick = next]
      BY <1>0, <2>2 DEF KernelData
    <3> HIDE DEF z
    <3> QED BY <1>0, <1>2, <2>2, <3>2 DEF KernelData, Unticked
  <2> QED BY <2>1, <2>2
<1> HIDE DEF z, r
<1>5. Sound(z)
  <2>1. Lists(z)
    BY <1>0, <1>4 DEF Lists
  <2>2. \A u \in Task : Asleep(u, z) <=> Asleep(u, s)
    BY <1>4 DEF Asleep
  <2>3. Places(z)
    BY <1>0, <1>4, <2>2 DEF Places, Unticked
  <2>4. Events(z)
    BY <1>0, <1>4, <2>2 DEF Events
  <2>5. Tops(z) /\ Ready(Idle, z)
    BY <1>0, <1>4 DEF Tops, Ready
  <2> QED BY <2>1, <2>3, <2>4, <2>5 DEF Sound
<1>6. Rows(z)
  <2>1. Sorted(z.delayed, z.wake) /\ Sorted(z.overflow, z.wake)
    BY <1>4 DEF Rows
  <2>2. ASSUME NEW u \in Task, Contains(z.overflow, u) PROVE z.wake[u] < z.tick
    <3>1. s.wake[u] \in 0..TickModulus - 1
      BY <1>0
    <3>2. CASE next = 0
      <4>1. s.wake[u] > s.tick /\ s.tick + 1 = TickModulus
        BY <1>0, <1>1, <1>4, <2>2, <3>2 DEF Ahead
      <4> QED BY <1>0, <3>1, <4>1
    <3>3. CASE next # 0
      <4>1. s.wake[u] < s.tick /\ next = s.tick + 1
        BY <1>0, <1>1, <1>4, <2>2, <3>3 DEF Rows
      <4> QED BY <1>0, <1>4, <3>1, <4>1
    <3> QED BY <3>2, <3>3
  <2> QED BY <2>1, <2>2 DEF Rows
<1>7. Ahead(r) /\ \E W \in SUBSET Task : /\ MadeReady(z, r, W)
                                        /\ \A u \in W : Contains(z.delayed, u) /\ z.wake[u] <= z.tick
  BY <1>3, <1>5, <1>6, CheckDelayedTasksIs
<1>8. PICK W \in SUBSET Task : /\ MadeReady(z, r, W)
                              /\ \A u \in W : Contains(z.delayed, u) /\ z.wake[u] <= z.tick
  BY <1>7
<1>9. Forward(z, r)
  BY <1>8, MadeReadyForward DEF Asleep
<1>10. Forward(s, z)
  BY <1>4 DEF Forward, Asleep, Awake, Ready
<1>11. Sound(r) /\ Rows(r) /\ Untouched(z, r) /\ r.prio = z.prio
  BY <1>6, <1>8 DEF MadeReady
<1>12. Unticked(s, r) /\ r.missed = s.missed
  BY <1>4, <1>11 DEF Unticked, Untouched, Kept
<1>13. \A u \in W : s.wake[u] = next
  <2> SUFFICES ASSUME NEW u \in W PROVE s.wake[u] = next
    OBVIOUS
  <2>1. /\ u \in Task /\ Contains(z.delayed, u) /\ s.wake[u] <= next
        /\ s.wake[u] \in 0..TickModulus - 1
    BY <1>0, <1>4, <1>8
  <2>2. CASE next = 0
    BY <1>0, <2>1, <2>2
  <2>3. CASE next # 0
    <3>1. s.wake[u] > s.tick /\ next = s.tick + 1
      BY <1>1, <1>4, <2>1, <2>3 DEF Ahead
    <3>2. s.wake[u] \in Int /\ s.tick \in Int /\ s.wake[u] <= next
      BY <1>0, <2>1
    <3> QED BY <3>1, <3>2
  <2> QED BY <2>2, <2>3
<1>14. Lapsed(s, r, 1)
  <2>1. r.tick = (s.tick + 1) % TickModulus
    BY <1>4, <1>11 DEF Untouched, Kept, next
  <2>2. \A u \in Task : Asleep(u, r) => r.wake[u] = s.wake[u]
    BY <1>4, <1>8 DEF MadeReady, Asleep
  <2>3. ASSUME NEW q \in Sem,
               \A u \in Task : Contains(s.waiting[q], u) =>
                 \A i \in 1..1 : s.wake[u] # (s.tick + i) % TickModulus
        PROVE  r.waiting[q] = s.waiting[q]
    <3>0. 1 \in 1..1
      OBVIOUS
    <3>1. \A u \in Task : Contains(s.waiting[q], u) => s.wake[u] # next
      BY <2>3, <3>0 DEF next
    <3>2. \A u \in W : ~Contains(z.waiting[q], u)
      BY <1>4, <1>13, <3>1
    <3> QED BY <1>4, <1>8, <3>2 DEF MadeReady, Waits
  <2> QED BY <2>1, <2>2, <2>3 DEF Lapsed
<1> QED BY <1>7, <1>9, <1>10, <1>11, <1>12, <1>14, ForwardTwice DEF r

(* The loop of MissedTicks as a sequence of states *)
LEMMA MissedTicksLoop ==
  ASSUME NEW s, s.missed \in Nat
  PROVE  \E f : /\ f[0] = s /\ f[s.missed] = MissedTicks(s)
                /\ \A n \in 1..s.missed : f[n] = vTaskIncrementTick(f[n - 1])
<1> DEFINE N == s.missed
           D(m, f) == [n \in 0..m |-> IF n = 0 THEN s ELSE vTaskIncrementTick(f[n - 1])]
           B == {m \in Nat : m <= N /\ ~\E f : f = D(m, f)}
<1>0. N \in Nat
  OBVIOUS
<1>1. B = {}
  <2>1. SUFFICES ASSUME B # {} PROVE FALSE
    OBVIOUS
  <2>2. B \subseteq Nat
    OBVIOUS
  <2> DEFINE m == Min(B)
  <2>3. m \in B /\ \A n \in B : m <= n
    BY <2>1, <2>2, LeastElement
  <2> HIDE DEF m
  <2>4. CASE m = 0
    <3> DEFINE g == [n \in 0..0 |-> s]
    <3>1. g = D(0, g)
      OBVIOUS
    <3> QED BY <2>3, <2>4, <3>1
  <2>5. CASE m # 0
    <3>1. m \in Nat /\ m <= N /\ m - 1 \in Nat /\ m - 1 <= N /\ ~(m <= m - 1)
      BY <1>0, <2>3, <2>5
    <3>2. m - 1 \notin B
      BY <2>3, <3>1
    <3>3. PICK f : f = D(m - 1, f)
      BY <3>1, <3>2
    <3> DEFINE g == [n \in 0..m |-> IF n < m THEN f[n] ELSE vTaskIncrementTick(f[m - 1])]
    <3>4. ASSUME NEW n \in 0..m PROVE g[n] = IF n = 0 THEN s ELSE vTaskIncrementTick(g[n - 1])
      <4>1. CASE n = 0
        BY <2>5, <3>1, <3>3, <4>1
      <4>2. CASE n # 0 /\ n < m
        <5>1. n \in 0..m - 1 /\ n - 1 \in 0..m /\ n - 1 < m
          BY <3>1, <4>2
        <5>2. f[n] = vTaskIncrementTick(f[n - 1])
          BY <3>3, <4>2, <5>1
        <5> QED BY <4>2, <5>1, <5>2
      <4>3. CASE n = m
        <5>1. m - 1 \in 0..m /\ m - 1 < m /\ ~(m < m)
          BY <3>1
        <5> QED BY <2>5, <4>3, <5>1
      <4> QED BY <3>1, <4>1, <4>2, <4>3
    <3>5. g = D(m, g)
      BY <3>4
    <3> QED BY <2>3, <3>5
  <2> QED BY <2>4, <2>5
<1>2. \E f : f = D(N, f)
  BY <1>0, <1>1
<1> DEFINE after_n == CHOOSE f : f = D(N, f)
<1>3. after_n = D(N, after_n)
  BY <1>2
<1>4. MissedTicks(s) = after_n[N]
  BY DEF MissedTicks
<1> HIDE DEF after_n
<1>5. after_n[0] = s
  BY <1>0, <1>3
<1>6. \A n \in 1..N : after_n[n] = vTaskIncrementTick(after_n[n - 1])
  BY <1>0, <1>3
<1> QED BY <1>4, <1>5, <1>6

(* The ticks counted while the scheduler was suspended keep the lists sound,  *)
(* like a single tick.                                                        *)
LEMMA MissedTicksIs ==
  ASSUME NEW s, Sound(s), Rows(s), Ahead(s), ~s.suspended
  PROVE  LET r == MissedTicks(s)
         IN /\ Sound(r) /\ Rows(r) /\ Ahead(r) /\ Forward(s, r) /\ Unticked(s, r)
            /\ r.missed = s.missed /\ Lapsed(s, r, s.missed) /\ (s.missed = 0 => r = s)
<1> DEFINE N == s.missed
           OK(r, n) == /\ Sound(r) /\ Rows(r) /\ Ahead(r) /\ Forward(s, r) /\ Unticked(s, r)
                       /\ r.missed = s.missed /\ Lapsed(s, r, n)
<1>0. N \in Nat /\ TickModulus \in Nat \ {0} /\ s.tick \in 0..TickModulus - 1
  BY KernelAssumption DEF Sound, Lists, KernelData
<1>1. PICK f : /\ f[0] = s /\ f[N] = MissedTicks(s)
               /\ \A n \in 1..N : f[n] = vTaskIncrementTick(f[n - 1])
  BY <1>0, MissedTicksLoop
<1> DEFINE B == {n \in Nat : n <= N /\ ~OK(f[n], n)}
<1>2. OK(s, 0)
  <2>1. s.tick % TickModulus = s.tick
    <3>1. s.tick = TickModulus * 0 + s.tick /\ s.tick \in Int
      BY <1>0
    <3> QED BY <1>0, <3>1, Remainder
  <2>2. s.tick + 0 = s.tick
    BY <1>0
  <2>3. Lapsed(s, s, 0)
    BY <2>1, <2>2 DEF Lapsed
  <2> QED BY <2>3, ForwardNot DEF Unticked
<1> HIDE DEF N
<1>3. B = {}
  <2>1. SUFFICES ASSUME B # {} PROVE FALSE
    OBVIOUS
  <2> DEFINE m == Min(B)
  <2>2. m \in B /\ \A n \in B : m <= n
    BY <2>1, LeastElement
  <2> HIDE DEF m
  <2>3. m \in Nat /\ m <= N /\ ~OK(f[m], m)
    BY <2>2
  <2>4. m # 0
    BY <1>1, <1>2, <2>3
  <2>5. m - 1 \in Nat /\ m - 1 <= N /\ ~(m <= m - 1) /\ m \in 1..N
    BY <1>0, <2>3, <2>4
  <2>6. OK(f[m - 1], m - 1)
    BY <2>2, <2>5
  <2>7. f[m] = vTaskIncrementTick(f[m - 1])
    BY <1>1, <2>5
  <2> DEFINE a == f[m - 1]
             b == f[m]
  <2>8. OK(a, m - 1) /\ b = vTaskIncrementTick(a)
    BY <2>6, <2>7
  <2> HIDE DEF a
  <2>9. ~a.suspended
    BY <2>8 DEF Unticked
  <2>10. /\ Sound(b) /\ Rows(b) /\ Ahead(b) /\ Forward(a, b) /\ Unticked(a, b)
         /\ b.missed = a.missed /\ Lapsed(a, b, 1)
    BY <2>8, <2>9, IncrementTickIs
  <2> HIDE DEF b
  <2>11. OK(b, m)
    <3>1. Forward(s, b)
      BY <2>8, <2>10, ForwardTwice
    <3>2. Unticked(s, b)
      BY <2>8, <2>10 DEF Unticked
    <3>3. Lapsed(s, b, m)
      <4>1. PICK n \in Nat : n = m - 1 /\ n + 1 = m
        BY <2>5
      <4>2. Lapsed(s, a, n)
        BY <2>8, <4>1
      <4>3. b.tick = (s.tick + m) % TickModulus
        <5>1. PICK x \in Nat, y \in Nat : x = s.tick + n /\ y = s.tick + m /\ y = x + 1
          BY <1>0, <2>3, <4>1
        <5>2. a.tick = x % TickModulus /\ b.tick = (a.tick + 1) % TickModulus
          BY <2>10, <4>2, <5>1 DEF Lapsed
        <5> QED BY <1>0, <5>1, <5>2, CountOn
      <4>4. \A v \in Task : Asleep(v, b) => b.wake[v] = s.wake[v]
        BY <2>10, <4>2 DEF Lapsed, Forward
      <4>5. ASSUME NEW q \in Sem,
                   \A v \in Task : Contains(s.waiting[q], v) =>
                     \A i \in 1..m : s.wake[v] # (s.tick + i) % TickModulus
            PROVE  b.waiting[q] = s.waiting[q]
        <5>1. a.waiting[q] = s.waiting[q]
          <6>1. \A i \in 1..n : i \in 1..m
            BY <2>3, <4>1
          <6> QED BY <4>2, <4>5, <6>1 DEF Lapsed
        <5>2. b.tick = (a.tick + 1) % TickModulus /\ m \in 1..m
          BY <2>5, <2>10, <2>3 DEF Lapsed
        <5>3. ASSUME NEW v \in Task, Contains(a.waiting[q], v) PROVE a.wake[v] # b.tick
          <6>1. a.wake[v] = s.wake[v]
            BY <2>8, <4>2, <5>3 DEF Lapsed, Sound, Events
          <6> QED BY <4>3, <4>5, <5>1, <5>2, <5>3, <6>1
        <5>4. \A i \in 1..1 : i = 1
          OBVIOUS
        <5> QED BY <2>10, <5>1, <5>2, <5>3, <5>4 DEF Lapsed
      <4> QED BY <4>3, <4>4, <4>5 DEF Lapsed
    <3> QED BY <2>8, <2>10, <3>1, <3>2, <3>3
  <2> HIDE DEF OK
  <2> QED BY <2>3, <2>11 DEF b
<1>4. OK(f[N], N)
  <2> HIDE DEF OK
  <2>1. N \notin B /\ N <= N
    BY <1>0, <1>3
  <2> QED BY <1>0, <2>1
<1> QED BY <1>1, <1>4 DEF N

(* The ready lists above the priority of the running task are empty just if   *)
(* no ready task is more urgent.                                              *)
LEMMA UrgentIs ==
  ASSUME NEW s, Sound(s)
  PROVE  Urgent(s) <=> \A p \in Priorities : p > s.prio[s.cur] => s.ready[p] = <<>>
<1>0. /\ s.prio \in [Task -> Priorities] /\ s.cur \in Task /\ s.ready \in [Priorities -> Seq(Task)]
      /\ Places(s) /\ \A p \in Priorities : p \in Nat
  BY PrioritiesAre DEF Sound, Lists, KernelData
<1>1. ASSUME Urgent(s), NEW p \in Priorities, p > s.prio[s.cur], s.ready[p] # <<>> PROVE FALSE
  <2>1. PICK u \in Task : Contains(s.ready[p], u)
    BY <1>0, <1>1, Emptied
  <2>2. p = s.prio[u] /\ p <= s.prio[s.cur]
    BY <1>0, <1>1, <2>1 DEF Urgent, Ready, Places
  <2> QED BY <1>0, <1>1, <2>2
<1>2. ASSUME \A p \in Priorities : p > s.prio[s.cur] => s.ready[p] = <<>>,
             NEW u \in Task, Ready(u, s)
      PROVE  s.prio[u] <= s.prio[s.cur]
  <2>1. Contains(s.ready[s.prio[u]], u) /\ s.prio[u] \in Priorities
    BY <1>0, <1>2 DEF Ready, Places
  <2>2. s.ready[s.prio[u]] # <<>>
    BY <1>0, <2>1, Emptied
  <2> QED BY <1>0, <1>2, <2>1, <2>2
<1> QED BY <1>1, <1>2 DEF Urgent

(* Resuming the scheduler catches up with all that was put off.               *)
LEMMA ResumeAllIs ==
  ASSUME NEW s, Sound(s), Rows(s), Ahead(s)
  PROVE  LET r == xTaskResumeAll(s)
         IN /\ Sound(r) /\ Rows(r) /\ Ahead(r) /\ Forward(s, r)
            /\ ~r.suspended /\ r.missed = 0 /\ ~r.missedYield
            /\ r.left = s.left /\ r.entered = s.entered /\ r.prio = s.prio
            /\ r.full = s.full /\ r.holder = s.holder /\ r.lock = s.lock
            /\ IF YieldRequired(s) THEN Ready(r.cur, r) ELSE r.cur = s.cur
            /\ Lapsed(s, r, s.missed)
            /\ Urgent(s) \/ YieldRequired(s) => Urgent(r)
<1> DEFINE a == [s EXCEPT !.suspended = FALSE]
           b == MakeAllReady(s.pending, a)
           c == MissedTicks(b)
           d == [c EXCEPT !.missed = 0, !.missedYield = FALSE]
           r == xTaskResumeAll(s)
<1>0. s \in KernelData /\ s.pending \in Seq(Task) /\ s.missed \in Nat
  <2>1. s \in KernelData /\ MaxMissed \in Nat
    BY KernelAssumption DEF Sound, Lists
  <2>2. s.pending \in Seq(Task) /\ s.missed \in 0..MaxMissed
    BY <2>1 DEF KernelData
  <2> QED BY <2>1, <2>2
<1>1. /\ a \in KernelData /\ Sound(a) /\ Rows(a) /\ Ahead(a) /\ Forward(s, a) /\ ~a.suspended
      /\ a.cur = s.cur /\ a.missedYield = s.missedYield /\ a.missed = s.missed
      /\ a.left = s.left /\ a.entered = s.entered /\ a.prio = s.prio
      /\ a.full = s.full /\ a.holder = s.holder /\ a.lock = s.lock
      /\ a.pending = s.pending /\ a.dying = s.dying
      /\ a.tick = s.tick /\ a.wake = s.wake /\ a.waiting = s.waiting /\ a.ready = s.ready
  <2>1. /\ a \in KernelData /\ ~a.suspended
        /\ a.cur = s.cur /\ a.missedYield = s.missedYield /\ a.missed = s.missed
        /\ a.left = s.left /\ a.entered = s.entered /\ a.prio = s.prio
        /\ a.full = s.full /\ a.holder = s.holder /\ a.lock = s.lock
        /\ a.pending = s.pending /\ a.dying = s.dying /\ a.ready = s.ready /\ a.top = s.top
        /\ a.delayed = s.delayed /\ a.overflow = s.overflow /\ a.waiting = s.waiting
        /\ a.tick = s.tick /\ a.wake = s.wake
    BY <1>0 DEF KernelData
  <2> HIDE DEF a
  <2>2. Sound(a)
    BY <2>1 DEF Sound, Lists, Places, Events, Tops, Asleep, Ready
  <2>3. Rows(a) /\ Ahead(a)
    BY <2>1 DEF Rows, Ahead
  <2>4. Forward(s, a)
    BY <2>1, ForwardNot
  <2> QED BY <2>1, <2>2, <2>3, <2>4
<1> HIDE DEF a
<1>2. \A u \in Task : Contains(a.pending, u) => Asleep(u, a) /\ ~Contains(a.dying, u)
  BY <1>1 DEF Sound, Events, Places
<1>3. MadeReady(a, b, {u \in Task : Contains(a.pending, u)})
  BY <1>0, <1>1, <1>2, MakeAllReadyIs
<1>4. Forward(a, b)
  BY <1>2, <1>3, MadeReadyForward
<1> HIDE DEF b
<1>5. /\ Sound(b) /\ Rows(b) /\ Ahead(b) /\ ~b.suspended /\ Unticked(a, b) /\ b.missed = a.missed
  <2>1. Sound(b) /\ Rows(b) /\ Untouched(a, b) /\ b.prio = a.prio
    BY <1>1, <1>3 DEF MadeReady
  <2>2. ASSUME NEW u \in Task, Contains(b.delayed, u) PROVE b.wake[u] > b.tick
    <3>1. Contains(a.delayed, u) /\ b.wake[u] = a.wake[u] /\ b.tick = a.tick
      BY <1>3, <2>1, <2>2 DEF MadeReady, Untouched, Kept
    <3> QED BY <1>1, <3>1 DEF Ahead
  <2> QED BY <1>1, <2>1, <2>2 DEF Ahead, Unticked, Untouched, Kept
<1>6. /\ Sound(c) /\ Rows(c) /\ Ahead(c) /\ Forward(b, c) /\ Unticked(b, c)
      /\ c.missed = b.missed /\ Lapsed(b, c, b.missed) /\ (b.missed = 0 => c = b)
  BY <1>5, MissedTicksIs
<1> HIDE DEF c
<1>7. Forward(s, c) /\ Unticked(a, c) /\ ~c.suspended /\ c.missed = s.missed
  BY <1>1, <1>4, <1>5, <1>6, ForwardTwice DEF Unticked
<1>11. \A q \in Sem : b.waiting[q] = s.waiting[q]
  <2> SUFFICES ASSUME NEW q \in Sem PROVE b.waiting[q] = s.waiting[q]
    OBVIOUS
  <2>1. \A u \in Task : Contains(a.pending, u) => ~Contains(a.waiting[q], u)
    BY <1>1 DEF Sound, Events
  <2> QED BY <1>1, <1>3, <2>1 DEF MadeReady, Waits
<1>12. /\ b.tick = s.tick /\ b.missed = s.missed
       /\ \A u \in Task : Asleep(u, b) => b.wake[u] = s.wake[u]
  BY <1>1, <1>3, <1>5 DEF MadeReady, Untouched, Kept, Asleep
<1>13. Lapsed(s, c, s.missed)
  <2>1. c.tick = (s.tick + s.missed) % TickModulus
    BY <1>6, <1>12 DEF Lapsed
  <2>2. \A u \in Task : Asleep(u, c) => c.wake[u] = s.wake[u]
    BY <1>6, <1>12 DEF Lapsed, Forward
  <2>3. ASSUME NEW q \in Sem,
               \A u \in Task : Contains(s.waiting[q], u) =>
                 \A i \in 1..s.missed : s.wake[u] # (s.tick + i) % TickModulus
        PROVE  c.waiting[q] = s.waiting[q]
    <3>1. \A u \in Task : Contains(b.waiting[q], u) => b.wake[u] = s.wake[u]
      BY <1>5, <1>12 DEF Sound, Events
    <3>2. \A u \in Task : Contains(b.waiting[q], u) =>
                 \A i \in 1..b.missed : b.wake[u] # (b.tick + i) % TickModulus
      BY <1>11, <1>12, <2>3, <3>1
    <3>3. c.waiting[q] = b.waiting[q]
      BY <1>6, <3>2 DEF Lapsed
    <3> QED BY <1>11, <3>3
  <2> QED BY <2>1, <2>2, <2>3 DEF Lapsed
<1>8. r = IF YieldRequired(s) THEN vTaskSwitchContext(d) ELSE c
  BY DEF xTaskResumeAll, a, b, c
<1>9. CASE YieldRequired(s)
  <2>1. /\ Sound(d) /\ Rows(d) /\ Ahead(d) /\ Forward(c, d) /\ ~d.suspended
        /\ d.missed = 0 /\ ~d.missedYield
        /\ d.left = c.left /\ d.entered = c.entered /\ d.prio = c.prio
        /\ d.full = c.full /\ d.holder = c.holder /\ d.lock = c.lock
        /\ d.tick = c.tick /\ d.wake = c.wake /\ d.waiting = c.waiting
    <3>1. c \in KernelData /\ 0 \in 0..MaxMissed
      BY <1>6, KernelAssumption DEF Sound, Lists
    <3>2. /\ d \in KernelData /\ ~d.suspended /\ d.missed = 0 /\ ~d.missedYield
          /\ d.left = c.left /\ d.entered = c.entered /\ d.prio = c.prio
          /\ d.full = c.full /\ d.holder = c.holder /\ d.lock = c.lock
          /\ d.pending = c.pending /\ d.dying = c.dying /\ d.ready = c.ready /\ d.top = c.top
          /\ d.delayed = c.delayed /\ d.overflow = c.overflow /\ d.waiting = c.waiting
          /\ d.tick = c.tick /\ d.wake = c.wake
      BY <1>7, <3>1 DEF KernelData
    <3> HIDE DEF d
    <3>3. Sound(d)
      BY <1>6, <3>2 DEF Sound, Lists, Places, Events, Tops, Asleep, Ready
    <3>4. Rows(d) /\ Ahead(d)
      BY <1>6, <3>2 DEF Rows, Ahead
    <3>5. Forward(c, d)
      BY <3>2, ForwardNot
    <3> QED BY <3>2, <3>3, <3>4, <3>5
  <2> HIDE DEF d
  <2>2. r = vTaskSwitchContext(d)
    BY <1>8, <1>9
  <2> HIDE DEF r
  <2>3. /\ Sound(r) /\ Kept(d, r) /\ Forward(d, r)
        /\ r.prio = d.prio /\ r.wake = d.wake /\ r.delayed = d.delayed /\ r.overflow = d.overflow
        /\ r.missedYield = d.missedYield
        /\ Ready(r.cur, r)
        /\ r.waiting = d.waiting
        /\ \A p \in Priorities : p > r.prio[r.cur] => r.ready[p] = <<>>
    BY <2>1, <2>2, SwitchIs
  <2>4. Rows(r) /\ Ahead(r)
    BY <2>1, <2>3 DEF Rows, Ahead, Kept
  <2>5. Forward(s, r)
    BY <1>7, <2>1, <2>3, ForwardTwice
  <2>6. Lapsed(s, r, s.missed)
    <3>1. \A u \in Task : Asleep(u, r) => Asleep(u, c)
      BY <2>1, <2>3 DEF Forward
    <3> QED BY <1>13, <2>1, <2>3, <3>1 DEF Lapsed, Kept
  <2>7. Urgent(r)
    BY <2>3, UrgentIs
  <2> QED BY <1>1, <1>7, <1>9, <2>1, <2>3, <2>4, <2>5, <2>6, <2>7 DEF Kept, Unticked, r
<1>10. CASE ~YieldRequired(s)
  <2>1. r = c
    BY <1>8, <1>10
  <2>2. s.missed = 0 /\ ~s.missedYield
    BY <1>0, <1>10 DEF YieldRequired
  <2>3. Urgent(s) => Urgent(c)
    <3> SUFFICES ASSUME Urgent(s), NEW u \in Task, Ready(u, c) PROVE c.prio[u] <= c.prio[c.cur]
      BY DEF Urgent
    <3>1. c = b /\ c.prio = s.prio /\ c.cur = s.cur
      BY <1>1, <1>5, <1>6, <1>12, <2>2 DEF Unticked
    <3>2. Ready(u, a) \/ Contains(s.pending, u)
      BY <1>1, <1>3, <3>1 DEF MadeReady
    <3>3. CASE Ready(u, a)
      BY <1>1, <3>1, <3>3 DEF Urgent, Ready
    <3>4. CASE Contains(s.pending, u)
      <4>1. ~(s.prio[u] >= s.prio[s.cur])
        BY <1>10, <3>4 DEF YieldRequired, Contains
      <4>2. s.prio[u] \in Nat /\ s.prio[s.cur] \in Nat
        BY <1>0, PrioritiesAre DEF KernelData
      <4> QED BY <3>1, <4>1, <4>2
    <3> QED BY <3>2, <3>3, <3>4
  <2> QED BY <1>1, <1>5, <1>6, <1>7, <1>10, <1>13, <2>1, <2>2, <2>3 DEF Unticked
<1> QED BY <1>9, <1>10

-------------------------------------------------------------------------------
(* Semaphores *)

(* The first of the waiters on q has been taken off the list, and is the only *)
(* one to have been readied.                                                  *)
Popped(s, r, q) ==
  /\ r.prio = s.prio
  /\ \A p \in Sem \ {q} : r.waiting[p] = s.waiting[p]
  /\ \A u \in Task : Asleep(u, r) => r.wake[u] = s.wake[u]
  /\ \A u \in Task : Ready(u, r) =>
       \/ Ready(u, s)
       \/ ~s.suspended /\ s.waiting[q] # <<>> /\ u = Head(s.waiting[q])
  /\ s.waiting[q] # <<>> => /\ r.waiting[q] = Tail(s.waiting[q])
                            /\ ~s.suspended => Ready(Head(s.waiting[q]), r)

(* Whoever has waited longest among the most urgent is woken.                 *)
LEMMA RemoveFromEventListIs ==
  ASSUME NEW s, Sound(s), NEW q \in Sem
  PROVE  LET r == RemoveFromEventList(q, s)
         IN /\ Sound(r) /\ Untouched(s, r) /\ Forward(s, r) /\ Popped(s, r, q)
            /\ Rows(s) => Rows(r)
            /\ Ahead(s) => Ahead(r)
            /\ s.waiting[q] # <<>> => \E t \in Task : Contains(s.waiting[q], t) /\ Awake(t, r)
<1> DEFINE t == Head(s.waiting[q])
           tl == Tail(s.waiting[q])
           a == [s EXCEPT !.waiting[q] = Tail(@)]
           r == RemoveFromEventList(q, s)
<1>0. /\ s \in KernelData /\ Lists(s) /\ Places(s) /\ Events(s) /\ Tops(s) /\ Ready(Idle, s)
      /\ s.waiting \in [Sem -> Seq(Task)] /\ NoDup(s.waiting[q])
      /\ s.prio \in [Task -> Priorities]
  BY DEF Sound, Lists, KernelData
<1>1. CASE s.waiting[q] = <<>>
  <2>1. r = s
    BY <1>1 DEF RemoveFromEventList
  <2>2. Forward(s, s)
    BY ForwardNot
  <2> QED BY <1>1, <2>1, <2>2 DEF Untouched, Kept, Popped
<1>2. CASE s.waiting[q] # <<>>
  <2>1. /\ t \in Task /\ Contains(s.waiting[q], t) /\ tl \in Seq(Task) /\ NoDup(tl)
        /\ \A u : Contains(tl, u) <=> Contains(s.waiting[q], u) /\ u # t
    <3>1. s.waiting[q] \in Seq(Task)
      BY <1>0
    <3> QED BY <1>0, <1>2, <3>1, Tailed
  <2>2. /\ Asleep(t, s) /\ ~Contains(s.pending, t) /\ ~Contains(s.dying, t)
        /\ \A p \in Sem : Contains(s.waiting[p], t) => p = q
        /\ ~Ready(t, s) /\ t # Idle
    BY <1>0, <2>1 DEF Events, Places, Ready
  <2>3. r = IF s.suspended THEN [a EXCEPT !.pending = Append(@, t)]
                           ELSE AddTaskToReadyQueue(t, RemoveState(t, a))
    BY <1>2 DEF RemoveFromEventList
  <2> HIDE DEF t, r, tl
  <2>4. /\ a.waiting = [s.waiting EXCEPT ![q] = tl] /\ Untouched(s, a)
        /\ a.prio = s.prio /\ a.wake = s.wake /\ a.pending = s.pending /\ a.dying = s.dying
        /\ a.ready = s.ready /\ a.top = s.top /\ a.delayed = s.delayed /\ a.overflow = s.overflow
    BY <1>0 DEF KernelData, Untouched, Kept, tl
  <2>5. a \in KernelData
    <3>1. [s.waiting EXCEPT ![q] = tl] \in [Sem -> Seq(Task)]
      BY <1>0, <2>1
    <3>2. a = [s EXCEPT !.waiting = a.waiting]
      BY <1>0 DEF KernelData
    <3> HIDE DEF a
    <3> QED BY <1>0, <2>4, <3>1, <3>2 DEF KernelData
  <2> HIDE DEF a
  <2>6. \A p \in Sem, u \in Task : Contains(a.waiting[p], u) <=> Contains(s.waiting[p], u) /\ u # t
    BY <1>0, <2>1, <2>2, <2>4
  <2>7. Lists(a)
    <3>1. \A p \in Sem : NoDup(a.waiting[p])
      BY <1>0, <2>1, <2>4 DEF Lists
    <3> QED BY <1>0, <2>4, <2>5, <3>1 DEF Lists
  <2>8. Places(a) /\ Events(a) /\ Tops(a) /\ Ready(Idle, a)
    BY <1>0, <2>4, <2>6 DEF Places, Events, Tops, Ready, Asleep
  <2>9. CASE s.suspended
    <3> DEFINE l == Append(s.pending, t)
    <3>1. l \in Seq(Task) /\ NoDup(l) /\ \A u : Contains(l, u) <=> Contains(s.pending, u) \/ u = t
      <4>1. s.pending \in Seq(Task) /\ NoDup(s.pending)
        BY <1>0 DEF Lists, KernelData
      <4> QED BY <2>1, <2>2, <4>1, Appended
    <3>2. r = [a EXCEPT !.pending = l]
      BY <2>3, <2>4, <2>9
    <3> HIDE DEF l
    <3>3. /\ r.pending = l /\ r.waiting = a.waiting /\ Untouched(a, r)
          /\ r.prio = a.prio /\ r.wake = a.wake /\ r.dying = a.dying
          /\ r.ready = a.ready /\ r.top = a.top /\ r.delayed = a.delayed /\ r.overflow = a.overflow
          /\ r \in KernelData
      BY <2>5, <3>1, <3>2 DEF KernelData, Untouched, Kept
    <3>4. Lists(r)
      BY <2>7, <3>1, <3>3 DEF Lists
    <3>5. Places(r) /\ Tops(r) /\ Ready(Idle, r)
      BY <2>8, <3>3 DEF Places, Tops, Ready, Asleep
    <3>6. Events(r)
      BY <1>0, <2>2, <2>4, <2>6, <3>1, <3>3 DEF Events, Asleep
    <3>7. Forward(s, r)
      BY <2>4, <2>6, <3>1, <3>3 DEF Forward, Ready, Asleep, Awake
    <3>8. (Rows(s) => Rows(r)) /\ (Ahead(s) => Ahead(r))
      BY <2>4, <3>3 DEF Rows, Ahead, Untouched, Kept
    <3>9. Awake(t, r)
      BY <3>1, <3>3 DEF Awake
    <3>10. Popped(s, r, q)
      <4>1. r.waiting[q] = tl /\ \A p \in Sem \ {q} : r.waiting[p] = s.waiting[p]
        BY <1>0, <2>4, <3>3
      <4>2. \A u \in Task : Ready(u, r) <=> Ready(u, s)
        BY <2>4, <3>3 DEF Ready
      <4> QED BY <2>4, <2>9, <3>3, <4>1, <4>2 DEF Popped, tl
    <3> QED BY <2>1, <2>4, <3>3, <3>4, <3>5, <3>6, <3>7, <3>8, <3>9, <3>10 DEF Sound, Untouched, Kept, r
  <2>10. CASE ~s.suspended
    <3> DEFINE b == RemoveState(t, a)
    <3>1. r = AddTaskToReadyQueue(t, b)
      BY <2>3, <2>10
    <3>2. /\ Lists(b) /\ Untouched(a, b)
          /\ b.prio = a.prio /\ b.top = a.top
          /\ b.pending = a.pending /\ b.dying = a.dying /\ b.waiting = a.waiting
          /\ \A p \in Priorities, u \in Task : Contains(b.ready[p], u) <=> Contains(a.ready[p], u) /\ u # t
          /\ \A u \in Task : Contains(b.delayed, u) <=> Contains(a.delayed, u) /\ u # t
          /\ \A u \in Task : Contains(b.overflow, u) <=> Contains(a.overflow, u) /\ u # t
          /\ \A u \in Task : u # t => b.wake[u] = a.wake[u]
          /\ Rows(a) => Rows(b)
      BY <2>1, <2>7, RemoveStateIs
    <3> HIDE DEF b
    <3>3. Tops(b)
      <4> SUFFICES ASSUME NEW p \in Priorities, b.ready[p] # <<>> PROVE p <= b.top
        BY DEF Tops
      <4>1. b.ready[p] \in Seq(Task) /\ a.ready[p] \in Seq(Task)
        BY <2>5, <3>2 DEF Lists, KernelData
      <4>2. PICK u \in Task : Contains(b.ready[p], u)
        BY <4>1, Emptied
      <4>3. a.ready[p] # <<>>
        BY <3>2, <4>1, <4>2, Emptied
      <4> QED BY <2>8, <3>2, <4>3 DEF Tops
    <3>4. ~Contains(b.ready[b.prio[t]], t)
      BY <1>0, <2>1, <2>4, <3>2
    <3>5. /\ Lists(r) /\ Untouched(b, r)
          /\ r.prio = b.prio /\ r.wake = b.wake /\ r.delayed = b.delayed /\ r.overflow = b.overflow
          /\ r.pending = b.pending /\ r.dying = b.dying /\ r.waiting = b.waiting
          /\ \A p \in Priorities, u \in Task :
               Contains(r.ready[p], u) <=> Contains(b.ready[p], u) \/ (u = t /\ p = b.prio[t])
          /\ Tops(b) => Tops(r)
      BY <2>1, <3>1, <3>2, <3>4, AddIs
    <3>6. /\ \A p \in Priorities, u \in Task :
               Contains(r.ready[p], u) <=> (Contains(s.ready[p], u) /\ u # t) \/ (u = t /\ p = s.prio[t])
          /\ \A u \in Task : Contains(r.delayed, u) <=> Contains(s.delayed, u) /\ u # t
          /\ \A u \in Task : Contains(r.overflow, u) <=> Contains(s.overflow, u) /\ u # t
          /\ r.pending = s.pending /\ r.dying = s.dying /\ r.prio = s.prio
          /\ \A p \in Sem, u \in Task : Contains(r.waiting[p], u) <=> Contains(s.waiting[p], u) /\ u # t
      BY <2>4, <2>6, <3>2, <3>5
    <3>7. Places(r) /\ Events(r)
      BY <1>0, <2>2, <3>6 DEF Places, Events, Asleep
    <3>8. \A u \in Task : Ready(u, r) <=> Ready(u, s) \/ u = t
      BY <1>0, <2>1, <2>2, <3>6 DEF Ready
    <3>9. Sound(r)
      BY <1>0, <3>3, <3>5, <3>7, <3>8, KernelAssumption DEF Sound
    <3>10. Forward(s, r)
      BY <2>2, <3>6, <3>8 DEF Forward, Asleep, Awake
    <3>11. Rows(s) => Rows(r)
      BY <2>4, <3>2, <3>5 DEF Rows, Untouched, Kept
    <3>12. Ahead(s) => Ahead(r)
      BY <2>4, <3>2, <3>5, <3>6 DEF Ahead, Untouched, Kept
    <3>13. Awake(t, r)
      BY <2>1, <3>6 DEF Awake, Asleep
    <3>14. Untouched(s, r)
      BY <2>4, <3>2, <3>5 DEF Untouched, Kept
    <3>15. Popped(s, r, q)
      <4>1. r.waiting[q] = tl /\ \A p \in Sem \ {q} : r.waiting[p] = s.waiting[p]
        BY <1>0, <2>4, <3>2, <3>5
      <4>2. \A u \in Task : Asleep(u, r) => r.wake[u] = s.wake[u]
        BY <2>4, <3>2, <3>5, <3>6 DEF Asleep
      <4>3. Ready(t, r) /\ r.prio = s.prio
        BY <2>1, <3>6, <3>8
      <4>4. \A u \in Task : Ready(u, r) => Ready(u, s) \/ u = t
        BY <3>8
      <4> QED BY <1>2, <2>10, <4>1, <4>2, <4>3, <4>4 DEF Popped, tl, t
    <3> QED BY <2>1, <3>9, <3>10, <3>11, <3>12, <3>13, <3>14, <3>15 DEF r
  <2> QED BY <2>9, <2>10
<1> QED BY <1>1, <1>2

(* A change of priority takes a task from one ready list to another.          *)
LEMMA PriorityInheritIs ==
  ASSUME NEW s, Sound(s), NEW t \in Task \cup {None}
  PROVE  LET r == vTaskPriorityInherit(t, s)
         IN /\ Sound(r) /\ Untouched(s, r) /\ Forward(s, r)
            /\ r.wake = s.wake /\ r.delayed = s.delayed /\ r.overflow = s.overflow
            /\ r.pending = s.pending /\ r.dying = s.dying /\ r.waiting = s.waiting
            /\ \A u \in Task : Ready(u, r) <=> Ready(u, s)
            /\ r.prio = IF t = None \/ s.prio[t] >= s.prio[s.cur] THEN s.prio
                       ELSE [s.prio EXCEPT ![t] = s.prio[s.cur]]
<1> DEFINE r == vTaskPriorityInherit(t, s)
           p0 == s.prio[t]
           p1 == s.prio[s.cur]
           a == [s EXCEPT !.prio[t] = p1]
           l == vListRemove(s.ready[p0], t)
           b == [a EXCEPT !.ready[p0] = vListRemove(@, t)]
<1>0. /\ s \in KernelData /\ Lists(s) /\ Places(s) /\ Events(s) /\ Tops(s) /\ Ready(Idle, s)
      /\ s.prio \in [Task -> Priorities] /\ s.cur \in Task /\ s.ready \in [Priorities -> Seq(Task)]
  BY DEF Sound, Lists, KernelData
<1>1. CASE t = None \/ p0 >= p1
  <2>1. r = s
    BY <1>1 DEF vTaskPriorityInherit
  <2>2. Forward(s, s)
    BY ForwardNot
  <2> QED BY <1>1, <2>1, <2>2 DEF Untouched, Kept
<1>2. CASE t # None /\ ~(p0 >= p1)
  <2>1. t \in Task /\ p0 \in Priorities /\ p1 \in Priorities
    BY <1>0, <1>2
  <2>2. r = IF Contains(s.ready[p0], t) THEN AddTaskToReadyQueue(t, b) ELSE a
    BY <1>2 DEF vTaskPriorityInherit
  <2>3. p0 # p1
    <3>1. p0 \in Nat /\ p1 \in Nat
      BY <2>1, PrioritiesAre
    <3> HIDE DEF p0, p1
    <3> QED BY <1>2, <3>1
  <2> DEFINE New == IF t = None \/ s.prio[t] >= s.prio[s.cur] THEN s.prio
                    ELSE [s.prio EXCEPT ![t] = s.prio[s.cur]]
  <2>9. r.prio = [s.prio EXCEPT ![t] = p1] =>
           r.prio = New
    BY <1>2
  <2> HIDE DEF r, p1, New
  <2>4. /\ a.prio = [s.prio EXCEPT ![t] = p1] /\ Untouched(s, a)
        /\ a.wake = s.wake /\ a.pending = s.pending /\ a.dying = s.dying /\ a.waiting = s.waiting
        /\ a.ready = s.ready /\ a.top = s.top /\ a.delayed = s.delayed /\ a.overflow = s.overflow
    BY <1>0 DEF KernelData, Untouched, Kept
  <2>5. a \in KernelData
    <3>1. [s.prio EXCEPT ![t] = p1] \in [Task -> Priorities]
      BY <1>0, <2>1
    <3>2. a = [s EXCEPT !.prio = a.prio]
      BY <1>0 DEF KernelData
    <3> HIDE DEF a
    <3> QED BY <1>0, <2>4, <3>1, <3>2 DEF KernelData
  <2>6. Lists(a)
    <3> HIDE DEF a
    <3> QED BY <1>0, <2>4, <2>5 DEF Lists
  <2>7. CASE ~Contains(s.ready[p0], t)
    <3>1. r = a
      BY <2>2, <2>7
    <3>2. \A p \in Priorities : ~Contains(s.ready[p], t)
      BY <1>0, <2>1, <2>7 DEF Places
    <3> HIDE DEF a
    <3>3. Places(a)
      BY <1>0, <2>1, <2>4, <3>2 DEF Places, Asleep
    <3>4. Events(a) /\ Tops(a) /\ Ready(Idle, a)
      BY <1>0, <2>4 DEF Events, Tops, Ready, Asleep
    <3>5. Forward(s, a)
      BY <2>4, ForwardNot
    <3> QED BY <2>4, <2>6, <2>9, <3>1, <3>3, <3>4, <3>5 DEF Sound, Ready, r, New
  <2>8. CASE Contains(s.ready[p0], t)
    <3>1. r = AddTaskToReadyQueue(t, b)
      BY <2>2, <2>8
    <3>2. /\ l \in Seq(Task) /\ NoDup(l) /\ \A u : Contains(l, u) <=> Contains(s.ready[p0], u) /\ u # t
      <4>1. s.ready[p0] \in Seq(Task) /\ NoDup(s.ready[p0])
        BY <1>0, <2>1 DEF Lists
      <4> QED BY <4>1, Removed
    <3> HIDE DEF a, p0
    <3>3. /\ b.prio = a.prio /\ Untouched(a, b)
          /\ b.wake = a.wake /\ b.pending = a.pending /\ b.dying = a.dying /\ b.waiting = a.waiting
          /\ b.ready = [s.ready EXCEPT ![p0] = l]
          /\ b.top = a.top /\ b.delayed = a.delayed /\ b.overflow = a.overflow
      BY <2>4, <2>5 DEF KernelData, Untouched, Kept
    <3>4. b \in KernelData
      <4>1. [s.ready EXCEPT ![p0] = l] \in [Priorities -> Seq(Task)]
        BY <1>0, <3>2
      <4>2. b = [a EXCEPT !.ready = b.ready]
        BY <2>5 DEF KernelData
      <4> HIDE DEF b
      <4> QED BY <2>5, <3>3, <4>1, <4>2 DEF KernelData
    <3> HIDE DEF b, l
    <3>5. Lists(b)
      <4>1. \A p \in Priorities : NoDup(b.ready[p])
        BY <1>0, <3>2, <3>3 DEF Lists
      <4> QED BY <2>6, <3>3, <3>4, <4>1 DEF Lists
    <3>6. \A p \in Priorities, u \in Task : Contains(b.ready[p], u) <=> Contains(s.ready[p], u) /\ u # t
      BY <1>0, <2>1, <3>2, <3>3 DEF Places, p0
    <3>7. Tops(b)
      <4> SUFFICES ASSUME NEW p \in Priorities, b.ready[p] # <<>> PROVE p <= b.top
        BY DEF Tops
      <4>1. b.ready[p] \in Seq(Task) /\ s.ready[p] \in Seq(Task)
        BY <1>0, <3>4 DEF KernelData
      <4>2. PICK u \in Task : Contains(b.ready[p], u)
        BY <4>1, Emptied
      <4>3. s.ready[p] # <<>>
        BY <3>6, <4>1, <4>2, Emptied
      <4> QED BY <1>0, <2>4, <3>3, <4>3 DEF Tops
    <3>8. b.prio[t] = p1 /\ b.prio = [s.prio EXCEPT ![t] = p1]
      BY <1>0, <2>1, <2>4, <3>3
    <3>9. ~Contains(b.ready[b.prio[t]], t)
      BY <2>1, <3>6, <3>8
    <3>10. /\ Lists(r) /\ Untouched(b, r)
           /\ r.prio = b.prio /\ r.wake = b.wake /\ r.delayed = b.delayed /\ r.overflow = b.overflow
           /\ r.pending = b.pending /\ r.dying = b.dying /\ r.waiting = b.waiting
           /\ \A p \in Priorities, u \in Task :
                Contains(r.ready[p], u) <=> Contains(b.ready[p], u) \/ (u = t /\ p = b.prio[t])
           /\ Tops(b) => Tops(r)
      BY <2>1, <3>1, <3>5, <3>9, AddIs
    <3>11. /\ r.wake = s.wake /\ r.delayed = s.delayed /\ r.overflow = s.overflow
           /\ r.pending = s.pending /\ r.dying = s.dying /\ r.waiting = s.waiting
           /\ Untouched(s, r)
      BY <2>4, <3>3, <3>10 DEF Untouched, Kept
    <3>12. \A p \in Priorities, u \in Task :
             Contains(r.ready[p], u) <=> (Contains(s.ready[p], u) /\ u # t) \/ (u = t /\ p = p1)
      BY <3>6, <3>8, <3>10
    <3>13. r.prio = [s.prio EXCEPT ![t] = p1]
      BY <3>8, <3>10
    <3>14. Places(r)
      BY <1>0, <2>1, <2>8, <3>11, <3>12, <3>13 DEF Places, Asleep, p0
    <3>15. Events(r)
      BY <1>0, <3>11 DEF Events, Asleep
    <3>16. \A u \in Task : Ready(u, r) <=> Ready(u, s)
      BY <2>1, <2>8, <3>12 DEF Ready
    <3>17. Sound(r)
      BY <1>0, <3>7, <3>10, <3>14, <3>15, <3>16, KernelAssumption DEF Sound
    <3>18. Forward(s, r)
      BY <3>11, <3>16 DEF Forward, Asleep, Awake
    <3> QED BY <2>9, <3>11, <3>13, <3>16, <3>17, <3>18 DEF r, New
  <2> QED BY <2>7, <2>8
<1> QED BY <1>1, <1>2

(* A holder that loses the priority it inherited moves to the ready list of   *)
(* its own, and nobody else moves.                                            *)
LEMMA PriorityDisinheritIs ==
  ASSUME NEW s, Sound(s), NEW t \in Task \cup {None}, t # None => Ready(t, s)
  PROVE  LET r == vTaskPriorityDisinherit(t, s)
         IN /\ Sound(r) /\ Untouched(s, r) /\ Forward(s, r)
            /\ r.pending = s.pending /\ r.dying = s.dying /\ r.waiting = s.waiting
            /\ \A u \in Task : Ready(u, r) <=> Ready(u, s)
            /\ Rows(s) => Rows(r)
            /\ Ahead(s) => Ahead(r)
            /\ r.prio = IF t = None THEN s.prio ELSE [s.prio EXCEPT ![t] = BasePriority[t]]
            /\ \A u \in Task : Asleep(u, r) => r.wake[u] = s.wake[u]
<1> DEFINE r == vTaskPriorityDisinherit(t, s)
           a == RemoveState(t, s)
           p1 == BasePriority[t]
           b == [a EXCEPT !.prio[t] = p1]
<1>0. /\ s \in KernelData /\ Lists(s) /\ Places(s) /\ Events(s) /\ Tops(s) /\ Ready(Idle, s)
      /\ s.prio \in [Task -> Priorities] /\ s.ready \in [Priorities -> Seq(Task)]
  BY DEF Sound, Lists, KernelData
<1>1. CASE t = None \/ s.prio[t] = p1
  <2>1. r = s
    BY <1>1 DEF vTaskPriorityDisinherit
  <2>2. Forward(s, s)
    BY ForwardNot
  <2>3. t # None => s.prio = [s.prio EXCEPT ![t] = BasePriority[t]]
    BY <1>0, <1>1
  <2> QED BY <2>1, <2>2, <2>3 DEF Untouched, Kept
<1>2. CASE t # None /\ s.prio[t] # p1
  <2>1. t \in Task /\ p1 \in Priorities /\ Ready(t, s)
    BY <1>2, PrioritiesAre
  <2>2. r = AddTaskToReadyQueue(t, b)
    BY <1>2 DEF vTaskPriorityDisinherit
  <2>3. /\ Lists(a) /\ Untouched(s, a)
        /\ a.prio = s.prio /\ a.top = s.top
        /\ a.pending = s.pending /\ a.dying = s.dying /\ a.waiting = s.waiting
        /\ \A p \in Priorities, u \in Task : Contains(a.ready[p], u) <=> Contains(s.ready[p], u) /\ u # t
        /\ \A u \in Task : Contains(a.delayed, u) <=> Contains(s.delayed, u) /\ u # t
        /\ \A u \in Task : Contains(a.overflow, u) <=> Contains(s.overflow, u) /\ u # t
        /\ \A u \in Task : u # t => a.wake[u] = s.wake[u]
        /\ Rows(s) => Rows(a)
    BY <1>0, <2>1, RemoveStateIs
  <2> HIDE DEF r, a, p1
  <2>4. a \in KernelData
    BY <2>3 DEF Lists
  <2>5. /\ b.prio = [s.prio EXCEPT ![t] = p1] /\ Untouched(a, b)
        /\ b.wake = a.wake /\ b.pending = a.pending /\ b.dying = a.dying /\ b.waiting = a.waiting
        /\ b.ready = a.ready /\ b.top = a.top /\ b.delayed = a.delayed /\ b.overflow = a.overflow
    BY <2>3, <2>4 DEF KernelData, Untouched, Kept
  <2>6. b \in KernelData
    <3>1. [s.prio EXCEPT ![t] = p1] \in [Task -> Priorities]
      BY <1>0, <2>1
    <3>2. b = [a EXCEPT !.prio = b.prio]
      BY <2>4 DEF KernelData
    <3> HIDE DEF b
    <3> QED BY <2>4, <2>5, <3>1, <3>2 DEF KernelData
  <2> HIDE DEF b
  <2>7. Lists(b)
    BY <2>3, <2>5, <2>6 DEF Lists
  <2>8. Tops(b)
    <3> SUFFICES ASSUME NEW p \in Priorities, b.ready[p] # <<>> PROVE p <= b.top
      BY DEF Tops
    <3>1. b.ready[p] \in Seq(Task) /\ s.ready[p] \in Seq(Task)
      BY <1>0, <2>6 DEF KernelData
    <3>2. PICK u \in Task : Contains(b.ready[p], u)
      BY <3>1, Emptied
    <3>3. s.ready[p] # <<>>
      BY <2>3, <2>5, <3>1, <3>2, Emptied
    <3> QED BY <1>0, <2>3, <2>5, <3>3 DEF Tops
  <2>9. b.prio[t] = p1
    BY <1>0, <2>1, <2>5
  <2>10. ~Contains(b.ready[b.prio[t]], t)
    BY <2>1, <2>3, <2>5, <2>9
  <2>11. /\ Lists(r) /\ Untouched(b, r)
         /\ r.prio = b.prio /\ r.wake = b.wake /\ r.delayed = b.delayed /\ r.overflow = b.overflow
         /\ r.pending = b.pending /\ r.dying = b.dying /\ r.waiting = b.waiting
         /\ \A p \in Priorities, u \in Task :
              Contains(r.ready[p], u) <=> Contains(b.ready[p], u) \/ (u = t /\ p = b.prio[t])
         /\ Tops(b) => Tops(r)
    BY <2>1, <2>2, <2>7, <2>10, AddIs
  <2>12. /\ r.pending = s.pending /\ r.dying = s.dying /\ r.waiting = s.waiting
         /\ Untouched(s, r)
         /\ r.prio = [s.prio EXCEPT ![t] = p1]
    BY <2>3, <2>5, <2>11 DEF Untouched, Kept
  <2>13. \A p \in Priorities, u \in Task :
           Contains(r.ready[p], u) <=> (Contains(s.ready[p], u) /\ u # t) \/ (u = t /\ p = p1)
    BY <2>3, <2>5, <2>9, <2>11
  <2>14. ~Asleep(t, s) /\ ~Contains(s.dying, t)
    BY <1>0, <2>1 DEF Places, Ready
  <2>15. /\ \A u \in Task : Contains(r.delayed, u) <=> Contains(s.delayed, u)
         /\ \A u \in Task : Contains(r.overflow, u) <=> Contains(s.overflow, u)
         /\ \A u \in Task : u # t => r.wake[u] = s.wake[u]
    BY <2>3, <2>5, <2>11, <2>14 DEF Asleep
  <2>16. Places(r)
    BY <1>0, <2>1, <2>12, <2>13, <2>14, <2>15 DEF Places, Asleep
  <2>17. Events(r)
    BY <1>0, <2>12, <2>15 DEF Events, Asleep
  <2>18. \A u \in Task : Ready(u, r) <=> Ready(u, s)
    BY <2>1, <2>13 DEF Ready
  <2>19. Sound(r)
    BY <1>0, <2>8, <2>11, <2>16, <2>17, <2>18, KernelAssumption DEF Sound
  <2>20. Forward(s, r)
    BY <2>12, <2>15, <2>18 DEF Forward, Asleep, Awake
  <2>21. Rows(s) => Rows(r)
    BY <2>3, <2>5, <2>11 DEF Rows, Untouched, Kept
  <2>22. Ahead(s) => Ahead(r)
    BY <2>12, <2>14, <2>15 DEF Ahead, Asleep, Untouched, Kept
  <2>23. \A u \in Task : Asleep(u, r) => r.wake[u] = s.wake[u]
    BY <2>14, <2>15 DEF Asleep
  <2>24. r.prio = IF t = None THEN s.prio ELSE [s.prio EXCEPT ![t] = BasePriority[t]]
    BY <1>2, <2>12 DEF p1
  <2> QED BY <2>12, <2>18, <2>19, <2>20, <2>21, <2>22, <2>23, <2>24 DEF r
<1> QED BY <1>1, <1>2

(* What giving a semaphore leaves alone, but for the semaphore                *)
Ungiven(s, r) ==
  /\ r.tick = s.tick /\ r.missed = s.missed /\ r.suspended = s.suspended
  /\ r.left = s.left /\ r.entered = s.entered /\ r.wrapped = s.wrapped

(* Who gives a mutex is back to its own priority, and nobody else moves.      *)
Lowered(s, r, q) ==
  /\ r.prio = IF q \in Mutex /\ s.holder[q] # None
              THEN [s.prio EXCEPT ![s.holder[q]] = BasePriority[s.holder[q]]] ELSE s.prio
  /\ \A u \in Task : Asleep(u, r) => r.wake[u] = s.wake[u]
  /\ \A u \in Task : Ready(u, r) <=> Ready(u, s)

(* A give leaves the semaphore full and without a holder, and the lists       *)
(* sound.                                                                     *)
LEMMA CopyDataToQueueIs ==
  ASSUME NEW s, Sound(s), Rows(s), Ahead(s), NEW q \in Sem,
         q \in Mutex /\ s.holder[q] # None => Ready(s.holder[q], s)
  PROVE  LET r == CopyDataToQueue(q, s)
         IN /\ Sound(r) /\ Rows(r) /\ Ahead(r) /\ Forward(s, r) /\ Ungiven(s, r)
            /\ r.holder = [s.holder EXCEPT ![q] = None] /\ r.full = [s.full EXCEPT ![q] = TRUE]
            /\ r.lock = s.lock /\ r.waiting = s.waiting
            /\ r.cur = s.cur /\ r.missedYield = s.missedYield
            /\ Lowered(s, r, q)
<1> DEFINE a == IF q \in Mutex THEN vTaskPriorityDisinherit(s.holder[q], s) ELSE s
           r == CopyDataToQueue(q, s)
<1>1. /\ Sound(a) /\ Untouched(s, a) /\ Forward(s, a) /\ a.waiting = s.waiting
      /\ Rows(a) /\ Ahead(a)
      /\ Lowered(s, a, q)
  <2>1. CASE q \notin Mutex
    <3>1. Forward(s, s)
      BY ForwardNot
    <3> QED BY <2>1, <3>1 DEF Untouched, Kept, Lowered
  <2>2. CASE q \in Mutex
    <3>1. s.holder[q] \in Task \cup {None}
      BY DEF Sound, Lists, KernelData
    <3>2. PICK h \in Task \cup {None} : h = s.holder[q]
      BY <3>1
    <3>3. a = vTaskPriorityDisinherit(h, s) /\ (h # None => Ready(h, s))
      BY <2>2, <3>2
    <3> HIDE DEF a
    <3>4. /\ Sound(a) /\ Untouched(s, a) /\ Forward(s, a) /\ a.waiting = s.waiting
          /\ Rows(a) /\ Ahead(a)
      BY <3>3, PriorityDisinheritIs
    <3>5. /\ a.prio = IF h = None THEN s.prio ELSE [s.prio EXCEPT ![h] = BasePriority[h]]
          /\ \A u \in Task : Asleep(u, a) => a.wake[u] = s.wake[u]
          /\ \A u \in Task : Ready(u, a) <=> Ready(u, s)
      BY <3>3, PriorityDisinheritIs
    <3>6. Lowered(s, a, q)
      BY <2>2, <3>2, <3>5 DEF Lowered
    <3> QED BY <3>4, <3>6
  <2> QED BY <2>1, <2>2
<1>2. r = [a EXCEPT !.holder[q] = None, !.full[q] = TRUE]
  BY DEF CopyDataToQueue
<1> HIDE DEF a, r
<1>3. a \in KernelData
  BY <1>1 DEF Sound, Lists
<1>4. /\ r.holder = [s.holder EXCEPT ![q] = None] /\ r.full = [s.full EXCEPT ![q] = TRUE]
      /\ Ungiven(s, r) /\ r.lock = s.lock /\ r.waiting = s.waiting
      /\ r.cur = s.cur /\ r.missedYield = s.missedYield
      /\ r.pending = a.pending /\ r.dying = a.dying /\ r.ready = a.ready /\ r.top = a.top
      /\ r.delayed = a.delayed /\ r.overflow = a.overflow /\ r.waiting = a.waiting
      /\ r.tick = a.tick /\ r.wake = a.wake /\ r.prio = a.prio
  BY <1>1, <1>2, <1>3 DEF KernelData, Untouched, Kept, Ungiven
<1>5. r \in KernelData
  <2>1. /\ [a.holder EXCEPT ![q] = None] \in [Sem -> Task \cup {None}]
        /\ [a.full EXCEPT ![q] = TRUE] \in [Sem -> BOOLEAN]
    BY <1>3 DEF KernelData
  <2>2. r = [a EXCEPT !.holder = [a.holder EXCEPT ![q] = None], !.full = [a.full EXCEPT ![q] = TRUE]]
    BY <1>2, <1>3 DEF KernelData
  <2> QED BY <1>3, <2>1, <2>2 DEF KernelData
<1>6. Sound(r)
  BY <1>1, <1>4, <1>5 DEF Sound, Lists, Places, Events, Tops, Asleep, Ready
<1>7. Rows(r) /\ Ahead(r)
  BY <1>1, <1>4 DEF Rows, Ahead
<1>8. Forward(s, r)
  <2>1. Forward(a, r)
    BY <1>4, ForwardNot
  <2> QED BY <1>1, <2>1, ForwardTwice
<1>9. Lowered(s, r, q)
  BY <1>1, <1>4 DEF Asleep, Ready, Lowered
<1> QED BY <1>4, <1>6, <1>7, <1>8, <1>9 DEF r

(* A task gives with the scheduler running.                                   *)
LEMMA GenericSendIs ==
  ASSUME NEW s, Sound(s), Rows(s), Ahead(s), ~s.suspended, NEW q \in Sem, ~s.full[q],
         q \in Mutex /\ s.holder[q] # None => Ready(s.holder[q], s)
  PROVE  LET r == GenericSend(q, s)
         IN /\ Sound(r) /\ Rows(r) /\ Ahead(r) /\ Forward(s, r) /\ Ungiven(s, r)
            /\ r.holder = [s.holder EXCEPT ![q] = None] /\ r.full = [s.full EXCEPT ![q] = TRUE]
            /\ r.lock = s.lock
            /\ r.cur = s.cur \/ Ready(r.cur, r)
            /\ s.waiting[q] # <<>> => \E t \in Task : Contains(s.waiting[q], t) /\ Awake(t, r)
<1> DEFINE a == CopyDataToQueue(q, s)
           b == RemoveFromEventList(q, a)
           r == GenericSend(q, s)
<1>1. /\ Sound(a) /\ Rows(a) /\ Ahead(a) /\ Forward(s, a) /\ Ungiven(s, a)
      /\ a.holder = [s.holder EXCEPT ![q] = None] /\ a.full = [s.full EXCEPT ![q] = TRUE]
      /\ a.lock = s.lock /\ a.waiting = s.waiting
      /\ a.cur = s.cur /\ a.missedYield = s.missedYield
  BY CopyDataToQueueIs
<1> HIDE DEF a
<1>2. /\ Sound(b) /\ Untouched(a, b) /\ Forward(a, b) /\ Rows(b) /\ Ahead(b)
      /\ a.waiting[q] # <<>> => \E t \in Task : Contains(a.waiting[q], t) /\ Awake(t, b)
  BY <1>1, RemoveFromEventListIs
<1> HIDE DEF b
<1>3. /\ Forward(s, b) /\ Ungiven(s, b)
      /\ b.holder = [s.holder EXCEPT ![q] = None] /\ b.full = [s.full EXCEPT ![q] = TRUE]
      /\ b.lock = s.lock /\ b.cur = s.cur
      /\ s.waiting[q] # <<>> => \E t \in Task : Contains(s.waiting[q], t) /\ Awake(t, b)
  BY <1>1, <1>2, ForwardTwice DEF Untouched, Kept, Ungiven
<1>4. r = IF Outranks(q, a) THEN vTaskSwitchContext(b) ELSE b
  BY DEF GenericSend, a, b
<1>5. CASE ~Outranks(q, a)
  BY <1>2, <1>3, <1>4, <1>5
<1>6. CASE Outranks(q, a)
  <2>1. r = vTaskSwitchContext(b)
    BY <1>4, <1>6
  <2> HIDE DEF r
  <2>2. /\ Sound(r) /\ Kept(b, r) /\ Forward(b, r)
        /\ r.wake = b.wake /\ r.delayed = b.delayed /\ r.overflow = b.overflow
        /\ IF b.suspended THEN r.cur = b.cur ELSE Ready(r.cur, r)
    BY <1>2, <2>1, SwitchIs
  <2>3. Rows(r) /\ Ahead(r)
    BY <1>2, <2>2 DEF Rows, Ahead, Kept
  <2>4. Forward(s, r) /\ Ungiven(s, r)
    BY <1>3, <2>2, ForwardTwice DEF Ungiven, Kept
  <2>5. \A t \in Task : Awake(t, b) => Awake(t, r)
    BY <2>2 DEF Forward
  <2> QED BY <1>3, <2>2, <2>3, <2>4, <2>5 DEF Kept, r
<1> QED BY <1>5, <1>6

(* An interrupt gives at any time, while another task may look at the queue.  *)
LEMMA SendFromISRIs ==
  ASSUME NEW s, Sound(s), Rows(s), Ahead(s), NEW q \in Sem \ Mutex, s.lock[q] # 1
  PROVE  LET r == GenericSendFromISR(q, s)
         IN /\ Sound(r) /\ Rows(r) /\ Ahead(r) /\ Forward(s, r) /\ Ungiven(s, r)
            /\ r.holder = [s.holder EXCEPT ![q] = None] /\ r.full = [s.full EXCEPT ![q] = TRUE]
            /\ r.lock = [s.lock EXCEPT ![q] = IF @ = -1 THEN -1 ELSE 1]
            /\ r.cur = s.cur \/ (~s.suspended /\ Ready(r.cur, r))
            /\ s.lock[q] = -1 /\ s.waiting[q] # <<>> =>
                 \E t \in Task : Contains(s.waiting[q], t) /\ Awake(t, r)
<1> DEFINE a == CopyDataToQueue(q, s)
           b == RemoveFromEventList(q, a)
           l == [s.lock EXCEPT ![q] = IF @ = -1 THEN -1 ELSE 1]
           r == GenericSendFromISR(q, s)
<1>0. s.lock \in [Sem -> -1..1]
  BY DEF Sound, Lists, KernelData
<1>1. /\ Sound(a) /\ Rows(a) /\ Ahead(a) /\ Forward(s, a) /\ Ungiven(s, a)
      /\ a.holder = [s.holder EXCEPT ![q] = None] /\ a.full = [s.full EXCEPT ![q] = TRUE]
      /\ a.lock = s.lock /\ a.waiting = s.waiting
      /\ a.cur = s.cur /\ a.missedYield = s.missedYield
  BY CopyDataToQueueIs
<1>2. r = IF s.lock[q] # -1 THEN [a EXCEPT !.lock[q] = @ + 1]
          ELSE IF Outranks(q, a) THEN vTaskSwitchContext(b) ELSE b
  BY DEF GenericSendFromISR
<1> HIDE DEF a, r
<1>3. CASE s.lock[q] # -1
  <2>1. s.lock[q] = 0 /\ s.lock[q] + 1 = 1
    BY <1>0, <1>3
  <2>2. l = [s.lock EXCEPT ![q] = 1]
    BY <1>3
  <2>3. a \in KernelData
    BY <1>1 DEF Sound, Lists
  <2>4. l \in [Sem -> -1..1]
    BY <1>0, <2>2
  <2>5. r = [a EXCEPT !.lock = l]
    BY <1>1, <1>2, <1>3, <2>1, <2>2, <2>3 DEF KernelData
  <2> HIDE DEF l
  <2>6. /\ r.lock = l /\ r.holder = a.holder /\ r.full = a.full /\ r.cur = a.cur
        /\ Ungiven(a, r)
        /\ r.pending = a.pending /\ r.dying = a.dying /\ r.ready = a.ready /\ r.top = a.top
        /\ r.delayed = a.delayed /\ r.overflow = a.overflow /\ r.waiting = a.waiting
        /\ r.tick = a.tick /\ r.wake = a.wake /\ r.prio = a.prio
        /\ r \in KernelData
    BY <2>3, <2>4, <2>5 DEF KernelData, Ungiven
  <2>7. Sound(r)
    BY <1>1, <2>6 DEF Sound, Lists, Places, Events, Tops, Asleep, Ready
  <2>8. Rows(r) /\ Ahead(r)
    BY <1>1, <2>6 DEF Rows, Ahead
  <2>9. Forward(a, r)
    BY <2>6, ForwardNot
  <2>10. Forward(s, r) /\ Ungiven(s, r)
    BY <1>1, <2>6, <2>9, ForwardTwice DEF Ungiven
  <2> QED BY <1>1, <1>3, <2>6, <2>7, <2>8, <2>10 DEF l, r
<1>4. CASE s.lock[q] = -1
  <2>1. l = s.lock
    BY <1>0, <1>4
  <2>2. /\ Sound(b) /\ Untouched(a, b) /\ Forward(a, b) /\ Rows(b) /\ Ahead(b)
        /\ a.waiting[q] # <<>> => \E t \in Task : Contains(a.waiting[q], t) /\ Awake(t, b)
    BY <1>1, RemoveFromEventListIs
  <2> HIDE DEF b, l
  <2>3. /\ Forward(s, b) /\ Ungiven(s, b)
        /\ b.holder = [s.holder EXCEPT ![q] = None] /\ b.full = [s.full EXCEPT ![q] = TRUE]
        /\ b.lock = s.lock /\ b.cur = s.cur
        /\ s.waiting[q] # <<>> => \E t \in Task : Contains(s.waiting[q], t) /\ Awake(t, b)
    BY <1>1, <2>2, ForwardTwice DEF Untouched, Kept, Ungiven
  <2>4. CASE ~Outranks(q, a)
    <3>1. r = b
      BY <1>2, <1>4, <2>4
    <3> QED BY <2>1, <2>2, <2>3, <3>1 DEF l, r
  <2>5. CASE Outranks(q, a)
    <3>1. r = vTaskSwitchContext(b)
      BY <1>2, <1>4, <2>5
    <3>2. /\ Sound(r) /\ Kept(b, r) /\ Forward(b, r)
          /\ r.wake = b.wake /\ r.delayed = b.delayed /\ r.overflow = b.overflow
          /\ IF b.suspended THEN r.cur = b.cur ELSE Ready(r.cur, r)
      BY <2>2, <3>1, SwitchIs
    <3>3. Rows(r) /\ Ahead(r)
      BY <2>2, <3>2 DEF Rows, Ahead, Kept
    <3>4. Forward(s, r) /\ Ungiven(s, r)
      BY <2>3, <3>2, ForwardTwice DEF Ungiven, Kept
    <3>5. \A t \in Task : Awake(t, b) => Awake(t, r)
      BY <3>2 DEF Forward
    <3>6. /\ r.holder = b.holder /\ r.full = b.full /\ r.lock = b.lock
          /\ r.cur = s.cur \/ (~s.suspended /\ Ready(r.cur, r))
      BY <2>3, <3>2 DEF Kept, Ungiven
    <3> QED BY <2>1, <2>3, <3>2, <3>3, <3>4, <3>5, <3>6 DEF l, r
  <2> QED BY <2>4, <2>5
<1> QED BY <1>3, <1>4

(* prvUnlockQueue wakes a task that waits if the semaphore was given while    *)
(* its queue was locked.                                                      *)
LEMMA UnlockQueueIs ==
  ASSUME NEW s, Sound(s), Rows(s), Ahead(s), NEW q \in Sem
  PROVE  LET r == UnlockQueue(q, s)
         IN /\ Sound(r) /\ Rows(r) /\ Ahead(r) /\ Forward(s, r) /\ Ungiven(s, r)
            /\ r.holder = s.holder /\ r.full = s.full /\ r.cur = s.cur
            /\ r.lock = [s.lock EXCEPT ![q] = -1]
            /\ s.lock[q] > 0 /\ s.waiting[q] # <<>> =>
                 \E t \in Task : Contains(s.waiting[q], t) /\ Awake(t, r)
<1> DEFINE a == RemoveFromEventList(q, s)
           y == a.missedYield \/ Outranks(q, s)
           b == IF s.lock[q] > 0 THEN [a EXCEPT !.missedYield = @ \/ Outranks(q, s)] ELSE s
           l == [s.lock EXCEPT ![q] = -1]
           r == UnlockQueue(q, s)
<1>0. s.lock \in [Sem -> -1..1] /\ s \in KernelData
  BY DEF Sound, Lists, KernelData
<1>1. /\ Sound(a) /\ Untouched(s, a) /\ Forward(s, a) /\ Rows(a) /\ Ahead(a)
      /\ s.waiting[q] # <<>> => \E t \in Task : Contains(s.waiting[q], t) /\ Awake(t, a)
  BY RemoveFromEventListIs
<1> HIDE DEF a
<1>2. a \in KernelData
  BY <1>1 DEF Sound, Lists
<1>3. /\ b \in KernelData /\ Sound(b) /\ Rows(b) /\ Ahead(b) /\ Forward(s, b) /\ Kept(s, b) /\ b.cur = s.cur
      /\ s.lock[q] > 0 /\ s.waiting[q] # <<>> =>
            \E t \in Task : Contains(s.waiting[q], t) /\ Awake(t, b)
  <2>1. CASE ~(s.lock[q] > 0)
    <3>1. Forward(s, s)
      BY ForwardNot
    <3> QED BY <1>0, <2>1, <3>1 DEF Kept
  <2>2. CASE s.lock[q] > 0
    <3>1. b = [a EXCEPT !.missedYield = y]
      BY <2>2
    <3>2. y \in BOOLEAN
      OBVIOUS
    <3> HIDE DEF b, y
    <3>3. /\ b \in KernelData /\ Kept(a, b) /\ b.cur = a.cur
          /\ b.pending = a.pending /\ b.dying = a.dying /\ b.ready = a.ready /\ b.top = a.top
          /\ b.delayed = a.delayed /\ b.overflow = a.overflow /\ b.waiting = a.waiting
          /\ b.tick = a.tick /\ b.wake = a.wake /\ b.prio = a.prio
      BY <1>2, <3>1, <3>2 DEF KernelData, Kept
    <3>4. Sound(b)
      BY <1>1, <3>3 DEF Sound, Lists, Places, Events, Tops, Asleep, Ready
    <3>5. Rows(b) /\ Ahead(b)
      BY <1>1, <3>3 DEF Rows, Ahead
    <3>6. Forward(a, b)
      BY <3>3, ForwardNot
    <3>7. \A t \in Task : Awake(t, a) => Awake(t, b)
      BY <3>6 DEF Forward
    <3>8. Forward(s, b) /\ Kept(s, b) /\ b.cur = s.cur
      BY <1>1, <3>3, <3>6, ForwardTwice DEF Untouched, Kept
    <3> QED BY <1>1, <3>3, <3>4, <3>5, <3>7, <3>8
  <2> QED BY <2>1, <2>2
<1>4. r = [b EXCEPT !.lock[q] = -1]
  BY DEF UnlockQueue, a
<1> HIDE DEF b, r
<1>5. l \in [Sem -> -1..1] /\ b.lock = s.lock
  BY <1>0, <1>3 DEF Kept
<1>6. r = [b EXCEPT !.lock = l]
  BY <1>3, <1>4, <1>5 DEF KernelData
<1> HIDE DEF l
<1>7. /\ r.lock = l /\ r.holder = b.holder /\ r.full = b.full /\ r.cur = b.cur
      /\ Ungiven(b, r)
      /\ r.pending = b.pending /\ r.dying = b.dying /\ r.ready = b.ready /\ r.top = b.top
      /\ r.delayed = b.delayed /\ r.overflow = b.overflow /\ r.waiting = b.waiting
      /\ r.tick = b.tick /\ r.wake = b.wake /\ r.prio = b.prio
      /\ r \in KernelData
  BY <1>3, <1>5, <1>6 DEF KernelData, Ungiven
<1>8. Sound(r)
  BY <1>3, <1>7 DEF Sound, Lists, Places, Events, Tops, Asleep, Ready
<1>9. Rows(r) /\ Ahead(r)
  BY <1>3, <1>7 DEF Rows, Ahead
<1>10. Forward(b, r)
  BY <1>7, ForwardNot
<1>11. Forward(s, r) /\ Ungiven(s, r)
  BY <1>3, <1>7, <1>10, ForwardTwice DEF Kept, Ungiven
<1>12. \A t \in Task : Awake(t, b) => Awake(t, r)
  BY <1>10 DEF Forward
<1> QED BY <1>3, <1>7, <1>8, <1>9, <1>11, <1>12 DEF Kept, l, r

-------------------------------------------------------------------------------
(* The inductive invariant *)

SuspendedPc == {"lock", "check", "place", "unlock", "insert", "resume"}
LockedPc == {"check", "place", "unlock"}

(* The scheduler is suspended by the running task only, which is on the list  *)
(* of the ready unless it is about to leave the processor.                    *)
RunInv ==
  /\ k.cur \in DOMAIN program
  /\ k.suspended <=> pc[k.cur] \in SuspendedPc
  /\ \A t \in Task \ {k.cur} : pc[t] \notin SuspendedPc
  /\ Ready(k.cur, k) \/ Asleep(k.cur, k)
  /\ Asleep(k.cur, k) => \/ pc[k.cur] \in {"unlock", "resume"} /\ after[k.cur] = "yield"
                         \/ pc[k.cur] = "yield"

PlacedInv ==
  /\ \A t \in Task : Ready(t, k) \/ Asleep(t, k) => t \in DOMAIN program
  /\ \A t \in Started : Ready(t, k) \/ Asleep(t, k)
  /\ child # None => Ready(child, k) \/ Asleep(child, k)

(* Where a task is goes with the call it makes. *)
CallsAt(label) ==
  CASE label = "call" -> {"take", "give", "delay", "until", "delete", "create", "reap"}
    [] label \in {"suspend", "lock", "check", "place", "unlock"} -> {"take"}
    [] label = "insert" -> {"delay", "until", "create", "reap"}
    [] label = "resume" -> {"take", "delay", "until", "create", "reap"}
    [] label = "yield" -> {"take", "delay", "until"}
    [] label = "create" -> {"create"}
    [] label = "reap" -> {"reap"}
ProgInv ==
  \A t \in DOMAIN program :
    /\ idx[t] \in 1..Len(program[t])
    /\ Call(t).do \in CallsAt(pc[t])
    /\ pc[t] \in {"place", "unlock"} => after[t] \notin {"create", "reap"}
    /\ pc[t] = "resume" /\ after[t] \in {"create", "reap"} => Call(t).do = after[t]
    /\ pc[t] = "resume" /\ Call(t).do \in {"create", "reap"} => Call(t).do = after[t]

ReapInv == pc[Idle] \in {"insert", "resume", "reap"} => k.dying # <<>>

HoldInv ==
  /\ \A m \in Mutex : /\ k.full[m] <=> k.holder[m] = None
                      /\ k.holder[m] \in DOMAIN program \cup {None}
                      /\ \A t \in DOMAIN program : k.holder[m] = t <=> m \in Held(program, t, idx[t])
  /\ \A q \in Sem \ Mutex : k.holder[q] = None

LockInv ==
  \A q \in Sem :
    /\ k.lock[q] # -1 <=> pc[k.cur] \in LockedPc /\ Call(k.cur).sem = q
    /\ k.lock[q] = 1 => k.full[q]

PlaceInv == pc[k.cur] = "place" => k.left[k.cur] > 0 /\ after[k.cur] = "yield"

ListInv == /\ TypeOK /\ Sound(k) /\ Rows(k) /\ Ahead(k)
           /\ RunInv /\ PlacedInv /\ ProgInv /\ ReapInv /\ HoldInv /\ LockInv /\ PlaceInv

(* Who waits wants the semaphore; between the look and the unlocking only the *)
(* lock remembers a give.                                                     *)
WaitInv ==
  /\ \A q \in Sem : \A t \in Task : Contains(k.waiting[q], t) =>
       t \in Started /\ Call(t) = [do |-> "take", sem |-> q]
  /\ pc[k.cur] = "place" \/ (pc[k.cur] = "unlock" /\ after[k.cur] = "yield") =>
       (k.full[Call(k.cur).sem] => k.lock[Call(k.cur).sem] = 1)

-------------------------------------------------------------------------------
(* The programs *)

(* The fields a kernel call has.                                              *)
LEMMA CallIs ==
  ASSUME NEW c \in KernelCall
  PROVE  /\ c.do \in CallsAt("call")
         /\ c.do \in {"take", "give"} => c.sem \in Sem /\ c = [do |-> c.do, sem |-> c.sem]
         /\ c.do \in {"delay", "until"} => c.ticks \in 1..TickModulus - 1
<1>1. CASE c \in [do : {"take", "give"}, sem : Sem]
  BY <1>1 DEF CallsAt
<1>2. CASE c \in [do : {"delay", "until"}, ticks : 1..TickModulus - 1]
  BY <1>2 DEF CallsAt
<1>3. CASE c \in [do : {"delete", "create", "reap"}]
  BY <1>3 DEF CallsAt
<1> QED BY <1>1, <1>2, <1>3 DEF KernelCall

(* What a task holds changes with what it takes and gives.                    *)
LEMMA HeldStep ==
  ASSUME NEW p, NEW t, NEW i \in Nat, i >= 1, NEW next, next = i + 1, NEW m \in Mutex
  PROVE  m \in Held(p, t, next) <=>
           \/ p[t][i] = [do |-> "take", sem |-> m]
           \/ m \in Held(p, t, i) /\ p[t][i] # [do |-> "give", sem |-> m]
<1> DEFINE takes(j) == p[t][j] = [do |-> "take", sem |-> m]
           gives(j) == p[t][j] = [do |-> "give", sem |-> m]
<1>1. m \in Held(p, t, i) <=> \E j \in 1..i - 1 : takes(j) /\ \A n \in j + 1..i - 1 : ~gives(n)
  BY DEF Held
<1>2. m \in Held(p, t, next) <=> \E j \in 1..i : takes(j) /\ \A n \in j + 1..i : ~gives(n)
  <2>1. next - 1 = i
    OBVIOUS
  <2> QED BY <2>1 DEF Held
<1>3. takes(i) => ~gives(i)
  OBVIOUS
<1> HIDE DEF takes, gives
<1>4. ASSUME \E j \in 1..i : takes(j) /\ \A n \in j + 1..i : ~gives(n)
      PROVE  takes(i) \/ ((\E j \in 1..i - 1 : takes(j) /\ \A n \in j + 1..i - 1 : ~gives(n)) /\ ~gives(i))
  <2>1. PICK j \in 1..i : takes(j) /\ \A n \in j + 1..i : ~gives(n)
    BY <1>4
  <2>2. CASE j = i
    BY <2>1, <2>2
  <2>3. CASE j # i
    <3>1. j \in 1..i - 1 /\ i \in j + 1..i /\ \A n \in j + 1..i - 1 : n \in j + 1..i
      BY <2>3
    <3> QED BY <2>1, <3>1
  <2> QED BY <2>2, <2>3
<1>5. ASSUME takes(i) PROVE \E j \in 1..i : takes(j) /\ \A n \in j + 1..i : ~gives(n)
  <2>1. i \in 1..i /\ \A n \in i + 1..i : FALSE
    OBVIOUS
  <2> QED BY <1>5, <2>1
<1>6. ASSUME NEW j \in 1..i - 1, takes(j), \A n \in j + 1..i - 1 : ~gives(n), ~gives(i)
      PROVE  \E jj \in 1..i : takes(jj) /\ \A n \in jj + 1..i : ~gives(n)
  <2>1. j \in 1..i /\ \A n \in j + 1..i : n = i \/ n \in j + 1..i - 1
    OBVIOUS
  <2> QED BY <1>6, <2>1
<1>7. m \in Held(p, t, i + 1) <=> takes(i) \/ (m \in Held(p, t, i) /\ ~gives(i))
  BY <1>1, <1>2, <1>4, <1>5, <1>6
<1> QED BY <1>7 DEF takes, gives

(* A task makes one of the calls of its program, and the next one in turn.    *)
LEMMA ProgramIs ==
  ASSUME TypeOK, ProgInv, NEW t \in DOMAIN program
  PROVE  /\ program \in Programs /\ t \in Task /\ Idle \in DOMAIN program /\ DOMAIN program \subseteq Task
         /\ Len(program[t]) \in Nat /\ Len(program[t]) >= 1
         /\ \A i \in 1..Len(program[t]) : program[t][i] \in KernelCall
         /\ idx[t] \in 1..Len(program[t]) /\ Call(t) \in KernelCall
         /\ NextIdx(t) = IF idx[t] = Len(program[t]) THEN 1 ELSE idx[t] + 1
         /\ NextIdx(t) \in 1..Len(program[t])
<1>1. /\ program \in Programs /\ t \in Task /\ Idle \in DOMAIN program /\ DOMAIN program \subseteq Task
      /\ program[t] \in Seq(KernelCall) /\ program[t] # <<>>
  BY ProgramsAssumption DEF TypeOK
<1>2. Len(program[t]) \in Nat /\ Len(program[t]) >= 1
  BY <1>1
<1>3. \A i \in 1..Len(program[t]) : program[t][i] \in KernelCall
  BY <1>1
<1>4. idx[t] \in 1..Len(program[t])
  BY DEF ProgInv
<1>5. NextIdx(t) = IF idx[t] = Len(program[t]) THEN 1 ELSE idx[t] + 1
  <2> DEFINE L == Len(program[t])
  <2>1. PICK n \in Nat : n = idx[t] /\ 1 <= n /\ n <= L
    BY <1>2, <1>4
  <2>2. NextIdx(t) = (n % L) + 1
    BY <2>1 DEF NextIdx
  <2> HIDE DEF L
  <2>3. L \in Nat \ {0}
    BY <1>2 DEF L
  <2>4. CASE n = L
    <3>1. n = L * 1 + 0 /\ 0 \in 0..L - 1
      BY <2>3, <2>4
    <3>2. n % L = 0
      BY <2>3, <3>1, Remainder
    <3> QED BY <2>1, <2>2, <2>4, <3>2 DEF L
  <2>5. CASE n # L
    <3>1. n = L * 0 + n /\ n \in 0..L - 1
      BY <2>1, <2>3, <2>5
    <3>2. n % L = n
      BY <2>3, <3>1, Remainder
    <3> QED BY <2>1, <2>2, <2>5, <3>2 DEF L
  <2> QED BY <2>4, <2>5
<1>6. NextIdx(t) \in 1..Len(program[t])
  BY <1>2, <1>4, <1>5
<1>7. Call(t) \in KernelCall
  BY <1>3, <1>4 DEF Call
<1> QED BY <1>1, <1>2, <1>3, <1>4, <1>5, <1>6, <1>7

(* What a task holds after its call: a take adds a mutex, a give removes it.  *)
LEMMA HeldNext ==
  ASSUME TypeOK, ProgInv, NEW t \in DOMAIN program
  PROVE  Held(program, t, NextIdx(t)) =
           {m \in Mutex : \/ Call(t) = [do |-> "take", sem |-> m]
                          \/ m \in Held(program, t, idx[t]) /\ Call(t) # [do |-> "give", sem |-> m]}
<1>0. /\ program \in Programs /\ idx[t] \in 1..Len(program[t]) /\ Len(program[t]) \in Nat
      /\ NextIdx(t) = IF idx[t] = Len(program[t]) THEN 1 ELSE idx[t] + 1
  BY ProgramIs
<1>1. Held(program, t, idx[t] + 1) =
           {m \in Mutex : \/ Call(t) = [do |-> "take", sem |-> m]
                          \/ m \in Held(program, t, idx[t]) /\ Call(t) # [do |-> "give", sem |-> m]}
  <2>1. PICK i \in Nat, next \in Nat : i = idx[t] /\ i >= 1 /\ next = i + 1
    BY <1>0
  <2>2. \A m \in Mutex : m \in Held(program, t, next) <=>
           \/ program[t][i] = [do |-> "take", sem |-> m]
           \/ m \in Held(program, t, i) /\ program[t][i] # [do |-> "give", sem |-> m]
    BY <2>1, HeldStep
  <2>3. Held(program, t, next) \subseteq Mutex
    BY DEF Held
  <2>4. program[t][i] = Call(t)
    BY <2>1 DEF Call
  <2>5. Held(program, t, next) =
           {m \in Mutex : \/ Call(t) = [do |-> "take", sem |-> m]
                          \/ m \in Held(program, t, i) /\ Call(t) # [do |-> "give", sem |-> m]}
    BY <2>2, <2>3, <2>4
  <2> QED BY <2>1, <2>5
<1>2. Held(program, t, 1) = {}
  BY DEF Held
<1>3. Held(program, t, Len(program[t]) + 1) = {}
  BY <1>0, DisciplineAssumption
<1> QED BY <1>0, <1>1, <1>2, <1>3

(* A task that may be deleted holds nothing.                                  *)
LEMMA ChildHoldsNothing ==
  ASSUME TypeOK, ProgInv, NEW t \in DOMAIN program, t \in Child, NEW i \in 1..Len(program[t])
  PROVE  Held(program, t, i) = {}
<1>0. /\ program \in Programs /\ Len(program[t]) \in Nat
  BY ProgramIs
<1>1. \A j \in 1..i - 1 : program[t][j].do \in {"delay", "until"}
  <2>1. \A j \in 1..i - 1 : j \in 1..Len(program[t])
    BY <1>0
  <2> QED BY <1>0, <2>1, DisciplineAssumption
<1>2. \A j \in 1..i - 1 : \A m : program[t][j] # [do |-> "take", sem |-> m]
  BY <1>1
<1> QED BY <1>2 DEF Held

-------------------------------------------------------------------------------
(* A step of the running task *)

AfterStates == {"call", "yield", "fail", "create", "reap"}

(* The running task goes to l, its call to i and its intention to a; another  *)
(* task may start afresh.                                                     *)
Moves(l, i, a, pcs, idxs, afters) ==
  /\ pcs \in [Task -> PcStates] /\ idxs \in [Task -> Nat \ {0}] /\ afters \in [Task -> AfterStates]
  /\ pcs[k.cur] = l /\ idxs[k.cur] = i /\ afters[k.cur] = a
  /\ \A u \in Task \ {k.cur} :
       \/ pcs[u] = pc[u] /\ idxs[u] = idx[u] /\ afters[u] = after[u]
       \/ u \in Child /\ pcs[u] = "call" /\ idxs[u] = 1

(* What such a step has to do with the kernel's data to keep the invariant    *)
StepTo(l, i, a, pcs, idxs, afters, r) ==
  /\ Moves(l, i, a, pcs, idxs, afters)
  /\ i \in 1..Len(program[k.cur])
  /\ program[k.cur][i].do \in CallsAt(l)
  /\ l = "resume" /\ (a \in {"create", "reap"} \/ program[k.cur][i].do \in {"create", "reap"}) =>
       program[k.cur][i].do = a
  /\ r.suspended <=> l \in SuspendedPc
  /\ l \in SuspendedPc => r.cur = k.cur
  /\ Ready(r.cur, r) \/ Asleep(r.cur, r)
  /\ Asleep(r.cur, r) => /\ r.cur = k.cur
                         /\ l = "yield" \/ (l \in {"unlock", "resume"} /\ a = "yield")
  /\ l \in {"insert", "resume", "reap"} /\ k.cur = Idle => r.dying # <<>>
  /\ k.cur # Idle /\ k.dying # <<>> => r.dying # <<>>
  /\ \A q \in Sem : /\ r.lock[q] # -1 <=> l \in LockedPc /\ program[k.cur][i].sem = q
                    /\ r.lock[q] = 1 => r.full[q]
  /\ l = "place" => r.left[k.cur] > 0 /\ a = "yield"
  /\ l \in {"place", "unlock"} => a \notin {"create", "reap"}

(* A step of the running task which moves only itself, and keeps the lists    *)
(* sound, keeps the invariant of the lists.                                   *)
LEMMA TaskStep ==
  ASSUME ListInv, NEW l, NEW i, NEW a, StepTo(l, i, a, pc', idx', after', k'),
         program' = program, last' \in [Task -> 0..TickModulus - 1], child' \in Child \cup {None},
         Sound(k'), Rows(k'), Ahead(k'), PlacedInv', HoldInv'
  PROVE  ListInv'
<1>0. /\ TypeOK /\ RunInv /\ ProgInv /\ ReapInv
      /\ program \in Programs /\ Idle \in DOMAIN program /\ DOMAIN program \subseteq Task /\ k.cur \in DOMAIN program
  BY ProgramIs DEF ListInv, RunInv
<1>1. TypeOK'
  BY <1>0 DEF TypeOK, StepTo, Moves, AfterStates, Sound, Lists
<1>2. k'.cur \in DOMAIN program
  BY <1>1 DEF StepTo, Moves, PlacedInv, TypeOK, KernelData
<1>3. /\ k'.cur = k.cur => pc'[k'.cur] = l
      /\ k'.cur # k.cur => pc'[k'.cur] \notin SuspendedPc
  BY <1>0, <1>2 DEF StepTo, Moves, RunInv, SuspendedPc
<1>4. RunInv'
  <2>1. k'.suspended <=> pc'[k'.cur] \in SuspendedPc
    BY <1>3 DEF StepTo, Moves
  <2>2. \A u \in Task \ {k'.cur} : pc'[u] \notin SuspendedPc
    BY <1>0 DEF StepTo, Moves, RunInv, SuspendedPc
  <2>3. /\ Ready(k'.cur, k') \/ Asleep(k'.cur, k')
        /\ Asleep(k'.cur, k') => \/ pc'[k'.cur] \in {"unlock", "resume"} /\ after'[k'.cur] = "yield"
                                 \/ pc'[k'.cur] = "yield"
    BY DEF StepTo, Moves
  <2> QED BY <1>2, <2>1, <2>2, <2>3 DEF RunInv
<1>5. ProgInv'
  <2> SUFFICES ASSUME NEW u \in DOMAIN program
               PROVE  /\ idx'[u] \in 1..Len(program[u])
                      /\ program[u][idx'[u]].do \in CallsAt(pc'[u])
                      /\ pc'[u] \in {"place", "unlock"} => after'[u] \notin {"create", "reap"}
                      /\ pc'[u] = "resume" /\ after'[u] \in {"create", "reap"} => program[u][idx'[u]].do = after'[u]
                      /\ pc'[u] = "resume" /\ program[u][idx'[u]].do \in {"create", "reap"} =>
                           program[u][idx'[u]].do = after'[u]
    BY DEF ProgInv, Call
  <2>1. CASE u = k.cur
    BY <2>1 DEF StepTo, Moves
  <2>2. CASE u # k.cur /\ pc'[u] = pc[u] /\ idx'[u] = idx[u] /\ after'[u] = after[u]
    BY <1>0, <2>2 DEF ProgInv, Call
  <2>3. CASE pc'[u] = "call" /\ idx'[u] = 1
    <3>1. 1 \in 1..Len(program[u]) /\ program[u][1] \in KernelCall
      BY <1>0, ProgramIs
    <3> QED BY <2>3, <3>1, CallIs
  <2> QED BY <1>0, <2>1, <2>2, <2>3 DEF StepTo, Moves
<1>6. ReapInv'
  <2>1. CASE k.cur = Idle
    BY <2>1 DEF StepTo, Moves, ReapInv
  <2>2. CASE k.cur # Idle
    BY <1>0, <2>2 DEF StepTo, Moves, ReapInv
  <2> QED BY <2>1, <2>2
<1>7. LockInv'
  <2> SUFFICES ASSUME NEW q \in Sem
               PROVE  /\ k'.lock[q] # -1 <=> pc'[k'.cur] \in LockedPc /\ program[k'.cur][idx'[k'.cur]].sem = q
                      /\ k'.lock[q] = 1 => k'.full[q]
    BY DEF LockInv, Call
  <2>1. CASE k'.cur = k.cur
    BY <1>3, <2>1 DEF StepTo, Moves
  <2>2. CASE k'.cur # k.cur
    BY <1>3, <2>2 DEF StepTo, Moves, LockedPc, SuspendedPc
  <2> QED BY <2>1, <2>2
<1>8. PlaceInv'
  <2>1. CASE k'.cur = k.cur
    BY <1>3, <2>1 DEF StepTo, Moves, PlaceInv
  <2>2. CASE k'.cur # k.cur
    BY <1>3, <2>2 DEF SuspendedPc, PlaceInv
  <2> QED BY <2>1, <2>2
<1> QED BY <1>1, <1>4, <1>5, <1>6, <1>7, <1>8 DEF ListInv

(* Where a step only wakes tasks, everything stays in its place.              *)
LEMMA PlacedForward ==
  ASSUME ListInv, Forward(k, k'), program' = program, child' = child
  PROVE  PlacedInv'
<1>1. PlacedInv /\ Started \subseteq Task
  BY ProgramsAssumption DEF ListInv, TypeOK, Started
<1>2. Started' = Started
  BY DEF Started
<1>3. child \in Task \cup {None}
  BY KernelAssumption DEF ListInv, TypeOK
<1> QED BY <1>1, <1>2, <1>3 DEF PlacedInv, Forward

(* Steps that neither take nor give a mutex keep the agreement of holders and *)
(* programs.                                                                  *)
LEMMA HoldSame ==
  ASSUME ListInv, program' = program,
         \A m \in Mutex : k'.full[m] = k.full[m], k'.holder = k.holder,
         \A u \in DOMAIN program :
            \/ idx'[u] = idx[u]
            \/ /\ idx'[u] = NextIdx(u)
               /\ \A m \in Mutex : Call(u) # [do |-> "take", sem |-> m] /\ Call(u) # [do |-> "give", sem |-> m]
            \/ idx'[u] = 1 /\ u \in Child
  PROVE  HoldInv'
<1>0. TypeOK /\ ProgInv /\ HoldInv
  BY DEF ListInv
<1>1. \A u \in DOMAIN program : Held(program, u, idx'[u]) = Held(program, u, idx[u])
  <2> SUFFICES ASSUME NEW u \in DOMAIN program PROVE Held(program, u, idx'[u]) = Held(program, u, idx[u])
    OBVIOUS
  <2>1. CASE /\ idx'[u] = NextIdx(u)
             /\ \A m \in Mutex : Call(u) # [do |-> "take", sem |-> m] /\ Call(u) # [do |-> "give", sem |-> m]
    <3>1. \A m \in Mutex : Call(u) # [do |-> "take", sem |-> m] /\ Call(u) # [do |-> "give", sem |-> m]
      BY <2>1
    <3>2. Held(program, u, NextIdx(u)) =
            {m \in Mutex : \/ Call(u) = [do |-> "take", sem |-> m]
                           \/ m \in Held(program, u, idx[u]) /\ Call(u) # [do |-> "give", sem |-> m]}
      BY <1>0, HeldNext
    <3>3. Held(program, u, idx[u]) \subseteq Mutex
      BY DEF Held
    <3> QED BY <2>1, <3>1, <3>2, <3>3
  <2>2. CASE idx'[u] = 1 /\ u \in Child
    <3>1. idx[u] \in 1..Len(program[u]) /\ 1 \in 1..Len(program[u])
      BY <1>0, ProgramIs
    <3> QED BY <1>0, <2>2, <3>1, ChildHoldsNothing
  <2> QED BY <2>1, <2>2
<1> QED BY <1>0, <1>1 DEF HoldInv

(* Nothing but counters, flags and semaphores has changed.                    *)
SameLists(s, r) ==
  /\ r.ready = s.ready /\ r.top = s.top /\ r.prio = s.prio
  /\ r.delayed = s.delayed /\ r.overflow = s.overflow /\ r.wake = s.wake /\ r.tick = s.tick
  /\ r.pending = s.pending /\ r.dying = s.dying /\ r.waiting = s.waiting

(* What is sound stays so while the lists do not change.                      *)
LEMMA SameListsIs ==
  ASSUME NEW s, NEW r \in KernelData, Sound(s), Rows(s), Ahead(s), SameLists(s, r)
  PROVE  /\ Sound(r) /\ Rows(r) /\ Ahead(r) /\ Forward(s, r)
         /\ \A u \in Task : (Ready(u, r) <=> Ready(u, s)) /\ (Asleep(u, r) <=> Asleep(u, s))
<1>1. Sound(r)
  BY DEF Sound, Lists, Places, Events, Tops, Asleep, Ready, SameLists
<1>2. Rows(r) /\ Ahead(r)
  BY DEF Rows, Ahead, SameLists
<1>3. Forward(s, r)
  BY ForwardNot DEF SameLists
<1>4. \A u \in Task : (Ready(u, r) <=> Ready(u, s)) /\ (Asleep(u, r) <=> Asleep(u, s))
  BY DEF Ready, Asleep, SameLists
<1> QED BY <1>1, <1>2, <1>3, <1>4

SameSems(s, r) ==
  /\ r.full = s.full /\ r.holder = s.holder /\ r.lock = s.lock
  /\ r.cur = s.cur /\ r.suspended = s.suspended /\ r.missed = s.missed

(* Setting the time left changes no list and no semaphore.                    *)
LEMMA LeftIs ==
  ASSUME NEW s \in KernelData, NEW t \in Task, NEW n \in 0..Forever
  PROVE  LET r == [s EXCEPT !.left[t] = n]
         IN r \in KernelData /\ SameLists(s, r) /\ SameSems(s, r) /\ r.left[t] = n
<1> DEFINE f == [s.left EXCEPT ![t] = n]
<1>1. s.left \in [Task -> 0..Forever]
  BY DEF KernelData
<1>2. f \in [Task -> 0..Forever] /\ f[t] = n
  <2> HIDE DEF Forever
  <2> QED BY <1>1
<1>3. [s EXCEPT !.left[t] = n] = [s EXCEPT !.left = f]
  BY DEF KernelData
<1> HIDE DEF f
<1> QED BY <1>2, <1>3 DEF KernelData, SameLists, SameSems

(* vTaskSetTimeOutState changes no list and no semaphore.                     *)
LEMMA SetTimeOutStateIs ==
  ASSUME NEW s \in KernelData, NEW t \in Task
  PROVE  LET r == SetTimeOutState(t, s)
         IN r \in KernelData /\ SameLists(s, r) /\ SameSems(s, r) /\ r.left = s.left
<1> DEFINE f == [s.entered EXCEPT ![t] = s.tick]
           g == [s.wrapped EXCEPT ![t] = FALSE]
           T == 0..TickModulus - 1
<1>1. s.entered \in [Task -> T] /\ s.tick \in T /\ s.wrapped \in [Task -> BOOLEAN]
  BY DEF KernelData
<1> HIDE DEF T
<1>2. f \in [Task -> T] /\ g \in [Task -> BOOLEAN]
  BY <1>1
<1>3. SetTimeOutState(t, s) = [s EXCEPT !.entered = f, !.wrapped = g]
  BY DEF SetTimeOutState, KernelData
<1> DEFINE r == SetTimeOutState(t, s)
<1> HIDE DEF f, g, r
<1>4. r = [s EXCEPT !.entered = f, !.wrapped = g]
  BY <1>3 DEF r
<1>5. r \in KernelData
  BY <1>2, <1>4 DEF KernelData, T
<1>6. SameLists(s, r) /\ SameSems(s, r) /\ r.left = s.left
  BY <1>4 DEF KernelData, SameLists, SameSems
<1> QED BY <1>5, <1>6 DEF r

(* The end of a wait changes no list and no semaphore.                        *)
LEMMA ForgottenIs ==
  ASSUME NEW s \in KernelData, NEW t \in Task
  PROVE  LET r == Forgotten(t, s)
         IN r \in KernelData /\ SameLists(s, r) /\ SameSems(s, r)
<1> DEFINE e == [s.left EXCEPT ![t] = 0]
           f == [s.entered EXCEPT ![t] = 0]
           g == [s.wrapped EXCEPT ![t] = FALSE]
           T == 0..TickModulus - 1
           L == 0..Forever
<1>1. /\ s.left \in [Task -> L] /\ s.entered \in [Task -> T] /\ s.wrapped \in [Task -> BOOLEAN]
  BY DEF KernelData
<1>2. 0 \in T /\ 0 \in L
  BY KernelAssumption DEF Forever
<1> HIDE DEF T, L
<1>3. e \in [Task -> L] /\ f \in [Task -> T] /\ g \in [Task -> BOOLEAN]
  BY <1>1, <1>2
<1>4. Forgotten(t, s) = [s EXCEPT !.left = e, !.entered = f, !.wrapped = g]
  BY DEF Forgotten, KernelData
<1> DEFINE r == Forgotten(t, s)
<1> HIDE DEF e, f, g, r
<1>5. r = [s EXCEPT !.left = e, !.entered = f, !.wrapped = g]
  BY <1>4 DEF r
<1>6. r \in KernelData
  BY <1>3, <1>5 DEF KernelData, T, L
<1>7. SameLists(s, r) /\ SameSems(s, r)
  BY <1>5 DEF KernelData, SameLists, SameSems
<1> QED BY <1>6, <1>7 DEF r

(* What is known of the running task *)
LEMMA RunningIs ==
  ASSUME ListInv, NEW t, t = k.cur
  PROVE  /\ t \in DOMAIN program /\ t \in Task /\ k \in KernelData
         /\ Sound(k) /\ Rows(k) /\ Ahead(k)
         /\ pc \in [Task -> PcStates] /\ idx \in [Task -> Nat \ {0}] /\ after \in [Task -> AfterStates]
         /\ last \in [Task -> 0..TickModulus - 1] /\ child \in Child \cup {None}
         /\ k.suspended <=> pc[t] \in SuspendedPc
         /\ Ready(t, k) \/ Asleep(t, k)
         /\ Asleep(t, k) => pc[t] = "yield" \/ (pc[t] \in {"unlock", "resume"} /\ after[t] = "yield")
         /\ ~(Ready(t, k) /\ Asleep(t, k))
         /\ idx[t] \in 1..Len(program[t]) /\ NextIdx(t) \in 1..Len(program[t])
         /\ Call(t) \in KernelCall /\ Call(t).do \in CallsAt(pc[t])
         /\ \A i \in 1..Len(program[t]) : program[t][i].do \in CallsAt("call")
         /\ \A q \in Sem : /\ k.lock[q] # -1 <=> pc[t] \in LockedPc /\ Call(t).sem = q
                           /\ k.lock[q] = 1 => k.full[q]
<1>1. TypeOK /\ RunInv /\ ProgInv /\ LockInv /\ Sound(k)
  BY DEF ListInv
<1>2. /\ t \in DOMAIN program /\ DOMAIN program \subseteq Task
      /\ \A i \in 1..Len(program[t]) : program[t][i] \in KernelCall
      /\ idx[t] \in 1..Len(program[t]) /\ NextIdx(t) \in 1..Len(program[t])
      /\ Call(t) \in KernelCall
  BY <1>1, ProgramIs DEF RunInv
<1>3. \A i \in 1..Len(program[t]) : program[t][i].do \in CallsAt("call")
  BY <1>2, CallIs
<1>4. ~(Ready(t, k) /\ Asleep(t, k))
  BY <1>1, <1>2 DEF Sound, Places, Ready
<1> QED BY <1>1, <1>2, <1>3, <1>4 DEF ListInv, TypeOK, RunInv, ProgInv, LockInv, AfterStates

(* The assignments of a handler to pc, idx and after are a move of the        *)
(* running task.                                                              *)
LEMMA MovesIs ==
  ASSUME ListInv, NEW t, t = k.cur,
         NEW l \in PcStates, NEW i \in 1..Len(program[t]), NEW a \in AfterStates,
         pc' = [pc EXCEPT ![t] = l],
         idx' = [idx EXCEPT ![t] = i] \/ (idx' = idx /\ i = idx[t]),
         after' = [after EXCEPT ![t] = a] \/ (after' = after /\ a = after[t])
  PROVE  Moves(l, i, a, pc', idx', after')
<1>1. /\ t \in Task /\ pc \in [Task -> PcStates] /\ idx \in [Task -> Nat \ {0}] /\ after \in [Task -> AfterStates]
  BY RunningIs
<1>2. /\ pc' \in [Task -> PcStates] /\ pc'[t] = l /\ \A u \in Task \ {t} : pc'[u] = pc[u]
  BY <1>1
<1>3. /\ idx' \in [Task -> Nat \ {0}] /\ idx'[t] = i /\ \A u \in Task \ {t} : idx'[u] = idx[u]
  <2>1. i \in Nat \ {0}
    OBVIOUS
  <2> QED BY <1>1, <2>1
<1>4. /\ after' \in [Task -> AfterStates] /\ after'[t] = a /\ \A u \in Task \ {t} : after'[u] = after[u]
  BY <1>1
<1> QED BY <1>2, <1>3, <1>4 DEF Moves

Inv == ListInv /\ WaitInv /\ NoLostWakeup

Takes(u, q) == Call(u) = [do |-> "take", sem |-> q]

NobodyLost ==
  \A q \in Sem : k.full[q] /\ k.lock[q] = -1 /\ k.waiting[q] # <<>> =>
    \E u \in Started : Takes(u, q) /\ Awake(u, k)

(* Where the lists are sound, a wake-up is lost just if nobody awake is on    *)
(* its way to the semaphore.                                                  *)
LEMMA LostIs == ListInv => (NoLostWakeup <=> NobodyLost)
<1> SUFFICES ASSUME ListInv PROVE NoLostWakeup <=> NobodyLost
  OBVIOUS
<1>1. \A u \in Started, q \in Sem : OnItsWay(u, q) <=> Takes(u, q) /\ Awake(u, k)
  <2> SUFFICES ASSUME NEW u \in Started, NEW q \in Sem
               PROVE  OnItsWay(u, q) <=> Takes(u, q) /\ Awake(u, k)
    OBVIOUS
  <2>1. Call(u) \in KernelCall
    BY ProgramIs DEF ListInv, Started
  <2>2. Call(u).do = "take" /\ Call(u).sem = q <=> Takes(u, q)
    BY <2>1, CallIs DEF Takes
  <2> QED BY <2>2 DEF OnItsWay, Sleeping, Awake, Asleep
<1> QED BY <1>1 DEF NoLostWakeup, NobodyLost, Started

(* The same in the next state.                                                *)
LEMMA LostIsNext == ListInv' => (NoLostWakeup' <=> NobodyLost')
BY LostIs, PTL

(* And not to lose a wakeup                                                   *)
WaitTo(l, i, a, r) ==
  /\ \A q \in Sem, u \in Task : Contains(r.waiting[q], u) =>
       \/ Contains(k.waiting[q], u)
       \/ u = k.cur /\ u \in Started /\ i = idx[u] /\ Takes(u, q) /\ r.lock[q] # -1
  /\ \A u \in Started : Call(u).do = "take" /\ Awake(u, k) =>
       Awake(u, r) \/ (u = k.cur /\ r.lock[Call(u).sem] # -1)
  /\ \/ i = idx[k.cur]
     \/ Call(k.cur).do # "take"
     \/ Ready(k.cur, k) /\ ~r.full[Call(k.cur).sem]
  /\ l = "place" \/ (l = "unlock" /\ a = "yield") =>
       (r.full[program[k.cur][i].sem] => r.lock[program[k.cur][i].sem] = 1)
  /\ \A q \in Sem : r.full[q] /\ r.lock[q] = -1 /\ r.waiting[q] # <<>> =>
       \/ k.full[q] /\ k.lock[q] = -1
       \/ \E u \in Started : Takes(u, q) /\ (u = k.cur => i = idx[k.cur]) /\ Awake(u, r)

(* A step forward that makes no semaphore available leaves those on their way *)
(* on their way.                                                              *)
LEMMA WaitForward ==
  ASSUME ListInv, NEW l, NEW i, NEW a, Forward(k, k'),
         \/ i = idx[k.cur]
         \/ Call(k.cur).do # "take"
         \/ Ready(k.cur, k) /\ ~k'.full[Call(k.cur).sem],
         l \notin {"place", "unlock"},
         \A q \in Sem : k'.full[q] /\ k'.lock[q] = -1 => k.full[q] /\ k.lock[q] = -1
  PROVE  WaitTo(l, i, a, k')
<1>1. Started \subseteq Task
  BY ProgramsAssumption DEF ListInv, TypeOK, Started
<1> QED BY <1>1 DEF WaitTo, Forward

(* A step of the running task that keeps the invariant of the lists, and what *)
(* is known of those who wait, keeps the whole.                               *)
LEMMA WaitStep ==
  ASSUME Inv, ListInv', program' = program,
         NEW l, NEW i, NEW a, StepTo(l, i, a, pc', idx', after', k'), WaitTo(l, i, a, k')
  PROVE  Inv'
<1>0. /\ ListInv /\ WaitInv /\ NoLostWakeup /\ k.cur \in Task /\ k'.cur \in Task /\ Started \subseteq Task
      /\ k.waiting \in [Sem -> Seq(Task)] /\ k'.waiting \in [Sem -> Seq(Task)]
      /\ Places(k) /\ Events(k)
  BY ProgramsAssumption DEF Inv, ListInv, Sound, Lists, KernelData, TypeOK, Started
<1>1. Started' = Started
  BY DEF Started
<1>2. \A u \in Started : u # k.cur => idx'[u] = idx[u]
  BY <1>0 DEF StepTo, Moves, Started
<1>3. ASSUME NEW q \in Sem, NEW u \in Task, Contains(k'.waiting[q], u)
      PROVE  u \in Started /\ program[u][idx'[u]] = [do |-> "take", sem |-> q]
  <2>1. u \in Started /\ Takes(u, q)
    BY <1>0, <1>3 DEF WaitInv, WaitTo, Takes
  <2>2. Contains(k.waiting[q], u) => ~Ready(u, k)
    BY <1>0 DEF Events, Places, Ready
  <2>3. idx'[u] = idx[u]
    <3>1. CASE u # k.cur
      BY <1>2, <2>1, <3>1
    <3>2. CASE u = k.cur
      BY <1>3, <2>1, <2>2, <3>2 DEF StepTo, Moves, WaitTo, Takes
    <3> QED BY <3>1, <3>2
  <2> QED BY <2>1, <2>3 DEF Takes, Call
<1>4. /\ k'.cur = k.cur => pc'[k'.cur] = l /\ after'[k'.cur] = a /\ idx'[k'.cur] = i
      /\ k'.cur # k.cur => pc'[k'.cur] \notin SuspendedPc
  BY <1>0 DEF StepTo, Moves, RunInv, SuspendedPc, ListInv
<1>5. WaitInv'
  <2>1. pc'[k'.cur] = "place" \/ (pc'[k'.cur] = "unlock" /\ after'[k'.cur] = "yield") =>
          (k'.full[program[k'.cur][idx'[k'.cur]].sem] => k'.lock[program[k'.cur][idx'[k'.cur]].sem] = 1)
    <3>1. CASE k'.cur = k.cur
      BY <1>4, <3>1 DEF WaitTo
    <3>2. CASE k'.cur # k.cur
      BY <1>4, <3>2 DEF SuspendedPc
    <3> QED BY <3>1, <3>2
  <2> QED BY <1>1, <1>3, <2>1 DEF WaitInv, Call
<1>6. NoLostWakeup'
  <2> SUFFICES ASSUME NEW q \in Sem, k'.full[q], k'.lock[q] = -1, k'.waiting[q] # <<>>
               PROVE  \E u \in Started : program[u][idx'[u]] = [do |-> "take", sem |-> q] /\ Awake(u, k')
    BY <1>1, LostIsNext DEF NobodyLost, Takes, Call
  <2>1. k.waiting[q] # <<>>
    <3>1. PICK u \in Task : Contains(k'.waiting[q], u)
      BY <1>0, Emptied
    <3>2. Contains(k.waiting[q], u)
      BY <3>1 DEF WaitTo
    <3> QED BY <1>0, <3>2, Emptied
  <2>2. CASE k.full[q] /\ k.lock[q] = -1
    <3>1. PICK u \in Started : Takes(u, q) /\ Awake(u, k)
      BY <1>0, <2>1, <2>2, LostIs DEF NobodyLost
    <3>2. Awake(u, k') /\ Call(u).do = "take" /\ Call(u).sem = q
      BY <3>1 DEF Takes, WaitTo
    <3>3. idx'[u] = idx[u]
      <4>1. CASE u # k.cur
        BY <1>2, <4>1
      <4>2. CASE u = k.cur
        BY <3>2, <4>2 DEF StepTo, Moves, WaitTo
      <4> QED BY <4>1, <4>2
    <3> QED BY <3>1, <3>2, <3>3 DEF Takes, Call
  <2>3. CASE \E u \in Started : Takes(u, q) /\ (u = k.cur => i = idx[k.cur]) /\ Awake(u, k')
    <3>1. PICK u \in Started : Takes(u, q) /\ (u = k.cur => i = idx[k.cur]) /\ Awake(u, k')
      BY <2>3
    <3>2. idx'[u] = idx[u]
      BY <1>2, <3>1 DEF StepTo, Moves
    <3> QED BY <3>1, <3>2 DEF Takes, Call
  <2> QED BY <2>2, <2>3 DEF WaitTo
<1> QED BY <1>5, <1>6 DEF Inv

-------------------------------------------------------------------------------
(* The steps of the running task, one by one *)

(* A task takes a semaphore, or is about to wait for it.                      *)
LEMMA StepTake ==
  ASSUME Inv, NEW t, t = k.cur, Take(t)
  PROVE  Inv'
<1> DEFINE q == Call(t).sem
<1>0. /\ ListInv /\ WaitInv /\ TypeOK /\ ProgInv /\ HoldInv
  BY DEF Inv, ListInv
<1>1. /\ t \in DOMAIN program /\ t \in Task /\ k \in KernelData
      /\ Sound(k) /\ Rows(k) /\ Ahead(k)
      /\ pc \in [Task -> PcStates] /\ idx \in [Task -> Nat \ {0}] /\ after \in [Task -> AfterStates]
      /\ last \in [Task -> 0..TickModulus - 1] /\ child \in Child \cup {None}
      /\ k.suspended <=> pc[t] \in SuspendedPc
      /\ Ready(t, k) \/ Asleep(t, k)
      /\ Asleep(t, k) => pc[t] = "yield" \/ (pc[t] \in {"unlock", "resume"} /\ after[t] = "yield")
      /\ idx[t] \in 1..Len(program[t]) /\ NextIdx(t) \in 1..Len(program[t])
      /\ Call(t) \in KernelCall
      /\ \A i \in 1..Len(program[t]) : program[t][i].do \in CallsAt("call")
      /\ \A p \in Sem : /\ k.lock[p] # -1 <=> pc[t] \in LockedPc /\ Call(t).sem = p
                        /\ k.lock[p] = 1 => k.full[p]
  BY <1>0, RunningIs
<1>2. /\ pc[t] = "call" /\ Call(t).do = "take" /\ program' = program /\ last' = last /\ child' = child
      /\ after' = after
  BY DEF Take, Calls, At
<1>3. q \in Sem /\ Takes(t, q)
  BY <1>1, <1>2, CallIs DEF Takes
<1>4. Ready(t, k) /\ ~Asleep(t, k) /\ ~k.suspended /\ \A p \in Sem : k.lock[p] = -1
  BY <1>1, <1>2 DEF SuspendedPc, LockedPc
<1>5. CASE k.full[q]
  <2> DEFINE f == [k.full EXCEPT ![q] = FALSE]
             h == [k.holder EXCEPT ![q] = IF q \in Mutex THEN t ELSE @]
  <2>1. k' = [Forgotten(t, k) EXCEPT !.full[q] = FALSE, !.holder[q] = IF q \in Mutex THEN t ELSE @]
    BY <1>5 DEF Take
  <2>2. pc' = [pc EXCEPT ![t] = "call"] /\ idx' = [idx EXCEPT ![t] = NextIdx(t)]
    BY <1>5 DEF Take, Return, Goto
  <2>3. /\ SameLists(k, k') /\ k'.full = f /\ k'.holder = h /\ k'.lock = k.lock
        /\ k'.cur = t /\ k'.suspended = k.suspended /\ k' \in KernelData
    <3> DEFINE z == Forgotten(t, k)
    <3>1. f \in [Sem -> BOOLEAN] /\ h \in [Sem -> Task \cup {None}]
      BY <1>1, <1>3 DEF KernelData
    <3>2. z \in KernelData /\ SameLists(k, z) /\ SameSems(k, z)
      BY <1>1, ForgottenIs
    <3>3. k' = [z EXCEPT !.full[q] = FALSE, !.holder[q] = IF q \in Mutex THEN t ELSE @]
      BY <2>1
    <3> HIDE DEF z, q
    <3>4. k' = [z EXCEPT !.full = f, !.holder = h]
      BY <3>2, <3>3 DEF KernelData, SameSems
    <3> HIDE DEF f, h
    <3> QED BY <3>1, <3>2, <3>4 DEF KernelData, SameLists, SameSems
  <2>5. /\ Sound(k') /\ Rows(k') /\ Ahead(k') /\ Forward(k, k')
        /\ \A u \in Task : (Ready(u, k') <=> Ready(u, k)) /\ (Asleep(u, k') <=> Asleep(u, k))
    BY <1>1, <2>3, SameListsIs
  <2>6. HoldInv'
    <3>1. /\ f[q] = FALSE /\ \A m \in Mutex : m # q => f[m] = k.full[m]
          /\ q \in Mutex => h[q] = t
          /\ \A p \in Sem : p # q => h[p] = k.holder[p]
          /\ q \notin Mutex => h[q] = k.holder[q]
      <4>1. k.full \in [Sem -> BOOLEAN] /\ k.holder \in [Sem -> Task \cup {None}] /\ Mutex \subseteq Sem
        BY <1>1, KernelAssumption DEF KernelData
      <4> HIDE DEF q
      <4> QED BY <1>3, <4>1
    <3> HIDE DEF f, h
    <3>2. Held(program, t, NextIdx(t)) =
           {m \in Mutex : \/ Call(t) = [do |-> "take", sem |-> m]
                          \/ m \in Held(program, t, idx[t]) /\ Call(t) # [do |-> "give", sem |-> m]}
      BY <1>0, <1>1, HeldNext
    <3>3. \A m : /\ Call(t) = [do |-> "take", sem |-> m] <=> m = q
                 /\ Call(t) # [do |-> "give", sem |-> m]
      BY <1>3 DEF Takes
    <3>4. \A m \in Mutex : m \in Held(program, t, NextIdx(t)) <=> m = q \/ m \in Held(program, t, idx[t])
      BY <3>2, <3>3
    <3>5. q \in Mutex => k.holder[q] = None
      BY <1>0, <1>5 DEF HoldInv
    <3>6. idx'[t] = NextIdx(t) /\ \A u \in DOMAIN program : u # t => idx'[u] = idx[u]
      BY <1>0, <1>1, <2>2, ProgramIs
    <3>7. None \notin DOMAIN program /\ Mutex \subseteq Sem
      BY <1>0, <1>1, ProgramIs, KernelAssumption
    <3>8. ASSUME NEW m \in Mutex
          PROVE  /\ k'.full[m] <=> k'.holder[m] = None
                 /\ k'.holder[m] \in DOMAIN program \cup {None}
                 /\ \A u \in DOMAIN program : k'.holder[m] = u <=> m \in Held(program, u, idx'[u])
      <4>1. /\ k.full[m] <=> k.holder[m] = None
            /\ k.holder[m] \in DOMAIN program \cup {None}
            /\ \A u \in DOMAIN program : k.holder[m] = u <=> m \in Held(program, u, idx[u])
        BY <1>0 DEF HoldInv
      <4>2. CASE m = q
        BY <1>1, <2>3, <3>1, <3>4, <3>5, <3>6, <3>7, <4>1, <4>2
      <4>3. CASE m # q
        <5>1. k'.full[m] = k.full[m] /\ k'.holder[m] = k.holder[m]
          BY <2>3, <3>1, <3>7, <4>3
        <5>2. \A u \in DOMAIN program : m \in Held(program, u, idx'[u]) <=> m \in Held(program, u, idx[u])
          BY <3>4, <3>6, <4>3
        <5> QED BY <4>1, <5>1, <5>2
      <4> QED BY <4>2, <4>3
    <3>9. \A p \in Sem \ Mutex : k'.holder[p] = None
      BY <1>0, <2>3, <3>1 DEF HoldInv
    <3> QED BY <1>2, <3>8, <3>9 DEF HoldInv
  <2>7. PlacedInv'
    BY <1>0, <1>2, <2>5, PlacedForward
  <2>8. StepTo("call", NextIdx(t), after[t], pc', idx', after', k')
    <3>1. Moves("call", NextIdx(t), after[t], pc', idx', after')
      BY <1>0, <1>1, <1>2, <2>2, MovesIs DEF PcStates
    <3>2. /\ Ready(k'.cur, k') /\ ~Asleep(k'.cur, k') /\ ~k'.suspended /\ k'.dying = k.dying
          /\ \A p \in Sem : k'.lock[p] = -1
      BY <1>1, <1>4, <2>3, <2>5 DEF SameLists
    <3> QED BY <1>1, <3>1, <3>2 DEF StepTo, SuspendedPc, LockedPc
  <2>9. ListInv'
    BY <1>0, <1>1, <1>2, <2>5, <2>6, <2>7, <2>8, TaskStep
  <2>10. ~k'.full[q]
    <3>1. k.full \in [Sem -> BOOLEAN]
      BY <1>1 DEF KernelData
    <3> HIDE DEF q
    <3> QED BY <1>3, <2>3, <3>1
  <2>11. \A p \in Sem : k'.full[p] /\ k'.lock[p] = -1 => k.full[p] /\ k.lock[p] = -1
    BY <1>1, <1>3, <1>4, <2>3, <2>10 DEF KernelData
  <2>12. WaitTo("call", NextIdx(t), after[t], k')
    BY <1>0, <1>4, <2>5, <2>10, <2>11, WaitForward
  <2> QED BY <1>2, <2>8, <2>9, <2>12, WaitStep
<1>6. CASE ~k.full[q]
  <2>1. k' = IF k.left[t] > 0 THEN k ELSE SetTimeOutState(t, [k EXCEPT !.left[t] = Forever])
    BY <1>6 DEF Take
  <2>2. pc' = [pc EXCEPT ![t] = "suspend"] /\ idx' = idx
    BY <1>6 DEF Take, Goto
  <2>3. k' \in KernelData /\ SameLists(k, k') /\ k'.full = k.full /\ k'.holder = k.holder /\ k'.lock = k.lock
        /\ k'.cur = t /\ k'.suspended = k.suspended
    <3>1. CASE k.left[t] > 0
      BY <1>1, <2>1, <3>1 DEF SameLists
    <3>2. CASE ~(k.left[t] > 0)
      <4> DEFINE z == [k EXCEPT !.left[t] = Forever]
      <4>1. Forever \in 0..Forever
        BY KernelAssumption DEF Forever
      <4>2. z \in KernelData /\ SameLists(k, z) /\ SameSems(k, z)
        BY <1>1, <4>1, LeftIs
      <4>3. k' = SetTimeOutState(t, z)
        BY <2>1, <3>2
      <4> HIDE DEF z
      <4>4. k' \in KernelData /\ SameLists(z, k') /\ SameSems(z, k')
        BY <1>1, <4>2, <4>3, SetTimeOutStateIs
      <4> QED BY <4>2, <4>4 DEF SameLists, SameSems
    <3> QED BY <3>1, <3>2
  <2>4. /\ Sound(k') /\ Rows(k') /\ Ahead(k') /\ Forward(k, k')
        /\ \A u \in Task : (Ready(u, k') <=> Ready(u, k)) /\ (Asleep(u, k') <=> Asleep(u, k))
    BY <1>1, <2>3, SameListsIs
  <2>5. HoldInv' /\ PlacedInv'
    BY <1>0, <1>2, <2>2, <2>3, <2>4, HoldSame, PlacedForward
  <2>6. StepTo("suspend", idx[t], after[t], pc', idx', after', k')
    <3>1. Moves("suspend", idx[t], after[t], pc', idx', after')
      BY <1>0, <1>1, <1>2, <2>2, MovesIs DEF PcStates
    <3>2. /\ Ready(k'.cur, k') /\ ~Asleep(k'.cur, k') /\ ~k'.suspended /\ k'.dying = k.dying
          /\ \A p \in Sem : k'.lock[p] = -1
      BY <1>1, <1>4, <2>3, <2>4 DEF SameLists
    <3>3. program[t][idx[t]].do \in CallsAt("suspend")
      BY <1>2 DEF CallsAt, Call
    <3> QED BY <1>1, <3>1, <3>2, <3>3 DEF StepTo, SuspendedPc, LockedPc
  <2>7. ListInv'
    BY <1>0, <1>1, <1>2, <2>4, <2>5, <2>6, TaskStep
  <2>8. WaitTo("suspend", idx[t], after[t], k')
    BY <1>0, <2>3, <2>4, WaitForward
  <2> QED BY <1>2, <2>6, <2>7, <2>8, WaitStep
<1> QED BY <1>5, <1>6

(* A task suspends the scheduler.                                             *)
LEMMA StepSuspend ==
  ASSUME Inv, NEW t, t = k.cur, Suspend(t)
  PROVE  Inv'
<1> DEFINE l == IF pc[t] = "suspend" THEN "lock" ELSE "insert"
<1>0. /\ ListInv /\ WaitInv
  BY DEF Inv
<1>1. /\ t \in DOMAIN program /\ t \in Task /\ k \in KernelData
      /\ Sound(k) /\ Rows(k) /\ Ahead(k)
      /\ pc \in [Task -> PcStates] /\ after \in [Task -> AfterStates]
      /\ last \in [Task -> 0..TickModulus - 1] /\ child \in Child \cup {None}
      /\ k.suspended <=> pc[t] \in SuspendedPc
      /\ Ready(t, k) \/ Asleep(t, k)
      /\ Asleep(t, k) => pc[t] = "yield" \/ (pc[t] \in {"unlock", "resume"} /\ after[t] = "yield")
      /\ idx[t] \in 1..Len(program[t])
      /\ Call(t) \in KernelCall /\ Call(t).do \in CallsAt(pc[t])
      /\ \A p \in Sem : /\ k.lock[p] # -1 <=> pc[t] \in LockedPc /\ Call(t).sem = p
                        /\ k.lock[p] = 1 => k.full[p]
  BY <1>0, RunningIs
<1>2. /\ pc[t] \in {"suspend", "call"} /\ program' = program /\ last' = last /\ child' = child
      /\ after' = after /\ idx' = idx /\ pc' = [pc EXCEPT ![t] = l]
      /\ pc[t] = "suspend" \/ Call(t).do \in {"delay", "until", "create"} \/ (Call(t).do = "reap" /\ k.dying # <<>>)
      /\ k' = [k EXCEPT !.suspended = TRUE]
  BY DEF Suspend, Calls, At, Goto
<1>3. Ready(t, k) /\ ~Asleep(t, k) /\ ~k.suspended /\ \A p \in Sem : k.lock[p] = -1
  BY <1>1, <1>2 DEF SuspendedPc, LockedPc
<1>4. /\ k' \in KernelData /\ SameLists(k, k') /\ k'.full = k.full /\ k'.holder = k.holder /\ k'.lock = k.lock
      /\ k'.cur = t /\ k'.suspended
  BY <1>1, <1>2 DEF KernelData, SameLists
<1>5. /\ Sound(k') /\ Rows(k') /\ Ahead(k') /\ Forward(k, k')
      /\ \A u \in Task : (Ready(u, k') <=> Ready(u, k)) /\ (Asleep(u, k') <=> Asleep(u, k))
  BY <1>1, <1>4, SameListsIs
<1>6. HoldInv' /\ PlacedInv'
  BY <1>0, <1>2, <1>4, <1>5, HoldSame, PlacedForward
<1>7. StepTo(l, idx[t], after[t], pc', idx', after', k')
  <2>1. Moves(l, idx[t], after[t], pc', idx', after')
    BY <1>0, <1>1, <1>2, MovesIs DEF PcStates
  <2>2. /\ Ready(k'.cur, k') /\ ~Asleep(k'.cur, k') /\ k'.dying = k.dying
        /\ \A p \in Sem : k'.lock[p] = -1
    BY <1>1, <1>3, <1>4, <1>5 DEF SameLists
  <2>3. program[t][idx[t]].do \in CallsAt(l)
    BY <1>1, <1>2 DEF CallsAt, Call
  <2>4. k.cur = Idle /\ l = "insert" => k'.dying # <<>>
    <3>1. SUFFICES ASSUME k.cur = Idle, l = "insert" PROVE Call(t).do = "reap" /\ pc[t] = "call"
      BY <1>2, <2>2
    <3>2. program \in Programs
      BY <1>0 DEF ListInv, TypeOK
    <3> QED BY <1>1, <1>2, <3>1, <3>2, DisciplineAssumption DEF Call
  <2> QED BY <1>1, <1>2, <1>4, <2>1, <2>2, <2>3, <2>4 DEF StepTo, SuspendedPc, LockedPc
<1>8. ListInv'
  BY <1>0, <1>1, <1>2, <1>5, <1>6, <1>7, TaskStep
<1>9. WaitTo(l, idx[t], after[t], k')
  BY <1>0, <1>4, <1>5, WaitForward
<1> QED BY <1>2, <1>7, <1>8, <1>9, WaitStep

(* prvLockQueue *)
LEMMA StepLock ==
  ASSUME Inv, NEW t, t = k.cur, Lock(t)
  PROVE  Inv'
<1> DEFINE q == Call(t).sem
<1>0. /\ ListInv /\ WaitInv
  BY DEF Inv
<1>1. /\ t \in DOMAIN program /\ t \in Task /\ k \in KernelData
      /\ Sound(k) /\ Rows(k) /\ Ahead(k)
      /\ pc \in [Task -> PcStates] /\ after \in [Task -> AfterStates]
      /\ last \in [Task -> 0..TickModulus - 1] /\ child \in Child \cup {None}
      /\ k.suspended <=> pc[t] \in SuspendedPc
      /\ Ready(t, k) \/ Asleep(t, k)
      /\ Asleep(t, k) => pc[t] = "yield" \/ (pc[t] \in {"unlock", "resume"} /\ after[t] = "yield")
      /\ idx[t] \in 1..Len(program[t])
      /\ Call(t) \in KernelCall /\ Call(t).do \in CallsAt(pc[t])
      /\ \A p \in Sem : /\ k.lock[p] # -1 <=> pc[t] \in LockedPc /\ Call(t).sem = p
                        /\ k.lock[p] = 1 => k.full[p]
  BY <1>0, RunningIs
<1>2. /\ pc[t] = "lock" /\ program' = program /\ last' = last /\ child' = child
      /\ after' = after /\ idx' = idx /\ pc' = [pc EXCEPT ![t] = "check"]
      /\ k' = [k EXCEPT !.lock[q] = IF @ = -1 THEN 0 ELSE @]
  BY DEF Lock, At, Goto
<1>3. Ready(t, k) /\ ~Asleep(t, k) /\ k.suspended /\ \A p \in Sem : k.lock[p] = -1
  BY <1>1, <1>2 DEF SuspendedPc, LockedPc
<1>4. Call(t).do = "take" /\ q \in Sem
  BY <1>1, <1>2, CallIs DEF CallsAt
<1>5. /\ k' \in KernelData /\ SameLists(k, k') /\ k'.full = k.full /\ k'.holder = k.holder
      /\ k'.cur = t /\ k'.suspended = k.suspended
      /\ \A p \in Sem : k'.lock[p] = IF p = q THEN 0 ELSE -1
  <2> DEFINE f == [k.lock EXCEPT ![q] = 0]
  <2>1. k.lock \in [Sem -> -1..1]
    BY <1>1 DEF KernelData
  <2> HIDE DEF q
  <2>2. f \in [Sem -> -1..1] /\ \A p \in Sem : f[p] = IF p = q THEN 0 ELSE -1
    BY <1>3, <1>4, <2>1
  <2>3. k' = [k EXCEPT !.lock = f]
    BY <1>1, <1>2, <1>3, <1>4 DEF KernelData
  <2> HIDE DEF f
  <2> QED BY <1>1, <2>2, <2>3 DEF KernelData, SameLists
<1>6. /\ Sound(k') /\ Rows(k') /\ Ahead(k') /\ Forward(k, k')
      /\ \A u \in Task : (Ready(u, k') <=> Ready(u, k)) /\ (Asleep(u, k') <=> Asleep(u, k))
  BY <1>1, <1>5, SameListsIs
<1>7. HoldInv' /\ PlacedInv'
  BY <1>0, <1>2, <1>5, <1>6, HoldSame, PlacedForward
<1>8. StepTo("check", idx[t], after[t], pc', idx', after', k')
  <2>1. Moves("check", idx[t], after[t], pc', idx', after')
    BY <1>0, <1>1, <1>2, MovesIs DEF PcStates
  <2>2. /\ Ready(k'.cur, k') /\ ~Asleep(k'.cur, k') /\ k'.dying = k.dying
        /\ \A p \in Sem : k'.lock[p] # 1 /\ (k'.lock[p] # -1 <=> program[t][idx[t]].sem = p)
    BY <1>1, <1>3, <1>5, <1>6 DEF SameLists, Call
  <2>3. program[t][idx[t]].do \in CallsAt("check")
    BY <1>4 DEF CallsAt, Call
  <2> QED BY <1>1, <1>3, <1>5, <2>1, <2>2, <2>3 DEF StepTo, SuspendedPc, LockedPc
<1>9. ListInv'
  BY <1>0, <1>1, <1>2, <1>6, <1>7, <1>8, TaskStep
<1>10. WaitTo("check", idx[t], after[t], k')
  BY <1>0, <1>3, <1>5, <1>6, WaitForward
<1> QED BY <1>2, <1>8, <1>9, <1>10, WaitStep

(* xTaskCheckForTimeOut *)
LEMMA StepCheck ==
  ASSUME Inv, NEW t, t = k.cur, Check(t)
  PROVE  Inv'
<1> DEFINE q == Call(t).sem
<1>0. /\ ListInv /\ WaitInv /\ TypeOK /\ ProgInv /\ PlaceInv /\ ReapInv /\ HoldInv /\ program \in Programs
  BY DEF Inv, ListInv, TypeOK
<1>1. /\ t \in DOMAIN program /\ t \in Task /\ k \in KernelData
      /\ Sound(k) /\ Rows(k) /\ Ahead(k)
      /\ pc \in [Task -> PcStates] /\ after \in [Task -> AfterStates]
      /\ last \in [Task -> 0..TickModulus - 1] /\ child \in Child \cup {None}
      /\ k.suspended <=> pc[t] \in SuspendedPc
      /\ Ready(t, k) \/ Asleep(t, k)
      /\ ~(Ready(t, k) /\ Asleep(t, k))
      /\ Asleep(t, k) => pc[t] = "yield" \/ (pc[t] \in {"unlock", "resume"} /\ after[t] = "yield")
      /\ idx[t] \in 1..Len(program[t]) /\ NextIdx(t) \in 1..Len(program[t])
      /\ Call(t) \in KernelCall /\ Call(t).do \in CallsAt(pc[t])
      /\ \A i \in 1..Len(program[t]) : program[t][i].do \in CallsAt("call")
      /\ \A p \in Sem : /\ k.lock[p] # -1 <=> pc[t] \in LockedPc /\ Call(t).sem = p
                        /\ k.lock[p] = 1 => k.full[p]
  BY <1>0, RunningIs
<1>2. /\ pc[t] = "check" /\ program' = program /\ last' = last /\ child' = child /\ idx' = idx
  BY DEF Check, At
<1>3. Ready(t, k) /\ ~Asleep(t, k) /\ k.suspended
  BY <1>1, <1>2 DEF SuspendedPc
<1>4. Call(t).do = "take" /\ q \in Sem /\ program[t][idx[t]] = Call(t)
  BY <1>1, <1>2, CallIs DEF CallsAt, Call
<1> DEFINE l == IF TimedOut(t, k) \/ k.full[q] THEN "unlock" ELSE "place"
           a == IF TimedOut(t, k) THEN "fail" ELSE IF k.full[q] THEN "call" ELSE "yield"
<1>5. pc' = [pc EXCEPT ![t] = l] /\ after' = [after EXCEPT ![t] = a]
  BY DEF Check, Goto
<1>6. /\ k' \in KernelData /\ SameLists(k, k') /\ SameSems(k, k')
      /\ ~TimedOut(t, k) => k'.left[t] > 0
  <2>1. CASE TimedOut(t, k)
    <3>1. k' = k
      BY <2>1 DEF Check
    <3> QED BY <1>1, <2>1, <3>1 DEF SameLists, SameSems
  <2>2. CASE ~TimedOut(t, k)
    <3> DEFINE n == k.left[t] - Elapsed(t, k)
               z == [k EXCEPT !.left[t] = n]
    <3>1. n \in 0..Forever /\ n > 0
      <4>1. /\ k.tick \in 0..TickModulus - 1 /\ k.entered[t] \in 0..TickModulus - 1 /\ k.left[t] \in 0..Forever
            /\ TickModulus \in Nat /\ TickModulus > 2
        BY <1>1, KernelAssumption DEF KernelData
      <4>2. PICK d \in Int : d = k.tick - k.entered[t] /\ -TickModulus <= d /\ d < 2 * TickModulus
                              /\ -TickModulus < d /\ d < TickModulus
        BY <4>1
      <4>3. Elapsed(t, k) = IF d < 0 THEN d + TickModulus ELSE IF d < TickModulus THEN d ELSE d - TickModulus
        BY <4>1, <4>2, Mod DEF Elapsed
      <4>4. Elapsed(t, k) \in Nat
        BY <4>1, <4>2, <4>3
      <4>5. ~(Elapsed(t, k) >= k.left[t])
        BY <2>2 DEF TimedOut
      <4> HIDE DEF Forever
      <4>6. Forever \in Int
        BY <4>1 DEF Forever
      <4> QED BY <4>1, <4>4, <4>5, <4>6
    <3> HIDE DEF n
    <3>2. z \in KernelData /\ SameLists(k, z) /\ SameSems(k, z) /\ z.left[t] = n
      BY <1>1, <3>1, LeftIs
    <3>3. k' = SetTimeOutState(t, z)
      BY <2>2 DEF Check, n
    <3> HIDE DEF z
    <3>4. k' \in KernelData /\ SameLists(z, k') /\ SameSems(z, k') /\ k'.left = z.left
      BY <1>1, <3>2, <3>3, SetTimeOutStateIs
    <3> QED BY <3>1, <3>2, <3>4 DEF SameLists, SameSems
  <2> QED BY <2>1, <2>2
<1>7. /\ Sound(k') /\ Rows(k') /\ Ahead(k') /\ Forward(k, k')
      /\ \A u \in Task : (Ready(u, k') <=> Ready(u, k)) /\ (Asleep(u, k') <=> Asleep(u, k))
  BY <1>1, <1>6, SameListsIs
<1>8. HoldInv' /\ PlacedInv'
  BY <1>0, <1>2, <1>6, <1>7, HoldSame, PlacedForward DEF SameSems
<1>9. StepTo(l, idx[t], a, pc', idx', after', k')
  <2>1. Moves(l, idx[t], a, pc', idx', after')
    <3>1. l \in PcStates /\ a \in AfterStates
      BY DEF PcStates, AfterStates
    <3> HIDE DEF l, a
    <3> QED BY <1>0, <1>1, <1>2, <1>5, <3>1, MovesIs
  <2>2. /\ Ready(k'.cur, k') /\ ~Asleep(k'.cur, k') /\ k'.dying = k.dying
        /\ k'.cur = t /\ k'.suspended /\ k'.lock = k.lock /\ k'.full = k.full
    <3>1. k'.cur = t /\ k'.suspended /\ k'.lock = k.lock /\ k'.full = k.full /\ k'.dying = k.dying
      BY <1>3, <1>6 DEF SameLists, SameSems
    <3> QED BY <1>1, <1>3, <1>7, <3>1
  <2>3. program[t][idx[t]].do \in CallsAt(l)
    BY <1>4 DEF CallsAt
  <2>4. l = "place" => k'.left[t] > 0 /\ a = "yield"
    BY <1>6
  <2>5. l \in {"place", "unlock"} /\ a \notin {"create", "reap"}
    OBVIOUS
  <2>6. \A p \in Sem : k.lock[p] # -1 <=> program[t][idx[t]].sem = p
    BY <1>1, <1>2, <1>4 DEF LockedPc
  <2> QED BY <1>1, <2>1, <2>2, <2>3, <2>4, <2>5, <2>6 DEF StepTo, SuspendedPc, LockedPc
<1>10. ListInv'
  BY <1>0, <1>1, <1>2, <1>7, <1>8, <1>9, TaskStep
<1>11. WaitTo(l, idx[t], a, k')
  <2>1. k'.full = k.full /\ k'.lock = k.lock /\ Started \subseteq Task
    BY <1>0, <1>6, ProgramsAssumption DEF SameSems, Started
  <2>2. l = "place" \/ (l = "unlock" /\ a = "yield") => ~k'.full[program[t][idx[t]].sem]
    BY <1>4, <2>1
  <2> HIDE DEF l, a
  <2> QED BY <1>7, <2>1, <2>2 DEF WaitTo, Forward
<1> QED BY <1>2, <1>9, <1>10, <1>11, WaitStep

(* The running task stands behind those who wait for the semaphore and are    *)
(* not less urgent, and sleeps; the holder of a mutex has its priority.       *)
Inherited(s, r, q) ==
  r.prio = IF q \in Mutex /\ s.holder[q] # None /\ s.prio[s.cur] > s.prio[s.holder[q]]
           THEN [s.prio EXCEPT ![s.holder[q]] = s.prio[s.cur]] ELSE s.prio
Queued(s, r, q) ==
  /\ \A p \in Sem \ {q} : r.waiting[p] = s.waiting[p]
  /\ (\A i, j \in 1..Len(s.waiting[q]) : i < j => r.prio[s.waiting[q][i]] >= r.prio[s.waiting[q][j]]) =>
       \A i, j \in 1..Len(r.waiting[q]) : i < j => r.prio[r.waiting[q][i]] >= r.prio[r.waiting[q][j]]
PlaceTo(t, q, s, r) ==
  /\ Sound(r) /\ Rows(r) /\ Ahead(r)
  /\ \A u \in Task : Ready(u, r) <=> Ready(u, s) /\ u # t
  /\ \A u \in Task : Asleep(u, r) <=> Asleep(u, s) \/ u = t
  /\ \A p \in Sem, u \in Task : Contains(r.waiting[p], u) <=> Contains(s.waiting[p], u) \/ (u = t /\ p = q)
  /\ r.dying = s.dying /\ r.pending = s.pending
  /\ Kept(s, r) /\ r.cur = t
  /\ r.wake[t] = (s.tick + s.left[t]) % TickModulus
  /\ \A u \in Task : u # t => r.wake[u] = s.wake[u]
  /\ Inherited(s, r, q) /\ Queued(s, r, q)

LEMMA PlaceIs ==
  ASSUME Inv, NEW t, t = k.cur, Place(t)
  PROVE  /\ Call(t).do = "take" /\ Call(t).sem \in Sem /\ Takes(t, Call(t).sem)
         /\ t # Idle /\ t \in Started
         /\ Ready(t, k) /\ ~Asleep(t, k) /\ k.suspended /\ k.left[t] > 0 /\ after[t] = "yield"
         /\ \A p \in Sem : ~Contains(k.waiting[p], t)
         /\ PlaceTo(t, Call(t).sem, k, k')
<1> DEFINE q == Call(t).sem
           s == IF q \in Mutex THEN vTaskPriorityInherit(k.holder[q], k) ELSE k
           rank == [u \in Task |-> -s.prio[u]]
           w == vListInsert(s.waiting[q], t, rank)
           z == [s EXCEPT !.waiting[q] = vListInsert(@, t, rank)]
           at == (s.tick + s.left[t]) % TickModulus
<1>0. /\ ListInv /\ WaitInv /\ TypeOK /\ ProgInv /\ PlaceInv /\ ReapInv /\ HoldInv /\ program \in Programs
  BY DEF Inv, ListInv, TypeOK
<1>1. /\ t \in DOMAIN program /\ t \in Task /\ k \in KernelData
      /\ Sound(k) /\ Rows(k) /\ Ahead(k)
      /\ pc \in [Task -> PcStates] /\ after \in [Task -> AfterStates]
      /\ last \in [Task -> 0..TickModulus - 1] /\ child \in Child \cup {None}
      /\ k.suspended <=> pc[t] \in SuspendedPc
      /\ Ready(t, k) \/ Asleep(t, k)
      /\ ~(Ready(t, k) /\ Asleep(t, k))
      /\ Asleep(t, k) => pc[t] = "yield" \/ (pc[t] \in {"unlock", "resume"} /\ after[t] = "yield")
      /\ idx[t] \in 1..Len(program[t]) /\ NextIdx(t) \in 1..Len(program[t])
      /\ Call(t) \in KernelCall /\ Call(t).do \in CallsAt(pc[t])
      /\ \A i \in 1..Len(program[t]) : program[t][i].do \in CallsAt("call")
      /\ \A p \in Sem : /\ k.lock[p] # -1 <=> pc[t] \in LockedPc /\ Call(t).sem = p
                        /\ k.lock[p] = 1 => k.full[p]
  BY <1>0, RunningIs
<1>2. /\ pc[t] = "place" /\ program' = program /\ last' = last /\ child' = child /\ idx' = idx /\ after' = after
      /\ pc' = [pc EXCEPT ![t] = "unlock"] /\ k' = Sleep(t, at, z)
  BY DEF Place, At, Goto
<1>3. Ready(t, k) /\ ~Asleep(t, k) /\ k.suspended /\ k.left[t] > 0 /\ after[t] = "yield"
  BY <1>0, <1>1, <1>2 DEF SuspendedPc, PlaceInv
<1>4. Call(t).do = "take" /\ q \in Sem /\ program[t][idx[t]] = Call(t) /\ Takes(t, q)
  <2>1. Call(t).do = "take"
    BY <1>1, <1>2 DEF CallsAt
  <2>2. q \in Sem /\ Takes(t, q)
    BY <1>1, <2>1, CallIs DEF Takes
  <2> QED BY <2>1, <2>2 DEF Call
<1>5. t # Idle /\ t \in Started /\ Started \subseteq Task
  <2>1. t \notin Child
    BY <1>0, <1>1, <1>4, DisciplineAssumption
  <2> QED BY <1>0, <1>1, <1>4, <2>1, DisciplineAssumption, ProgramsAssumption DEF Started
<1>6. /\ Sound(s) /\ Untouched(k, s) /\ Forward(k, s)
      /\ s.wake = k.wake /\ s.delayed = k.delayed /\ s.overflow = k.overflow
      /\ s.pending = k.pending /\ s.dying = k.dying /\ s.waiting = k.waiting
      /\ \A u \in Task : Ready(u, s) <=> Ready(u, k)
      /\ Inherited(k, s, q)
  <2>1. CASE q \in Mutex
    <3>1. PICK h \in Task \cup {None} : h = k.holder[q]
      BY <1>1, <1>4 DEF KernelData
    <3>2. s = vTaskPriorityInherit(h, k)
      BY <2>1, <3>1
    <3>3. /\ k.prio[t] \in Nat
          /\ h # None => k.prio[h] \in Nat
      <4>1. k.prio \in [Task -> Priorities]
        BY <1>1 DEF KernelData
      <4> QED BY <1>1, <4>1, PrioritiesAre
    <3> DEFINE g == vTaskPriorityInherit(h, k)
    <3>4. /\ Sound(g) /\ Untouched(k, g) /\ Forward(k, g)
          /\ g.wake = k.wake /\ g.delayed = k.delayed /\ g.overflow = k.overflow
          /\ g.pending = k.pending /\ g.dying = k.dying /\ g.waiting = k.waiting
          /\ \A u \in Task : Ready(u, g) <=> Ready(u, k)
          /\ g.prio = IF h = None \/ k.prio[h] >= k.prio[k.cur] THEN k.prio
                      ELSE [k.prio EXCEPT ![h] = k.prio[k.cur]]
      BY <1>1, PriorityInheritIs
    <3> HIDE DEF g
    <3>5. Inherited(k, g, q)
      <4>1. CASE h = None
        BY <3>1, <3>4, <4>1 DEF Inherited
      <4>2. CASE h # None
        <5>1. ~(k.prio[h] >= k.prio[k.cur]) <=> k.prio[k.cur] > k.prio[h]
          BY <3>3, <4>2
        <5> QED BY <2>1, <3>1, <3>4, <4>2, <5>1 DEF Inherited
      <4> QED BY <4>1, <4>2
    <3> QED BY <3>2, <3>4, <3>5 DEF g
  <2>2. CASE q \notin Mutex
    <3>1. Forward(k, k)
      BY ForwardNot
    <3> QED BY <1>1, <2>2, <3>1 DEF Untouched, Kept, Inherited
  <2> QED BY <2>1, <2>2
<1> HIDE DEF s
<1>7. /\ s \in KernelData /\ Lists(s) /\ Places(s) /\ Events(s) /\ Tops(s) /\ Ready(Idle, s)
      /\ s.waiting \in [Sem -> Seq(Task)] /\ s.prio \in [Task -> Priorities]
  BY <1>6 DEF Sound, Lists, KernelData
<1>8. \A u \in Task : Asleep(u, s) <=> Asleep(u, k)
  BY <1>6 DEF Asleep
<1>9. /\ ~Asleep(t, s) /\ ~Contains(s.dying, t) /\ ~Contains(s.pending, t)
      /\ \A p \in Sem : ~Contains(s.waiting[p], t)
  BY <1>1, <1>3, <1>6, <1>7, <1>8 DEF Places, Events, Ready
<1>10. /\ w \in Seq(Task) /\ NoDup(w) /\ \A u : Contains(w, u) <=> Contains(s.waiting[q], u) \/ u = t
       /\ (\A i, j \in 1..Len(s.waiting[q]) : i < j => s.prio[s.waiting[q][i]] >= s.prio[s.waiting[q][j]]) =>
            \A i, j \in 1..Len(w) : i < j => s.prio[w[i]] >= s.prio[w[j]]
  <2>1. rank \in [Task -> Int]
    <3>1. \A u \in Task : s.prio[u] \in Int
      <4>1. s.prio \in [Task -> Priorities]
        BY <1>7
      <4>2. \A p \in Priorities : p \in Int
        BY PrioritiesAre
      <4> QED BY <4>1, <4>2
    <3>2. \A u \in Task : -s.prio[u] \in Int
      BY <3>1
    <3> QED BY <3>2
  <2>2. \A u, v \in Task : rank[u] <= rank[v] <=> s.prio[u] >= s.prio[v]
    <3>1. \A u \in Task : s.prio[u] \in Int
      <4>1. s.prio \in [Task -> Priorities]
        BY <1>7
      <4>2. \A p \in Priorities : p \in Int
        BY PrioritiesAre
      <4> QED BY <4>1, <4>2
    <3> QED BY <3>1
  <2> HIDE DEF rank, q
  <2>3. s.waiting[q] \in Seq(Task) /\ NoDup(s.waiting[q]) /\ ~Contains(s.waiting[q], t)
    BY <1>4, <1>7, <1>9 DEF Lists
  <2>4. /\ w \in Seq(Task) /\ NoDup(w) /\ \A u : Contains(w, u) <=> Contains(s.waiting[q], u) \/ u = t
        /\ Sorted(s.waiting[q], rank) => Sorted(w, rank)
    <3>1. PICK l \in Seq(Task) : l = s.waiting[q]
      BY <2>3
    <3>2. PICK key \in [Task -> Int] : key = rank
      BY <2>1
    <3>3. NoDup(l) /\ ~Contains(l, t) /\ t \in Task
      BY <1>1, <2>3, <3>1
    <3>4. /\ vListInsert(l, t, key) \in Seq(Task) /\ NoDup(vListInsert(l, t, key))
          /\ \A u : Contains(vListInsert(l, t, key), u) <=> Contains(l, u) \/ u = t
          /\ Sorted(l, key) => Sorted(vListInsert(l, t, key), key)
      BY <3>3, InsertedSorted
    <3> QED BY <3>1, <3>2, <3>4
  <2> HIDE DEF w
  <2>5. /\ \A i \in 1..Len(s.waiting[q]) : s.waiting[q][i] \in Task
        /\ \A i \in 1..Len(w) : w[i] \in Task
    BY <2>3, <2>4
  <2>6. ASSUME \A i, j \in 1..Len(s.waiting[q]) : i < j => s.prio[s.waiting[q][i]] >= s.prio[s.waiting[q][j]]
        PROVE  \A i, j \in 1..Len(w) : i < j => s.prio[w[i]] >= s.prio[w[j]]
    <3>1. Sorted(s.waiting[q], rank)
      BY <2>2, <2>5, <2>6 DEF Sorted
    <3>2. Sorted(w, rank)
      BY <2>4, <3>1
    <3> QED BY <2>2, <2>5, <3>2 DEF Sorted
  <2> QED BY <2>4, <2>6
<1>11. /\ z.waiting = [s.waiting EXCEPT ![q] = w]
       /\ z.ready = s.ready /\ z.prio = s.prio /\ z.top = s.top /\ z.wake = s.wake
       /\ z.delayed = s.delayed /\ z.overflow = s.overflow /\ z.pending = s.pending /\ z.dying = s.dying
       /\ Untouched(s, z) /\ z \in KernelData
  <2>1. [s.waiting EXCEPT ![q] = w] \in [Sem -> Seq(Task)]
    <3> HIDE DEF w, q
    <3> QED BY <1>4, <1>7, <1>10
  <2>2. z = [s EXCEPT !.waiting = [s.waiting EXCEPT ![q] = w]]
    BY <1>7 DEF KernelData
  <2> HIDE DEF z, w
  <2> QED BY <1>7, <2>1, <2>2 DEF KernelData, Untouched, Kept
<1> HIDE DEF z, w
<1>12. \A p \in Sem, u \in Task : Contains(z.waiting[p], u) <=> Contains(s.waiting[p], u) \/ (u = t /\ p = q)
  BY <1>4, <1>7, <1>10, <1>11
<1>13. Lists(z) /\ Places(z) /\ Tops(z) /\ Ready(Idle, z)
  <2>1. \A p \in Sem : NoDup(z.waiting[p])
    BY <1>4, <1>7, <1>10, <1>11 DEF Lists
  <2> QED BY <1>7, <1>11, <2>1 DEF Lists, Places, Tops, Ready, Asleep
<1>14. at \in 0..TickModulus - 1 /\ at # z.tick
  <2>1. /\ k.tick \in 0..TickModulus - 1 /\ k.left[t] \in 0..Forever
        /\ TickModulus \in Nat /\ TickModulus > 2
    BY <1>1, KernelAssumption DEF KernelData
  <2>2. PICK d \in Int : d = k.tick + k.left[t] /\ -TickModulus <= d /\ d < 2 * TickModulus
                         /\ k.tick < d /\ d < k.tick + TickModulus
    BY <1>3, <2>1 DEF Forever
  <2>3. d % TickModulus = IF d < 0 THEN d + TickModulus ELSE IF d < TickModulus THEN d ELSE d - TickModulus
    BY <2>1, <2>2, Mod
  <2>4. at = d % TickModulus /\ z.tick = k.tick
    BY <1>6, <1>11, <2>2 DEF Untouched, Kept
  <2> HIDE DEF at
  <2> QED BY <2>1, <2>2, <2>3, <2>4
<1> HIDE DEF at
<1>15. /\ Lists(k') /\ Places(k') /\ Tops(k') /\ Ready(Idle, k') /\ Untouched(z, k')
       /\ k'.prio = z.prio /\ k'.dying = z.dying /\ k'.pending = z.pending /\ k'.waiting = z.waiting
       /\ \A u \in Task : Ready(u, k') <=> Ready(u, z) /\ u # t
       /\ \A u \in Task : Asleep(u, k') <=> Asleep(u, z) \/ u = t
       /\ k'.wake[t] = at /\ \A u \in Task : u # t => k'.wake[u] = z.wake[u]
       /\ Rows(z) => Rows(k')
       /\ Ahead(z) => Ahead(k')
  <2>1. t \in Task \ {Idle} /\ ~Asleep(t, z) /\ ~Contains(z.dying, t)
    BY <1>1, <1>5, <1>9, <1>11 DEF Asleep
  <2>2. k' = Sleep(t, at, z)
    BY <1>2
  <2> QED BY <1>13, <1>14, <2>1, <2>2, SleepIs
<1>16. Rows(k') /\ Ahead(k')
  BY <1>1, <1>6, <1>11, <1>15 DEF Rows, Ahead, Untouched, Kept
<1>17. /\ \A u \in Task : Ready(u, k') <=> Ready(u, k) /\ u # t
       /\ \A u \in Task : Asleep(u, k') <=> Asleep(u, k) \/ u = t
       /\ \A p \in Sem, u \in Task : Contains(k'.waiting[p], u) <=> Contains(k.waiting[p], u) \/ (u = t /\ p = q)
       /\ k'.dying = k.dying /\ k'.pending = k.pending
       /\ k'.cur = t /\ k'.full = k.full /\ k'.holder = k.holder /\ k'.lock = k.lock /\ k'.suspended
  BY <1>3, <1>6, <1>8, <1>11, <1>12, <1>15 DEF Ready, Asleep, Untouched, Kept
<1>18. Events(k')
  <2>1. Events(k)
    BY <1>1 DEF Sound
  <2> QED BY <1>6, <1>9, <1>17, <2>1 DEF Events
<1>19. Sound(k')
  BY <1>15, <1>18 DEF Sound
<1>20. k'.wake[t] = (k.tick + k.left[t]) % TickModulus /\ \A u \in Task : u # t => k'.wake[u] = k.wake[u]
  BY <1>6, <1>11, <1>15 DEF at, Untouched, Kept
<1>21. Inherited(k, k', q)
  BY <1>6, <1>11, <1>15 DEF Inherited
<1>22. Queued(k, k', q)
  <2>1. k'.prio = s.prio /\ k'.waiting = [k.waiting EXCEPT ![q] = w] /\ s.waiting = k.waiting
    BY <1>6, <1>11, <1>15
  <2> HIDE DEF q
  <2> QED BY <1>4, <1>7, <1>10, <2>1 DEF Queued
<1>23. Kept(k, k')
  BY <1>6, <1>11, <1>15 DEF Untouched, Kept
<1>24. PlaceTo(t, q, k, k')
  BY <1>16, <1>17, <1>19, <1>20, <1>21, <1>22, <1>23 DEF PlaceTo
<1> QED BY <1>3, <1>4, <1>5, <1>6, <1>9, <1>24

(* vTaskPriorityInherit, then vTaskPlaceOnEventList                           *)
LEMMA StepPlace ==
  ASSUME Inv, NEW t, t = k.cur, Place(t)
  PROVE  Inv'
<1> DEFINE q == Call(t).sem
<1>0. /\ ListInv /\ WaitInv /\ TypeOK /\ ProgInv /\ PlaceInv /\ ReapInv /\ HoldInv /\ program \in Programs
  BY DEF Inv, ListInv, TypeOK
<1>1. /\ t \in DOMAIN program /\ t \in Task /\ k \in KernelData
      /\ pc \in [Task -> PcStates] /\ after \in [Task -> AfterStates]
      /\ last \in [Task -> 0..TickModulus - 1] /\ child \in Child \cup {None}
      /\ idx[t] \in 1..Len(program[t])
      /\ \A p \in Sem : /\ k.lock[p] # -1 <=> pc[t] \in LockedPc /\ Call(t).sem = p
                        /\ k.lock[p] = 1 => k.full[p]
  BY <1>0, RunningIs
<1>2. /\ pc[t] = "place" /\ program' = program /\ last' = last /\ child' = child /\ idx' = idx /\ after' = after
      /\ pc' = [pc EXCEPT ![t] = "unlock"]
  BY DEF Place, At, Goto
<1>3. /\ Call(t).do = "take" /\ q \in Sem /\ Takes(t, q) /\ program[t][idx[t]] = Call(t)
      /\ t # Idle /\ t \in Started /\ Started \subseteq Task
      /\ Ready(t, k) /\ k.suspended /\ after[t] = "yield"
      /\ PlaceTo(t, q, k, k')
  <2>1. Started \subseteq Task
    BY <1>0, ProgramsAssumption DEF Started
  <2> QED BY <2>1, PlaceIs DEF Call
<1> HIDE DEF q
<1>4. Sound(k') /\ Rows(k') /\ Ahead(k')
  BY <1>3 DEF PlaceTo
<1>5. /\ \A u \in Task : Ready(u, k') <=> Ready(u, k) /\ u # t
      /\ \A u \in Task : Asleep(u, k') <=> Asleep(u, k) \/ u = t
      /\ \A p \in Sem, u \in Task : Contains(k'.waiting[p], u) <=> Contains(k.waiting[p], u) \/ (u = t /\ p = q)
      /\ k'.dying = k.dying /\ k'.pending = k.pending
      /\ k'.cur = t /\ k'.full = k.full /\ k'.holder = k.holder /\ k'.lock = k.lock /\ k'.suspended
  BY <1>3 DEF PlaceTo, Kept
<1>6. PlacedInv'
  <2>1. PlacedInv /\ Started' = Started
    BY <1>0, <1>2 DEF ListInv, Started
  <2>2. child \in Task \cup {None}
    BY <1>1, KernelAssumption
  <2> QED BY <1>1, <1>2, <1>3, <1>5, <2>1, <2>2 DEF PlacedInv
<1>7. HoldInv'
  BY <1>0, <1>2, <1>5, HoldSame
<1>8. StepTo("unlock", idx[t], after[t], pc', idx', after', k')
  <2>1. Moves("unlock", idx[t], after[t], pc', idx', after')
    BY <1>0, <1>1, <1>2, MovesIs DEF PcStates
  <2>2. /\ Asleep(k'.cur, k')
        /\ \A p \in Sem : k.lock[p] # -1 <=> program[t][idx[t]].sem = p
    BY <1>1, <1>2, <1>3, <1>5 DEF LockedPc, q
  <2>3. program[t][idx[t]].do \in CallsAt("unlock")
    BY <1>3 DEF CallsAt
  <2>4. k'.left = k.left
    BY <1>3 DEF PlaceTo, Kept
  <2> QED BY <1>1, <1>3, <1>5, <2>1, <2>2, <2>3, <2>4 DEF StepTo, SuspendedPc, LockedPc
<1>9. ListInv'
  BY <1>0, <1>1, <1>2, <1>4, <1>6, <1>7, <1>8, TaskStep
<1>10. WaitTo("unlock", idx[t], after[t], k')
  <2>1. k'.lock[q] # -1
    BY <1>1, <1>2, <1>3, <1>5 DEF LockedPc, q
  <2>2. k'.full[q] => k'.lock[q] = 1
    BY <1>0, <1>2, <1>5 DEF WaitInv, q
  <2>3. \A u \in Task : u # t /\ Awake(u, k) => Awake(u, k')
    BY <1>5 DEF Awake
  <2> QED BY <1>3, <1>5, <2>1, <2>2, <2>3 DEF WaitTo, q
<1> QED BY <1>2, <1>8, <1>9, <1>10, WaitStep

(* prvUnlockQueue: what was given meanwhile wakes a task                      *)
LEMMA StepUnlock ==
  ASSUME Inv, NEW t, t = k.cur, Unlock(t)
  PROVE  Inv'
<1> DEFINE q == Call(t).sem
<1>0. /\ ListInv /\ WaitInv /\ ProgInv /\ program \in Programs
  BY DEF Inv, ListInv, TypeOK
<1>1. /\ t \in DOMAIN program /\ t \in Task /\ k \in KernelData
      /\ Sound(k) /\ Rows(k) /\ Ahead(k)
      /\ pc \in [Task -> PcStates] /\ after \in [Task -> AfterStates]
      /\ last \in [Task -> 0..TickModulus - 1] /\ child \in Child \cup {None}
      /\ k.suspended <=> pc[t] \in SuspendedPc
      /\ Ready(t, k) \/ Asleep(t, k)
      /\ Asleep(t, k) => pc[t] = "yield" \/ (pc[t] \in {"unlock", "resume"} /\ after[t] = "yield")
      /\ idx[t] \in 1..Len(program[t])
      /\ Call(t) \in KernelCall /\ Call(t).do \in CallsAt(pc[t])
      /\ \A p \in Sem : k.lock[p] # -1 <=> pc[t] \in LockedPc /\ Call(t).sem = p
  BY <1>0, RunningIs
<1>2. /\ pc[t] = "unlock" /\ program' = program /\ last' = last /\ child' = child /\ idx' = idx /\ after' = after
      /\ pc' = [pc EXCEPT ![t] = "resume"] /\ k' = UnlockQueue(q, k)
  BY DEF Unlock, At, Goto
<1>3. /\ Call(t).do = "take" /\ q \in Sem /\ program[t][idx[t]] = Call(t) /\ Takes(t, q)
      /\ after[t] \notin {"create", "reap"} /\ k.suspended
      /\ \A p \in Sem : p # q => k.lock[p] = -1
  <2>1. Call(t).do = "take"
    BY <1>1, <1>2 DEF CallsAt
  <2>2. q \in Sem /\ Takes(t, q)
    BY <1>1, <2>1, CallIs DEF Takes
  <2>3. after[t] \notin {"create", "reap"}
    BY <1>0, <1>1, <1>2 DEF ProgInv
  <2> QED BY <1>1, <1>2, <2>1, <2>2, <2>3 DEF Call, SuspendedPc
<1>4. t # Idle /\ t \in Started /\ Started \subseteq Task
  <2>1. t \notin Child
    BY <1>0, <1>1, <1>3, DisciplineAssumption
  <2> QED BY <1>0, <1>1, <1>3, <2>1, DisciplineAssumption, ProgramsAssumption DEF Started
<1>5. /\ Sound(k') /\ Rows(k') /\ Ahead(k') /\ Forward(k, k') /\ Ungiven(k, k')
      /\ k'.holder = k.holder /\ k'.full = k.full /\ k'.cur = k.cur
      /\ k'.lock = [k.lock EXCEPT ![q] = -1]
      /\ k.lock[q] > 0 /\ k.waiting[q] # <<>> =>
           \E u \in Task : Contains(k.waiting[q], u) /\ Awake(u, k')
  <2>1. Sound(k) /\ Rows(k) /\ Ahead(k) /\ q \in Sem /\ k' = UnlockQueue(q, k)
    BY <1>1, <1>2, <1>3
  <2> HIDE DEF q
  <2> QED BY <2>1, UnlockQueueIs
<1>6. \A p \in Sem : k'.lock[p] = -1
  <2>1. k.lock \in [Sem -> -1..1]
    BY <1>1 DEF KernelData
  <2> HIDE DEF q
  <2> QED BY <1>3, <1>5, <2>1
<1>7. HoldInv' /\ PlacedInv'
  BY <1>0, <1>2, <1>5, HoldSame, PlacedForward
<1>8. StepTo("resume", idx[t], after[t], pc', idx', after', k')
  <2>1. Moves("resume", idx[t], after[t], pc', idx', after')
    BY <1>0, <1>1, <1>2, MovesIs DEF PcStates
  <2>2. /\ Ready(k'.cur, k') \/ Asleep(k'.cur, k')
        /\ Asleep(k'.cur, k') => after[t] = "yield"
        /\ k'.suspended /\ k'.cur = t /\ k'.dying = k.dying
    BY <1>1, <1>2, <1>3, <1>5 DEF Forward, Ungiven
  <2>3. program[t][idx[t]].do \in CallsAt("resume") /\ program[t][idx[t]].do \notin {"create", "reap"}
    BY <1>3 DEF CallsAt
  <2> QED BY <1>1, <1>3, <1>4, <1>6, <2>1, <2>2, <2>3 DEF StepTo, SuspendedPc, LockedPc
<1>9. ListInv'
  BY <1>0, <1>1, <1>2, <1>5, <1>7, <1>8, TaskStep
<1>10. WaitTo("resume", idx[t], after[t], k')
  <2>1. ASSUME k.full[q], k'.waiting[q] # <<>>
        PROVE  \E u \in Started : Takes(u, q) /\ Awake(u, k')
    <3>1. CASE after[t] = "yield"
      <4>1. k.lock[q] > 0
        BY <1>0, <1>2, <2>1, <3>1 DEF WaitInv
      <4>2. k.waiting[q] # <<>>
        <5>1. k.waiting[q] \in Seq(Task) /\ k'.waiting[q] \in Seq(Task)
          BY <1>1, <1>3, <1>5 DEF KernelData, Sound, Lists
        <5>2. PICK u \in Task : Contains(k'.waiting[q], u)
          BY <2>1, <5>1, Emptied
        <5>3. Contains(k.waiting[q], u)
          BY <1>3, <1>5, <5>2 DEF Forward
        <5> QED BY <5>1, <5>3, Emptied
      <4>3. PICK u \in Task : Contains(k.waiting[q], u) /\ Awake(u, k')
        BY <1>5, <4>1, <4>2
      <4>4. u \in Started /\ Takes(u, q)
        BY <1>0, <1>3, <4>3 DEF WaitInv, Takes
      <4> QED BY <4>3, <4>4
    <3>2. CASE after[t] # "yield"
      <4>1. Awake(t, k)
        BY <1>1, <1>2, <3>2 DEF Awake
      <4>2. Awake(t, k')
        BY <1>1, <1>5, <4>1 DEF Forward
      <4> QED BY <1>3, <1>4, <4>2
    <3> QED BY <3>1, <3>2
  <2>2. \A p \in Sem : k'.full[p] /\ k'.lock[p] = -1 /\ k'.waiting[p] # <<>> =>
          \/ k.full[p] /\ k.lock[p] = -1
          \/ \E u \in Started : Takes(u, p) /\ (u = k.cur => idx[t] = idx[k.cur]) /\ Awake(u, k')
    BY <1>3, <1>5, <2>1
  <2> QED BY <1>4, <1>5, <2>2 DEF WaitTo, Forward
<1> QED BY <1>2, <1>8, <1>9, <1>10, WaitStep

(* vTaskDelay and vTaskDelayUntil: no task goes to sleep until the present    *)
(* tick, which would have to turn over before it wakes.                       *)
LEMMA StepInsert ==
  ASSUME Inv, NEW t, t = k.cur, Insert(t)
  PROVE  Inv'
<1> DEFINE a == IF Call(t).do \in {"create", "reap"} THEN Call(t).do ELSE "yield"
           T == 0..TickModulus - 1
<1>0. /\ ListInv /\ WaitInv /\ ProgInv /\ ReapInv /\ PlacedInv /\ program \in Programs
  BY DEF Inv, ListInv, TypeOK
<1>1. /\ t \in DOMAIN program /\ t \in Task /\ k \in KernelData
      /\ Sound(k) /\ Rows(k) /\ Ahead(k)
      /\ pc \in [Task -> PcStates] /\ after \in [Task -> AfterStates]
      /\ last \in [Task -> T] /\ child \in Child \cup {None}
      /\ k.suspended <=> pc[t] \in SuspendedPc
      /\ Ready(t, k) \/ Asleep(t, k)
      /\ Asleep(t, k) => pc[t] = "yield" \/ (pc[t] \in {"unlock", "resume"} /\ after[t] = "yield")
      /\ idx[t] \in 1..Len(program[t])
      /\ Call(t) \in KernelCall /\ Call(t).do \in CallsAt(pc[t])
      /\ \A p \in Sem : k.lock[p] # -1 <=> pc[t] \in LockedPc /\ Call(t).sem = p
  BY <1>0, RunningIs
<1>2. /\ pc[t] = "insert" /\ program' = program /\ child' = child /\ idx' = idx
      /\ after' = [after EXCEPT ![t] = a]
      /\ pc' = [pc EXCEPT ![t] = "resume"]
  BY DEF Insert, At, Goto
<1>3. /\ Call(t).do \in {"delay", "until", "create", "reap"} /\ program[t][idx[t]] = Call(t)
      /\ Ready(t, k) /\ ~Asleep(t, k) /\ k.suspended /\ \A p \in Sem : k.lock[p] = -1
  <2>1. Call(t).do \in {"delay", "until", "create", "reap"}
    BY <1>1, <1>2 DEF CallsAt
  <2> QED BY <1>1, <1>2, <2>1 DEF Call, SuspendedPc, LockedPc
<1>4. /\ last' \in [Task -> T]
      /\ \/ k' = k
         \/ Call(t).do \in {"delay", "until"} /\ \E at \in T : at # k.tick /\ k' = Sleep(t, at, k)
  <2>0. k.tick \in T /\ last[t] \in T /\ TickModulus \in Nat /\ TickModulus > 2
    BY <1>1, KernelAssumption DEF KernelData
  <2>1. ASSUME NEW m \in T, Call(t).do \in {"delay", "until"}
        PROVE  (m + Call(t).ticks) % TickModulus \in T \ {m}
    <3>1. Call(t).ticks \in 1..TickModulus - 1
      BY <1>1, <2>1, CallIs
    <3>2. PICK d \in Int : d = m + Call(t).ticks /\ -TickModulus <= d /\ d < 2 * TickModulus
                           /\ m < d /\ d < m + TickModulus
      BY <2>0, <3>1
    <3>3. d % TickModulus = IF d < 0 THEN d + TickModulus ELSE IF d < TickModulus THEN d ELSE d - TickModulus
      BY <2>0, <3>2, Mod
    <3> QED BY <2>0, <3>2, <3>3
  <2>2. CASE Call(t).do = "delay"
    <3>1. (k.tick + Call(t).ticks) % TickModulus \in T \ {k.tick}
      BY <2>0, <2>1, <2>2
    <3>2. k' = Sleep(t, (k.tick + Call(t).ticks) % TickModulus, k) /\ last' = last
      BY <2>2 DEF Insert
    <3> QED BY <1>1, <2>2, <3>1, <3>2
  <2>3. CASE Call(t).do = "until"
    <3>1. Wakes(t) \in T
      BY <2>0, <2>1, <2>3 DEF Wakes
    <3>2. k' = (IF ShouldDelay(t) THEN Sleep(t, Wakes(t), k) ELSE k) /\ last' = [last EXCEPT ![t] = Wakes(t)]
      BY <2>3 DEF Insert
    <3>3. ShouldDelay(t) => Wakes(t) # k.tick
      BY <2>0, <3>1 DEF ShouldDelay
    <3> HIDE DEF T
    <3>4. last' \in [Task -> T]
      BY <1>1, <3>1, <3>2
    <3> QED BY <2>3, <3>1, <3>2, <3>3, <3>4
  <2>4. CASE Call(t).do \in {"create", "reap"}
    <3>1. k' = k /\ last' = last
      BY <2>4 DEF Insert
    <3> QED BY <1>1, <3>1
  <2> QED BY <1>3, <2>2, <2>3, <2>4
<1>5. /\ Sound(k') /\ Rows(k') /\ Ahead(k')
      /\ \A u \in Task : u # t => (Ready(u, k') <=> Ready(u, k)) /\ (Asleep(u, k') <=> Asleep(u, k))
      /\ Ready(t, k') \/ Asleep(t, k')
      /\ Asleep(t, k') => Call(t).do \in {"delay", "until"}
      /\ k'.dying = k.dying /\ k'.pending = k.pending /\ k'.waiting = k.waiting
      /\ k'.cur = t /\ k'.full = k.full /\ k'.holder = k.holder /\ k'.lock = k.lock /\ k'.suspended
  <2>1. CASE k' = k
    BY <1>1, <1>3, <2>1
  <2>2. CASE Call(t).do \in {"delay", "until"} /\ \E at \in T : at # k.tick /\ k' = Sleep(t, at, k)
    <3>1. PICK at \in T : at # k.tick /\ k' = Sleep(t, at, k)
      BY <2>2
    <3>2. t \in Task \ {Idle}
      BY <1>0, <1>1, <1>3, <2>2, DisciplineAssumption
    <3>3. Lists(k) /\ Places(k) /\ Events(k) /\ Tops(k) /\ Ready(Idle, k)
      BY <1>1 DEF Sound
    <3>4. ~Contains(k.dying, t)
      BY <1>1, <1>3, <3>3 DEF Places, Ready
    <3>5. /\ Lists(k') /\ Places(k') /\ Tops(k') /\ Ready(Idle, k') /\ Untouched(k, k')
          /\ k'.prio = k.prio /\ k'.dying = k.dying /\ k'.pending = k.pending /\ k'.waiting = k.waiting
          /\ \A u \in Task : Ready(u, k') <=> Ready(u, k) /\ u # t
          /\ \A u \in Task : Asleep(u, k') <=> Asleep(u, k) \/ u = t
          /\ Rows(k) => Rows(k')
          /\ Ahead(k) /\ at # k.tick => Ahead(k')
      <4>1. at \in 0..TickModulus - 1 /\ k' = Sleep(t, at, k)
        BY <3>1
      <4> HIDE DEF T
      <4> QED BY <1>3, <3>2, <3>3, <3>4, <4>1, SleepIs
    <3>6. Events(k')
      BY <3>3, <3>5 DEF Events
    <3>7. Sound(k')
      BY <3>5, <3>6 DEF Sound
    <3> QED BY <1>1, <1>3, <2>2, <3>1, <3>5, <3>7 DEF Untouched, Kept
  <2> QED BY <1>4, <2>1, <2>2
<1>6. HoldInv'
  BY <1>0, <1>2, <1>5, HoldSame
<1>7. PlacedInv'
  <2>1. Started' = Started /\ Started \subseteq Task
    BY <1>0, <1>2, ProgramsAssumption DEF Started
  <2>2. child \in Task \cup {None}
    BY <1>1, KernelAssumption
  <2> QED BY <1>0, <1>1, <1>2, <1>5, <2>1, <2>2 DEF PlacedInv
<1>8. StepTo("resume", idx[t], a, pc', idx', after', k')
  <2>1. Moves("resume", idx[t], a, pc', idx', after')
    <3>1. a \in AfterStates /\ "resume" \in PcStates
      BY <1>3 DEF AfterStates, PcStates
    <3> HIDE DEF a
    <3> QED BY <1>0, <1>1, <1>2, <3>1, MovesIs
  <2>2. /\ Ready(k'.cur, k') \/ Asleep(k'.cur, k')
        /\ Asleep(k'.cur, k') => a = "yield"
        /\ k'.suspended /\ k'.cur = t /\ \A p \in Sem : k'.lock[p] = -1
    BY <1>3, <1>5
  <2>3. /\ program[t][idx[t]].do \in CallsAt("resume")
        /\ a \in {"create", "reap"} \/ program[t][idx[t]].do \in {"create", "reap"} => program[t][idx[t]].do = a
    BY <1>3 DEF CallsAt
  <2>4. t = Idle => k'.dying # <<>>
    BY <1>0, <1>2, <1>5 DEF ReapInv
  <2> HIDE DEF a
  <2> QED BY <1>1, <1>5, <2>1, <2>2, <2>3, <2>4 DEF StepTo, SuspendedPc, LockedPc
<1>9. ListInv'
  <2> HIDE DEF a
  <2> QED BY <1>0, <1>1, <1>2, <1>4, <1>5, <1>6, <1>7, <1>8, TaskStep
<1>10. WaitTo("resume", idx[t], a, k')
  <2>1. \A u \in Started : Call(u).do = "take" /\ Awake(u, k) => Awake(u, k')
    <3>1. Started \subseteq Task
      BY <1>0, ProgramsAssumption DEF Started
    <3> QED BY <1>3, <1>5, <3>1 DEF Awake
  <2> QED BY <1>5, <2>1 DEF WaitTo
<1> QED BY <1>2, <1>8, <1>9, <1>10, WaitStep

(* xTaskResumeAll                                                             *)
LEMMA StepResume ==
  ASSUME Inv, NEW t, t = k.cur, Resume(t)
  PROVE  Inv'
<1> DEFINE y == after[t] = "yield" /\ ~YieldRequired(k)
           l == IF y THEN "yield"
                ELSE IF ~Delays(t) /\ after[t] \in {"create", "reap"} THEN after[t] ELSE "call"
           i == IF ~y /\ Delays(t) THEN NextIdx(t) ELSE idx[t]
           a == IF y THEN "yield" ELSE "call"
<1>0. /\ ListInv /\ ProgInv /\ ReapInv /\ TypeOK /\ program \in Programs
  BY DEF Inv, ListInv, TypeOK
<1>1. /\ t \in DOMAIN program /\ t \in Task /\ k \in KernelData
      /\ Sound(k) /\ Rows(k) /\ Ahead(k)
      /\ pc \in [Task -> PcStates] /\ idx \in [Task -> Nat \ {0}] /\ after \in [Task -> AfterStates]
      /\ last \in [Task -> 0..TickModulus - 1] /\ child \in Child \cup {None}
      /\ k.suspended <=> pc[t] \in SuspendedPc
      /\ Ready(t, k) \/ Asleep(t, k)
      /\ Asleep(t, k) => pc[t] = "yield" \/ (pc[t] \in {"unlock", "resume"} /\ after[t] = "yield")
      /\ idx[t] \in 1..Len(program[t]) /\ NextIdx(t) \in 1..Len(program[t])
      /\ Call(t) \in KernelCall /\ Call(t).do \in CallsAt(pc[t])
      /\ \A j \in 1..Len(program[t]) : program[t][j].do \in CallsAt("call")
      /\ \A p \in Sem : k.lock[p] # -1 <=> pc[t] \in LockedPc /\ Call(t).sem = p
  BY <1>0, RunningIs
<1>2. /\ pc[t] = "resume" /\ program' = program /\ child' = child /\ last' = last
      /\ k' = IF after[t] = "fail" THEN Forgotten(t, xTaskResumeAll(k)) ELSE xTaskResumeAll(k)
  BY DEF Resume, At
<1>3. /\ pc' = [pc EXCEPT ![t] = l]
      /\ idx' = [idx EXCEPT ![t] = i] \/ (idx' = idx /\ i = idx[t])
      /\ after' = [after EXCEPT ![t] = a] \/ (after' = after /\ a = after[t])
  <2>1. CASE y
    BY <2>1 DEF Resume, Goto
  <2>2. CASE ~y
    <3>1. /\ after' = [after EXCEPT ![t] = "call"]
          /\ IF Delays(t) THEN Return(t)
             ELSE /\ Goto(t, IF after[t] \in {"create", "reap"} THEN after[t] ELSE "call")
                  /\ UNCHANGED idx
      BY <2>2 DEF Resume
    <3> QED BY <2>2, <3>1 DEF Return, Goto
  <2> QED BY <2>1, <2>2
<1>4. /\ Call(t).do \in {"take", "delay", "until", "create", "reap"} /\ program[t][idx[t]] = Call(t)
      /\ after[t] \in {"create", "reap"} => Call(t).do = after[t]
      /\ Call(t).do \in {"create", "reap"} => Call(t).do = after[t]
      /\ \A p \in Sem : k.lock[p] = -1
  <2>1. Call(t).do \in {"take", "delay", "until", "create", "reap"}
    BY <1>1, <1>2 DEF CallsAt
  <2> QED BY <1>0, <1>1, <1>2, <2>1 DEF Call, LockedPc, ProgInv
<1>5. /\ Sound(k') /\ Rows(k') /\ Ahead(k') /\ Forward(k, k') /\ ~k'.suspended
      /\ k'.full = k.full /\ k'.holder = k.holder /\ k'.lock = k.lock
      /\ IF YieldRequired(k) THEN Ready(k'.cur, k') ELSE k'.cur = t
  <2> DEFINE z == xTaskResumeAll(k)
  <2>1. /\ Sound(z) /\ Rows(z) /\ Ahead(z) /\ Forward(k, z) /\ ~z.suspended
        /\ z.full = k.full /\ z.holder = k.holder /\ z.lock = k.lock
        /\ IF YieldRequired(k) THEN Ready(z.cur, z) ELSE z.cur = t
    BY <1>1, ResumeAllIs
  <2> HIDE DEF z
  <2>2. z \in KernelData
    BY <2>1 DEF Sound, Lists
  <2>3. CASE after[t] = "fail"
    <3>1. k' = Forgotten(t, z)
      BY <1>2, <2>3 DEF z
    <3>2. k' \in KernelData /\ SameLists(z, k') /\ SameSems(z, k')
      BY <1>1, <2>2, <3>1, ForgottenIs
    <3>3. /\ Sound(k') /\ Rows(k') /\ Ahead(k') /\ Forward(z, k')
          /\ \A u \in Task : Ready(u, k') <=> Ready(u, z)
      BY <2>1, <3>2, SameListsIs
    <3>4. Forward(k, k')
      BY <2>1, <3>3, ForwardTwice
    <3>5. z.cur \in Task
      BY <2>2 DEF KernelData
    <3> QED BY <2>1, <3>2, <3>3, <3>4, <3>5 DEF SameSems
  <2>4. CASE after[t] # "fail"
    BY <1>2, <2>1, <2>4 DEF z
  <2> QED BY <2>3, <2>4
<1>6. /\ l \in {"yield", "call", "create", "reap"} /\ i \in 1..Len(program[t]) /\ a \in {"yield", "call"}
      /\ program[t][i].do \in CallsAt(l)
      /\ l = "reap" => pc[t] = "resume"
      /\ i = idx[t] \/ (i = NextIdx(t) /\ Call(t).do \in {"delay", "until"})
      /\ l # "yield" => YieldRequired(k) \/ after[t] # "yield"
  <2>1. program[t][i].do \in CallsAt(l)
    <3>1. CASE y
      BY <1>4, <3>1 DEF CallsAt
    <3>2. CASE ~y /\ Delays(t)
      BY <1>1, <3>2
    <3>3. CASE ~y /\ ~Delays(t)
      BY <1>4, <3>3 DEF CallsAt
    <3> QED BY <3>1, <3>2, <3>3
  <2> QED BY <1>1, <1>2, <2>1 DEF Delays
<1> HIDE DEF y, l, i, a
<1>7. HoldInv'
  <2>1. \A u \in DOMAIN program :
            \/ idx'[u] = idx[u]
            \/ /\ idx'[u] = NextIdx(u)
               /\ \A m \in Mutex : Call(u) # [do |-> "take", sem |-> m] /\ Call(u) # [do |-> "give", sem |-> m]
    <3> SUFFICES ASSUME NEW u \in DOMAIN program
                 PROVE  \/ idx'[u] = idx[u]
                        \/ /\ idx'[u] = NextIdx(u)
                           /\ \A m \in Mutex : /\ Call(u) # [do |-> "take", sem |-> m]
                                               /\ Call(u) # [do |-> "give", sem |-> m]
      OBVIOUS
    <3>1. u \in Task
      BY <1>0, ProgramIs
    <3>2. CASE u # t
      BY <1>1, <1>3, <3>1, <3>2
    <3>3. CASE u = t /\ i = idx[t]
      BY <1>1, <1>3, <3>3
    <3>4. CASE u = t /\ i = NextIdx(t) /\ Call(t).do \in {"delay", "until"}
      <4>1. idx'[u] = NextIdx(u) \/ idx'[u] = idx[u]
        BY <1>1, <1>3, <3>4
      <4>2. \A m : Call(u) # [do |-> "take", sem |-> m] /\ Call(u) # [do |-> "give", sem |-> m]
        BY <3>4
      <4> QED BY <4>1, <4>2
    <3> QED BY <1>6, <3>2, <3>3, <3>4
  <2> QED BY <1>0, <1>2, <1>5, <2>1, HoldSame
<1>8. PlacedInv'
  BY <1>0, <1>2, <1>5, PlacedForward
<1>9. StepTo(l, i, a, pc', idx', after', k')
  <2>1. Moves(l, i, a, pc', idx', after')
    <3>1. l \in PcStates /\ a \in AfterStates
      BY <1>6 DEF PcStates, AfterStates
    <3> QED BY <1>0, <1>1, <1>3, <1>6, <3>1, MovesIs
  <2>2. /\ Ready(k'.cur, k') \/ Asleep(k'.cur, k')
        /\ Asleep(k'.cur, k') => k'.cur = t /\ l = "yield"
    <3>1. k'.cur \in Task /\ ~(Ready(k'.cur, k') /\ Asleep(k'.cur, k'))
      BY <1>5 DEF Sound, Lists, KernelData, Places, Ready
    <3>2. CASE YieldRequired(k)
      BY <1>5, <3>1, <3>2
    <3>3. CASE ~YieldRequired(k)
      BY <1>1, <1>2, <1>5, <1>6, <3>1, <3>3 DEF Forward
    <3> QED BY <3>2, <3>3
  <2>3. t = Idle /\ l = "reap" => k'.dying # <<>>
    BY <1>0, <1>5, <1>6 DEF ReapInv, Forward
  <2>4. k'.dying = k.dying /\ \A p \in Sem : k'.lock[p] = -1
    BY <1>4, <1>5 DEF Forward
  <2> QED BY <1>5, <1>6, <2>1, <2>2, <2>3, <2>4 DEF StepTo, SuspendedPc, LockedPc
<1>10. ListInv'
  BY <1>0, <1>1, <1>2, <1>5, <1>7, <1>8, <1>9, TaskStep
<1>11. WaitTo(l, i, a, k')
  <2>1. i = idx[k.cur] \/ Call(k.cur).do # "take"
    BY <1>6
  <2>2. l \notin {"place", "unlock"}
    BY <1>6
  <2> QED BY <1>0, <1>5, <2>1, <2>2, WaitForward
<1> QED BY <1>2, <1>9, <1>10, <1>11, WaitStep

(* portYIELD_WITHIN_API                                                       *)
LEMMA StepYield ==
  ASSUME Inv, NEW t, t = k.cur, Yield(t)
  PROVE  Inv'
<1> DEFINE i == IF Delays(t) THEN NextIdx(t) ELSE idx[t]
<1>0. /\ ListInv /\ ProgInv /\ TypeOK /\ program \in Programs
  BY DEF Inv, ListInv, TypeOK
<1>1. /\ t \in DOMAIN program /\ t \in Task /\ k \in KernelData
      /\ Sound(k) /\ Rows(k) /\ Ahead(k)
      /\ pc \in [Task -> PcStates] /\ idx \in [Task -> Nat \ {0}] /\ after \in [Task -> AfterStates]
      /\ last \in [Task -> 0..TickModulus - 1] /\ child \in Child \cup {None}
      /\ k.suspended <=> pc[t] \in SuspendedPc
      /\ idx[t] \in 1..Len(program[t]) /\ NextIdx(t) \in 1..Len(program[t])
      /\ Call(t) \in KernelCall /\ Call(t).do \in CallsAt(pc[t])
      /\ \A j \in 1..Len(program[t]) : program[t][j].do \in CallsAt("call")
      /\ \A p \in Sem : k.lock[p] # -1 <=> pc[t] \in LockedPc /\ Call(t).sem = p
  BY <1>0, RunningIs
<1>2. /\ pc[t] = "yield" /\ program' = program /\ child' = child /\ last' = last
      /\ k' = vTaskSwitchContext(k)
      /\ pc' = [pc EXCEPT ![t] = "call"]
      /\ idx' = [idx EXCEPT ![t] = i] \/ (idx' = idx /\ i = idx[t])
      /\ after' = [after EXCEPT ![t] = "call"]
  BY DEF Yield, At, Return, Goto
<1>3. /\ ~k.suspended /\ \A p \in Sem : k.lock[p] = -1
  BY <1>1, <1>2 DEF LockedPc, SuspendedPc
<1>4. /\ Sound(k') /\ Kept(k, k') /\ Forward(k, k') /\ Ready(k'.cur, k')
      /\ k'.wake = k.wake /\ k'.delayed = k.delayed /\ k'.overflow = k.overflow
  BY <1>1, <1>2, <1>3, SwitchIs
<1>5. Rows(k') /\ Ahead(k')
  BY <1>1, <1>4 DEF Rows, Ahead, Kept
<1>6. /\ i \in 1..Len(program[t]) /\ program[t][i].do \in CallsAt("call")
      /\ i = idx[t] \/ (i = NextIdx(t) /\ Call(t).do \in {"delay", "until"})
  BY <1>1 DEF Delays
<1> HIDE DEF i
<1>7. HoldInv'
  <2>1. \A u \in DOMAIN program :
            \/ idx'[u] = idx[u]
            \/ /\ idx'[u] = NextIdx(u)
               /\ \A m \in Mutex : Call(u) # [do |-> "take", sem |-> m] /\ Call(u) # [do |-> "give", sem |-> m]
    <3> SUFFICES ASSUME NEW u \in DOMAIN program
                 PROVE  \/ idx'[u] = idx[u]
                        \/ /\ idx'[u] = NextIdx(u)
                           /\ \A m \in Mutex : /\ Call(u) # [do |-> "take", sem |-> m]
                                               /\ Call(u) # [do |-> "give", sem |-> m]
      OBVIOUS
    <3>1. u \in Task
      BY <1>0, ProgramIs
    <3>2. CASE u # t
      BY <1>1, <1>2, <3>1, <3>2
    <3>3. CASE u = t /\ i = idx[t]
      BY <1>1, <1>2, <3>3
    <3>4. CASE u = t /\ i = NextIdx(t) /\ Call(t).do \in {"delay", "until"}
      <4>1. idx'[u] = NextIdx(u) \/ idx'[u] = idx[u]
        BY <1>1, <1>2, <3>4
      <4>2. \A m : Call(u) # [do |-> "take", sem |-> m] /\ Call(u) # [do |-> "give", sem |-> m]
        BY <3>4
      <4> QED BY <4>1, <4>2
    <3> QED BY <1>6, <3>2, <3>3, <3>4
  <2> QED BY <1>0, <1>2, <1>4, <2>1, HoldSame DEF Kept
<1>8. PlacedInv'
  BY <1>0, <1>2, <1>4, PlacedForward
<1>9. StepTo("call", i, "call", pc', idx', after', k')
  <2>1. Moves("call", i, "call", pc', idx', after')
    BY <1>0, <1>1, <1>2, <1>6, MovesIs DEF PcStates, AfterStates
  <2>2. Ready(k'.cur, k') /\ ~Asleep(k'.cur, k')
    BY <1>4 DEF Sound, Lists, KernelData, Places, Ready
  <2>3. /\ ~k'.suspended /\ k'.dying = k.dying /\ \A p \in Sem : k'.lock[p] = -1
    BY <1>3, <1>4 DEF Kept, Forward
  <2> QED BY <1>6, <2>1, <2>2, <2>3 DEF StepTo, SuspendedPc, LockedPc
<1>10. ListInv'
  BY <1>0, <1>1, <1>2, <1>4, <1>5, <1>7, <1>8, <1>9, TaskStep
<1>11. WaitTo("call", i, "call", k')
  <2>1. i = idx[k.cur] \/ Call(k.cur).do # "take"
    BY <1>6
  <2>2. k'.full = k.full /\ k'.lock = k.lock
    BY <1>4 DEF Kept
  <2> QED BY <1>0, <1>4, <2>1, <2>2, WaitForward
<1> QED BY <1>2, <1>9, <1>10, <1>11, WaitStep

(* xQueueGenericSend with no block time                                       *)
LEMMA StepGive ==
  ASSUME Inv, NEW t, t = k.cur, Give(t)
  PROVE  Inv'
<1> DEFINE q == Call(t).sem
<1>0. /\ ListInv /\ WaitInv /\ TypeOK /\ ProgInv /\ HoldInv /\ program \in Programs
  BY DEF Inv, ListInv, TypeOK
<1>1. /\ t \in DOMAIN program /\ t \in Task /\ k \in KernelData
      /\ Sound(k) /\ Rows(k) /\ Ahead(k)
      /\ pc \in [Task -> PcStates] /\ idx \in [Task -> Nat \ {0}] /\ after \in [Task -> AfterStates]
      /\ last \in [Task -> 0..TickModulus - 1] /\ child \in Child \cup {None}
      /\ k.suspended <=> pc[t] \in SuspendedPc
      /\ Ready(t, k) \/ Asleep(t, k)
      /\ Asleep(t, k) => pc[t] = "yield" \/ (pc[t] \in {"unlock", "resume"} /\ after[t] = "yield")
      /\ idx[t] \in 1..Len(program[t]) /\ NextIdx(t) \in 1..Len(program[t])
      /\ Call(t) \in KernelCall
      /\ \A i \in 1..Len(program[t]) : program[t][i].do \in CallsAt("call")
      /\ \A p \in Sem : k.lock[p] # -1 <=> pc[t] \in LockedPc /\ Call(t).sem = p
  BY <1>0, RunningIs
<1>2. /\ pc[t] = "call" /\ Call(t).do = "give" /\ program' = program /\ last' = last /\ child' = child
      /\ after' = after /\ pc' = [pc EXCEPT ![t] = "call"] /\ idx' = [idx EXCEPT ![t] = NextIdx(t)]
      /\ k' = GenericSend(q, k)
  BY DEF Give, Calls, At, Return, Goto
<1>3. /\ q \in Sem /\ Call(t) = [do |-> "give", sem |-> q]
      /\ Ready(t, k) /\ ~Asleep(t, k) /\ ~k.suspended /\ \A p \in Sem : k.lock[p] = -1
  <2>1. q \in Sem /\ Call(t) = [do |-> "give", sem |-> q]
    BY <1>1, <1>2, CallIs
  <2> QED BY <1>1, <1>2, <2>1 DEF SuspendedPc, LockedPc
<1>4. q \in Mutex => k.holder[q] = t /\ ~k.full[q]
  <2>1. q \in Mutex => q \in Held(program, t, idx[t])
    BY <1>0, <1>1, <1>3, DisciplineAssumption DEF Call
  <2>2. t # None
    BY <1>1, KernelAssumption
  <2> QED BY <1>0, <1>1, <2>1, <2>2 DEF HoldInv
<1>5. /\ Sound(k') /\ Rows(k') /\ Ahead(k') /\ Forward(k, k') /\ ~k'.suspended
      /\ k'.holder = [k.holder EXCEPT ![q] = None] /\ k'.full = [k.full EXCEPT ![q] = TRUE]
      /\ k'.lock = k.lock
      /\ k'.cur = k.cur \/ Ready(k'.cur, k')
      /\ ~k.full[q] /\ k.waiting[q] # <<>> => \E u \in Task : Contains(k.waiting[q], u) /\ Awake(u, k')
  <2>1. CASE k.full[q]
    <3>1. k' = k
      BY <1>2, <2>1 DEF GenericSend
    <3>2. k.holder[q] = None
      BY <1>0, <1>3, <1>4, <2>1 DEF HoldInv
    <3>3. Forward(k, k)
      BY ForwardNot
    <3>4. k.holder \in [Sem -> Task \cup {None}] /\ k.full \in [Sem -> BOOLEAN]
      BY <1>1 DEF KernelData
    <3> HIDE DEF q
    <3>5. k.holder = [k.holder EXCEPT ![q] = None] /\ k.full = [k.full EXCEPT ![q] = TRUE]
      BY <1>3, <2>1, <3>2, <3>4
    <3> QED BY <1>1, <1>3, <2>1, <3>1, <3>3, <3>5
  <2>2. CASE ~k.full[q]
    <3>1. /\ Sound(k) /\ Rows(k) /\ Ahead(k) /\ ~k.suspended /\ q \in Sem /\ ~k.full[q]
          /\ q \in Mutex /\ k.holder[q] # None => Ready(k.holder[q], k)
          /\ k' = GenericSend(q, k)
      BY <1>1, <1>2, <1>3, <1>4, <2>2
    <3> HIDE DEF q
    <3> QED BY <3>1, GenericSendIs DEF Ungiven
  <2> QED BY <2>1, <2>2
<1>6. HoldInv'
  <2> DEFINE f == [k.full EXCEPT ![q] = TRUE]
             h == [k.holder EXCEPT ![q] = None]
  <2>1. /\ f[q] = TRUE /\ h[q] = None
        /\ \A p \in Sem : p # q => f[p] = k.full[p] /\ h[p] = k.holder[p]
    <3>1. k.full \in [Sem -> BOOLEAN] /\ k.holder \in [Sem -> Task \cup {None}]
      BY <1>1 DEF KernelData
    <3> HIDE DEF q
    <3> QED BY <1>3, <3>1
  <2>2. k'.full = f /\ k'.holder = h
    BY <1>5
  <2> HIDE DEF f, h
  <2>3. Held(program, t, NextIdx(t)) =
           {m \in Mutex : \/ Call(t) = [do |-> "take", sem |-> m]
                          \/ m \in Held(program, t, idx[t]) /\ Call(t) # [do |-> "give", sem |-> m]}
    BY <1>0, <1>1, HeldNext
  <2>4. \A m : /\ Call(t) = [do |-> "give", sem |-> m] <=> m = q
               /\ Call(t) # [do |-> "take", sem |-> m]
    BY <1>3
  <2>5. \A m \in Mutex : m \in Held(program, t, NextIdx(t)) <=> m # q /\ m \in Held(program, t, idx[t])
    BY <2>3, <2>4
  <2>6. idx'[t] = NextIdx(t) /\ \A u \in DOMAIN program : u # t => idx'[u] = idx[u]
    BY <1>0, <1>1, <1>2, ProgramIs
  <2>7. None \notin DOMAIN program /\ Mutex \subseteq Sem
    BY <1>0, <1>1, ProgramIs, KernelAssumption
  <2>8. ASSUME NEW m \in Mutex
        PROVE  /\ k'.full[m] <=> k'.holder[m] = None
               /\ k'.holder[m] \in DOMAIN program \cup {None}
               /\ \A u \in DOMAIN program : k'.holder[m] = u <=> m \in Held(program, u, idx'[u])
    <3>1. /\ k.full[m] <=> k.holder[m] = None
          /\ k.holder[m] \in DOMAIN program \cup {None}
          /\ \A u \in DOMAIN program : k.holder[m] = u <=> m \in Held(program, u, idx[u])
      BY <1>0 DEF HoldInv
    <3>2. CASE m = q
      <4>1. k'.full[m] /\ k'.holder[m] = None
        BY <2>1, <2>2, <3>2
      <4>2. m \notin Held(program, t, idx'[t])
        BY <2>5, <2>6, <3>2
      <4>3. k.holder[m] = t
        BY <1>4, <3>2
      <4>4. \A u \in DOMAIN program : m \notin Held(program, u, idx'[u])
        BY <2>6, <3>1, <4>2, <4>3
      <4> QED BY <2>7, <4>1, <4>4
    <3>3. CASE m # q
      <4>1. k'.full[m] = k.full[m] /\ k'.holder[m] = k.holder[m]
        BY <2>1, <2>2, <2>7, <3>3
      <4>2. \A u \in DOMAIN program : m \in Held(program, u, idx'[u]) <=> m \in Held(program, u, idx[u])
        BY <2>5, <2>6, <3>3
      <4> QED BY <3>1, <4>1, <4>2
    <3> QED BY <3>2, <3>3
  <2>9. \A p \in Sem \ Mutex : k'.holder[p] = None
    BY <1>0, <2>1, <2>2 DEF HoldInv
  <2> QED BY <1>2, <2>8, <2>9 DEF HoldInv
<1>7. PlacedInv'
  BY <1>0, <1>2, <1>5, PlacedForward
<1>8. StepTo("call", NextIdx(t), after[t], pc', idx', after', k')
  <2>1. Moves("call", NextIdx(t), after[t], pc', idx', after')
    BY <1>0, <1>1, <1>2, MovesIs DEF PcStates
  <2>2. Ready(k'.cur, k') /\ ~Asleep(k'.cur, k')
    <3>1. Ready(k'.cur, k')
      BY <1>1, <1>3, <1>5 DEF Forward
    <3> QED BY <1>5, <3>1 DEF Sound, Lists, KernelData, Places, Ready
  <2>3. /\ ~k'.suspended /\ k'.dying = k.dying /\ \A p \in Sem : k'.lock[p] = -1
    BY <1>3, <1>5 DEF Forward
  <2> QED BY <1>1, <2>1, <2>2, <2>3 DEF StepTo, SuspendedPc, LockedPc
<1>9. ListInv'
  BY <1>0, <1>1, <1>2, <1>5, <1>6, <1>7, <1>8, TaskStep
<1>10. WaitTo("call", NextIdx(t), after[t], k')
  <2>1. ASSUME ~k.full[q], k'.waiting[q] # <<>>
        PROVE  \E u \in Started : Takes(u, q) /\ u # t /\ Awake(u, k')
    <3>1. k.waiting[q] # <<>>
      <4>1. k.waiting[q] \in Seq(Task) /\ k'.waiting[q] \in Seq(Task)
        BY <1>1, <1>3, <1>5 DEF KernelData, Sound, Lists
      <4>2. PICK u \in Task : Contains(k'.waiting[q], u)
        BY <2>1, <4>1, Emptied
      <4>3. Contains(k.waiting[q], u)
        BY <1>3, <1>5, <4>2 DEF Forward
      <4> QED BY <4>1, <4>3, Emptied
    <3>2. PICK u \in Task : Contains(k.waiting[q], u) /\ Awake(u, k')
      BY <1>5, <2>1, <3>1
    <3>3. u \in Started /\ Takes(u, q)
      BY <1>0, <1>3, <3>2 DEF WaitInv, Takes
    <3>4. u # t
      BY <1>2, <3>3 DEF Takes
    <3> QED BY <3>2, <3>3, <3>4
  <2>2. \A p \in Sem : p # q => k'.full[p] = k.full[p]
    <3>1. k.full \in [Sem -> BOOLEAN]
      BY <1>1 DEF KernelData
    <3> HIDE DEF q
    <3> QED BY <1>3, <1>5, <3>1
  <2>3. \A p \in Sem : k'.full[p] /\ k'.lock[p] = -1 /\ k'.waiting[p] # <<>> =>
          \/ k.full[p] /\ k.lock[p] = -1
          \/ \E u \in Started : Takes(u, p) /\ (u = k.cur => NextIdx(t) = idx[k.cur]) /\ Awake(u, k')
    BY <1>3, <1>5, <2>1, <2>2
  <2>4. Call(k.cur).do # "take" /\ Started \subseteq Task
    BY <1>0, <1>2, ProgramsAssumption DEF Started
  <2> QED BY <1>5, <2>3, <2>4 DEF WaitTo, Forward
<1> QED BY <1>2, <1>8, <1>9, <1>10, WaitStep

(* prvCheckTasksWaitingTermination                                            *)
LEMMA StepReap ==
  ASSUME Inv, NEW t, t = k.cur, Reap(t)
  PROVE  Inv'
<1>0. /\ ListInv /\ ProgInv /\ ReapInv /\ PlacedInv /\ TypeOK /\ program \in Programs
  BY DEF Inv, ListInv, TypeOK
<1>1. /\ t \in DOMAIN program /\ t \in Task /\ k \in KernelData
      /\ Sound(k) /\ Rows(k) /\ Ahead(k)
      /\ pc \in [Task -> PcStates] /\ after \in [Task -> AfterStates]
      /\ last \in [Task -> 0..TickModulus - 1] /\ child \in Child \cup {None}
      /\ k.suspended <=> pc[t] \in SuspendedPc
      /\ Ready(t, k) \/ Asleep(t, k)
      /\ Asleep(t, k) => pc[t] = "yield" \/ (pc[t] \in {"unlock", "resume"} /\ after[t] = "yield")
      /\ idx[t] \in 1..Len(program[t])
      /\ Call(t) \in KernelCall /\ Call(t).do \in CallsAt(pc[t])
      /\ \A i \in 1..Len(program[t]) : program[t][i].do \in CallsAt("call")
      /\ \A p \in Sem : k.lock[p] # -1 <=> pc[t] \in LockedPc /\ Call(t).sem = p
  BY <1>0, RunningIs
<1>2. /\ pc[t] = "reap" /\ program' = program /\ last' = last /\ child' = child /\ idx' = idx
      /\ after' = after /\ pc' = [pc EXCEPT ![t] = "call"] /\ k' = [k EXCEPT !.dying = Tail(@)]
  BY DEF Reap, At, Goto
<1>3. Ready(t, k) /\ ~Asleep(t, k) /\ ~k.suspended /\ \A p \in Sem : k.lock[p] = -1
  BY <1>1, <1>2 DEF SuspendedPc, LockedPc
<1>4. t = Idle
  <2>1. Call(t).do = "reap"
    BY <1>1, <1>2 DEF CallsAt
  <2> QED BY <1>0, <1>1, <2>1, DisciplineAssumption DEF Call
<1>5. /\ k.dying # <<>> /\ k.dying \in Seq(Task) /\ NoDup(k.dying)
  BY <1>0, <1>1, <1>2, <1>4 DEF ReapInv, Sound, Lists, KernelData
<1>6. /\ Tail(k.dying) \in Seq(Task) /\ NoDup(Tail(k.dying))
      /\ \A u : Contains(Tail(k.dying), u) => Contains(k.dying, u)
  BY <1>5, Tailed
<1>7. /\ k'.dying = Tail(k.dying) /\ k' \in KernelData
      /\ k'.ready = k.ready /\ k'.prio = k.prio /\ k'.top = k.top /\ k'.wake = k.wake
      /\ k'.delayed = k.delayed /\ k'.overflow = k.overflow /\ k'.pending = k.pending /\ k'.waiting = k.waiting
      /\ Untouched(k, k')
  BY <1>1, <1>2, <1>6 DEF KernelData, Untouched, Kept
<1>8. /\ Sound(k') /\ Rows(k') /\ Ahead(k')
      /\ \A u \in Task : (Ready(u, k') <=> Ready(u, k)) /\ (Asleep(u, k') <=> Asleep(u, k))
  <2>1. \A u \in Task : (Ready(u, k') <=> Ready(u, k)) /\ (Asleep(u, k') <=> Asleep(u, k))
    BY <1>7 DEF Ready, Asleep
  <2>2. Lists(k') /\ Events(k') /\ Tops(k') /\ Ready(Idle, k')
    BY <1>1, <1>3, <1>4, <1>6, <1>7, <2>1 DEF Sound, Lists, Events, Tops
  <2>3. Places(k')
    BY <1>1, <1>6, <1>7, <2>1 DEF Sound, Places
  <2> QED BY <1>1, <1>7, <2>1, <2>2, <2>3 DEF Sound, Rows, Ahead, Untouched, Kept
<1>9. HoldInv'
  BY <1>0, <1>2, <1>7, HoldSame DEF Untouched, Kept
<1>10. PlacedInv'
  <2>1. Started' = Started /\ Started \subseteq Task
    BY <1>0, <1>2, ProgramsAssumption DEF Started
  <2>2. child \in Task \cup {None}
    BY <1>1, KernelAssumption
  <2> QED BY <1>0, <1>2, <1>8, <2>1, <2>2 DEF PlacedInv
<1>11. StepTo("call", idx[t], after[t], pc', idx', after', k')
  <2>1. Moves("call", idx[t], after[t], pc', idx', after')
    BY <1>0, <1>1, <1>2, MovesIs DEF PcStates
  <2>2. /\ Ready(k'.cur, k') /\ ~Asleep(k'.cur, k') /\ ~k'.suspended /\ \A p \in Sem : k'.lock[p] = -1
    BY <1>1, <1>3, <1>7, <1>8 DEF Untouched, Kept
  <2> QED BY <1>1, <1>4, <2>1, <2>2 DEF StepTo, SuspendedPc, LockedPc
<1>12. ListInv'
  BY <1>0, <1>1, <1>2, <1>8, <1>9, <1>10, <1>11, TaskStep
<1>13. WaitTo("call", idx[t], after[t], k')
  <2>1. \A u \in Task : Awake(u, k') <=> Awake(u, k)
    BY <1>7, <1>8 DEF Awake
  <2>2. Started \subseteq Task
    BY <1>0, ProgramsAssumption DEF Started
  <2> QED BY <1>7, <2>1, <2>2 DEF WaitTo, Untouched, Kept
<1> QED BY <1>2, <1>11, <1>12, <1>13, WaitStep

(* A block that is on no list becomes a ready task.                           *)
LEMMA AddedIs ==
  ASSUME NEW s, Sound(s), NEW c \in Task, ~Contains(s.dying, c), ~Asleep(c, s),
         \A p \in Priorities : ~Contains(s.ready[p], c)
  PROVE  LET r == AddTaskToReadyQueue(c, s)
         IN /\ Sound(r) /\ Untouched(s, r)
            /\ r.prio = s.prio /\ r.wake = s.wake /\ r.delayed = s.delayed /\ r.overflow = s.overflow
            /\ r.pending = s.pending /\ r.dying = s.dying /\ r.waiting = s.waiting
            /\ \A u \in Task : Asleep(u, r) <=> Asleep(u, s)
            /\ \A u \in Task : Ready(u, r) <=> Ready(u, s) \/ u = c
<1> DEFINE r == AddTaskToReadyQueue(c, s)
<1>1. /\ Lists(s) /\ Places(s) /\ Events(s) /\ Tops(s) /\ Ready(Idle, s) /\ s.prio[c] \in Priorities
  BY DEF Sound, Lists, KernelData
<1>2. /\ Lists(r) /\ Untouched(s, r)
      /\ r.prio = s.prio /\ r.wake = s.wake /\ r.delayed = s.delayed /\ r.overflow = s.overflow
      /\ r.pending = s.pending /\ r.dying = s.dying /\ r.waiting = s.waiting
      /\ \A p \in Priorities, u \in Task :
           Contains(r.ready[p], u) <=> Contains(s.ready[p], u) \/ (u = c /\ p = s.prio[c])
      /\ Tops(r)
  BY <1>1, AddIs
<1> HIDE DEF r
<1>3. /\ \A u \in Task : Asleep(u, r) <=> Asleep(u, s)
      /\ \A u \in Task : Ready(u, r) <=> Ready(u, s) \/ u = c
  BY <1>1, <1>2 DEF Asleep, Ready
<1>4. Places(r)
  BY <1>1, <1>2, <1>3 DEF Places
<1>5. Events(r)
  BY <1>1, <1>2, <1>3 DEF Events
<1>6. Ready(Idle, r)
  BY <1>1, <1>3, KernelAssumption
<1> QED BY <1>2, <1>3, <1>4, <1>5, <1>6 DEF Sound, r

(* xTaskGenericCreate                                                         *)
LEMMA StepCreate ==
  ASSUME Inv, NEW t, t = k.cur, Create(t)
  PROVE  Inv'
<1>0. /\ ListInv /\ ProgInv /\ PlacedInv /\ TypeOK /\ program \in Programs
  BY DEF Inv, ListInv, TypeOK
<1>1. /\ t \in DOMAIN program /\ t \in Task /\ k \in KernelData
      /\ Sound(k) /\ Rows(k) /\ Ahead(k)
      /\ pc \in [Task -> PcStates] /\ idx \in [Task -> Nat \ {0}] /\ after \in [Task -> AfterStates]
      /\ last \in [Task -> 0..TickModulus - 1] /\ child \in Child \cup {None}
      /\ k.suspended <=> pc[t] \in SuspendedPc
      /\ Ready(t, k) \/ Asleep(t, k)
      /\ Asleep(t, k) => pc[t] = "yield" \/ (pc[t] \in {"unlock", "resume"} /\ after[t] = "yield")
      /\ idx[t] \in 1..Len(program[t]) /\ NextIdx(t) \in 1..Len(program[t])
      /\ Call(t) \in KernelCall /\ Call(t).do \in CallsAt(pc[t])
      /\ \A i \in 1..Len(program[t]) : program[t][i].do \in CallsAt("call")
      /\ \A p \in Sem : k.lock[p] # -1 <=> pc[t] \in LockedPc /\ Call(t).sem = p
  BY <1>0, RunningIs
<1>2. /\ pc[t] = "create" /\ program' = program /\ after' = after
      /\ pc' = [pc EXCEPT ![t] = "call"] /\ idx' = [idx EXCEPT ![t] = NextIdx(t)]
  BY DEF Create, At, Return, Goto
<1>3. /\ Call(t).do = "create"
      /\ Ready(t, k) /\ ~Asleep(t, k) /\ ~k.suspended /\ \A p \in Sem : k.lock[p] = -1
  BY <1>1, <1>2 DEF SuspendedPc, LockedPc, CallsAt
<1>4. /\ last' \in [Task -> 0..TickModulus - 1] /\ child' \in Child \cup {None}
      /\ Sound(k') /\ Rows(k') /\ Ahead(k') /\ Kept(k, k')
      /\ k'.cur = t \/ Ready(k'.cur, k')
      /\ k'.dying = k.dying /\ k'.pending = k.pending /\ k'.waiting = k.waiting
      /\ \A u \in Task : Asleep(u, k') <=> Asleep(u, k)
      /\ \A u \in Task : Ready(u, k) => Ready(u, k')
      /\ \A u \in Task : Ready(u, k') => Ready(u, k) \/ u \in Child
      /\ child' # None => Ready(child', k') \/ Asleep(child', k')
  <2>1. CASE Free(k) = {}
    <3>1. k' = k /\ last' = last /\ child' = child
      BY <2>1 DEF Create
    <3>2. child \in Task \cup {None}
      BY <1>1, KernelAssumption
    <3> QED BY <1>0, <1>1, <3>1, <3>2 DEF Kept, PlacedInv
  <2>2. CASE Free(k) # {}
    <3>1. PICK c \in Free(k) :
             /\ k' = IF k.prio[t] < BasePriority[c] THEN vTaskSwitchContext(AddTaskToReadyQueue(c, k))
                     ELSE AddTaskToReadyQueue(c, k)
             /\ child' = c
             /\ last' = [last EXCEPT ![c] = k.tick]
      BY <2>2 DEF Create
    <3> DEFINE s == AddTaskToReadyQueue(c, k)
    <3>2. /\ c \in Child /\ c \in Task /\ ~Contains(k.dying, c) /\ ~Asleep(c, k)
          /\ \A p \in Priorities : ~Contains(k.ready[p], c)
      BY <3>1, KernelAssumption DEF Free, Asleep
    <3>3. /\ Sound(s) /\ Untouched(k, s)
          /\ s.prio = k.prio /\ s.wake = k.wake /\ s.delayed = k.delayed /\ s.overflow = k.overflow
          /\ s.pending = k.pending /\ s.dying = k.dying /\ s.waiting = k.waiting
          /\ \A u \in Task : Asleep(u, s) <=> Asleep(u, k)
          /\ \A u \in Task : Ready(u, s) <=> Ready(u, k) \/ u = c
      BY <1>1, <3>2, AddedIs
    <3>4. k' = IF k.prio[t] < BasePriority[c] THEN vTaskSwitchContext(s) ELSE s
      BY <3>1
    <3> HIDE DEF s
    <3>5. Rows(s) /\ Ahead(s)
      BY <1>1, <3>3 DEF Rows, Ahead, Untouched, Kept
    <3>6. /\ Sound(k') /\ Kept(s, k')
          /\ k'.wake = s.wake /\ k'.delayed = s.delayed /\ k'.overflow = s.overflow
          /\ k'.pending = s.pending /\ k'.dying = s.dying /\ k'.waiting = s.waiting
          /\ \A p \in Priorities, u \in Task : Contains(k'.ready[p], u) <=> Contains(s.ready[p], u)
          /\ k'.cur = t \/ Ready(k'.cur, k')
      <4>1. CASE k' = s
        BY <3>3, <4>1 DEF Kept, Untouched
      <4>2. CASE k' = vTaskSwitchContext(s)
        <5>1. ~s.suspended
          BY <1>3, <3>3 DEF Untouched, Kept
        <5> QED BY <3>3, <4>2, <5>1, SwitchIs
      <4> QED BY <3>4, <4>1, <4>2
    <3>7. Rows(k') /\ Ahead(k')
      BY <3>5, <3>6 DEF Rows, Ahead, Kept
    <3>8. /\ \A u \in Task : Asleep(u, k') <=> Asleep(u, k)
          /\ \A u \in Task : Ready(u, k') <=> Ready(u, k) \/ u = c
      BY <3>3, <3>6 DEF Asleep, Ready
    <3>9. last' \in [Task -> 0..TickModulus - 1]
      <4> DEFINE T == 0..TickModulus - 1
      <4>1. k.tick \in T /\ last \in [Task -> T]
        BY <1>1 DEF KernelData
      <4> HIDE DEF T
      <4>2. last' \in [Task -> T]
        BY <3>1, <4>1
      <4> QED BY <4>2 DEF T
    <3> QED BY <3>1, <3>2, <3>3, <3>6, <3>7, <3>8, <3>9 DEF Kept, Untouched
  <2> QED BY <2>1, <2>2
<1>5. HoldInv'
  <2>1. \A u \in DOMAIN program :
            \/ idx'[u] = idx[u]
            \/ /\ idx'[u] = NextIdx(u)
               /\ \A m \in Mutex : Call(u) # [do |-> "take", sem |-> m] /\ Call(u) # [do |-> "give", sem |-> m]
    <3>1. \A u \in DOMAIN program : u \in Task
      BY <1>0, <1>1, ProgramIs
    <3>2. \A m : Call(t) # [do |-> "take", sem |-> m] /\ Call(t) # [do |-> "give", sem |-> m]
      BY <1>3
    <3> QED BY <1>1, <1>2, <3>1, <3>2
  <2> QED BY <1>0, <1>2, <1>4, <2>1, HoldSame DEF Kept
<1>6. PlacedInv'
  <2>1. Started' = Started /\ Started \subseteq Task
    BY <1>0, <1>2, ProgramsAssumption DEF Started
  <2>2. Child \subseteq DOMAIN program
    BY <1>0, <1>1, <1>3, DisciplineAssumption DEF Call
  <2> QED BY <1>0, <1>2, <1>4, <2>1, <2>2 DEF PlacedInv
<1>7. StepTo("call", NextIdx(t), after[t], pc', idx', after', k')
  <2>1. Moves("call", NextIdx(t), after[t], pc', idx', after')
    BY <1>0, <1>1, <1>2, MovesIs DEF PcStates
  <2>2. Ready(k'.cur, k') /\ ~Asleep(k'.cur, k')
    <3>1. Ready(k'.cur, k')
      BY <1>1, <1>3, <1>4
    <3> QED BY <1>4, <3>1 DEF Sound, Lists, KernelData, Places, Ready
  <2>3. /\ ~k'.suspended /\ \A p \in Sem : k'.lock[p] = -1
    BY <1>3, <1>4 DEF Kept
  <2> QED BY <1>1, <1>4, <2>1, <2>2, <2>3 DEF StepTo, SuspendedPc, LockedPc
<1>8. ListInv'
  BY <1>0, <1>1, <1>2, <1>4, <1>5, <1>6, <1>7, TaskStep
<1>9. WaitTo("call", NextIdx(t), after[t], k')
  <2>1. \A u \in Task : Awake(u, k') <=> Awake(u, k)
    BY <1>4 DEF Awake
  <2>2. Started \subseteq Task /\ Call(k.cur).do # "take"
    BY <1>0, <1>3, ProgramsAssumption DEF Started
  <2> QED BY <1>4, <2>1, <2>2 DEF WaitTo, Kept
<1> QED BY <1>2, <1>7, <1>8, <1>9, WaitStep

(* vTaskDelete of the task created last                                       *)
LEMMA StepDelete ==
  ASSUME Inv, NEW t, t = k.cur, Delete(t)
  PROVE  Inv'
<1> DEFINE T == 0..TickModulus - 1
<1>0. /\ ListInv /\ ProgInv /\ PlacedInv /\ TypeOK /\ program \in Programs /\ Started \subseteq Task
  BY ProgramsAssumption DEF Inv, ListInv, TypeOK, Started
<1>1. /\ t \in DOMAIN program /\ t \in Task /\ k \in KernelData
      /\ Sound(k) /\ Rows(k) /\ Ahead(k)
      /\ pc \in [Task -> PcStates] /\ idx \in [Task -> Nat \ {0}] /\ after \in [Task -> AfterStates]
      /\ last \in [Task -> T] /\ child \in Child \cup {None}
      /\ k.suspended <=> pc[t] \in SuspendedPc
      /\ Ready(t, k) \/ Asleep(t, k)
      /\ Asleep(t, k) => pc[t] = "yield" \/ (pc[t] \in {"unlock", "resume"} /\ after[t] = "yield")
      /\ idx[t] \in 1..Len(program[t]) /\ NextIdx(t) \in 1..Len(program[t])
      /\ Call(t) \in KernelCall
      /\ \A i \in 1..Len(program[t]) : program[t][i].do \in CallsAt("call")
      /\ \A p \in Sem : k.lock[p] # -1 <=> pc[t] \in LockedPc /\ Call(t).sem = p
  BY <1>0, RunningIs
<1>2. pc[t] = "call" /\ Call(t).do = "delete" /\ child' = None /\ program' = program
  BY DEF Delete, Calls, At
<1>3. /\ Ready(t, k) /\ ~Asleep(t, k) /\ ~k.suspended /\ \A p \in Sem : k.lock[p] = -1
      /\ \A m : Call(t) # [do |-> "take", sem |-> m] /\ Call(t) # [do |-> "give", sem |-> m]
  BY <1>1, <1>2 DEF SuspendedPc, LockedPc
<1>4. Started' = Started /\ None \notin Task /\ \A u \in DOMAIN program : u \in Task
  BY <1>0, <1>1, <1>2, ProgramIs, KernelAssumption DEF Started
<1>5. CASE child = None
  <2>1. /\ k' = k /\ after' = after /\ last' = last
        /\ pc' = [pc EXCEPT ![t] = "call"] /\ idx' = [idx EXCEPT ![t] = NextIdx(t)]
    BY <1>5 DEF Delete, Return, Goto
  <2>2. HoldInv'
    <3>1. \A u \in DOMAIN program :
            \/ idx'[u] = idx[u]
            \/ /\ idx'[u] = NextIdx(u)
               /\ \A m \in Mutex : Call(u) # [do |-> "take", sem |-> m] /\ Call(u) # [do |-> "give", sem |-> m]
      BY <1>1, <1>3, <1>4, <2>1
    <3> QED BY <1>0, <1>2, <2>1, <3>1, HoldSame
  <2>3. Forward(k, k')
    BY <2>1, ForwardNot
  <2>4. PlacedInv'
    BY <1>0, <1>2, <1>5, <2>3, PlacedForward
  <2>5. StepTo("call", NextIdx(t), after[t], pc', idx', after', k')
    <3>1. Moves("call", NextIdx(t), after[t], pc', idx', after')
      BY <1>0, <1>1, <2>1, MovesIs DEF PcStates
    <3> QED BY <1>1, <1>3, <2>1, <3>1 DEF StepTo, SuspendedPc, LockedPc
  <2>6. ListInv'
    BY <1>0, <1>1, <1>2, <2>1, <2>2, <2>4, <2>5, TaskStep
  <2>7. WaitTo("call", NextIdx(t), after[t], k')
    BY <1>0, <1>2, <2>1, <2>3, WaitForward
  <2> QED BY <1>2, <2>5, <2>6, <2>7, WaitStep
<1>6. CASE child # None
  <2> DEFINE c == child
             s == RemoveState(c, k)
             r == RemoveEvent(c, s)
  <2>1. /\ k' = [r EXCEPT !.dying = Append(@, c)]
        /\ idx' = [idx EXCEPT ![t] = NextIdx(t), ![c] = 1]
        /\ pc' = [pc EXCEPT ![t] = "call", ![c] = "call"]
        /\ after' = [after EXCEPT ![c] = "call"]
        /\ last' = [last EXCEPT ![c] = 0]
    BY <1>6 DEF Delete
  <2>2. c \in Child /\ c \in Task /\ c # Idle /\ c \notin Started /\ c # t /\ ~Contains(k.dying, c)
    <3>1. c \in Child /\ c \in Task /\ c # Idle /\ c \notin Started
      BY <1>1, <1>6, KernelAssumption DEF Started
    <3>2. Ready(c, k) \/ Asleep(c, k)
      BY <1>0, <1>6 DEF PlacedInv
    <3>3. ~Contains(k.dying, c)
      BY <1>1, <3>1, <3>2 DEF Sound, Places, Ready
    <3>4. c # t
      <4>1. program[t][idx[t]].do = "delete"
        BY <1>2 DEF Call
      <4>2. t \in Child => program[t][idx[t]].do \in {"delay", "until"}
        BY <1>0, <1>1, DisciplineAssumption
      <4> QED BY <3>1, <4>1, <4>2
    <3> QED BY <3>1, <3>3, <3>4
  <2>3. Lists(k) /\ Places(k) /\ Events(k) /\ Tops(k) /\ Ready(Idle, k)
    BY <1>1 DEF Sound
  <2> HIDE DEF c
  <2>4. /\ Lists(s) /\ Untouched(k, s)
        /\ s.prio = k.prio /\ s.top = k.top
        /\ s.pending = k.pending /\ s.dying = k.dying /\ s.waiting = k.waiting
        /\ \A p \in Priorities, u \in Task : Contains(s.ready[p], u) <=> Contains(k.ready[p], u) /\ u # c
        /\ \A u \in Task : Contains(s.delayed, u) <=> Contains(k.delayed, u) /\ u # c
        /\ \A u \in Task : Contains(s.overflow, u) <=> Contains(k.overflow, u) /\ u # c
        /\ \A u \in Task : u # c => s.wake[u] = k.wake[u]
        /\ Rows(s)
    BY <1>1, <2>2, <2>3, RemoveStateIs
  <2> HIDE DEF s
  <2>5. /\ Lists(r) /\ Untouched(s, r)
        /\ r.prio = s.prio /\ r.top = s.top /\ r.wake = s.wake
        /\ r.ready = s.ready /\ r.delayed = s.delayed /\ r.overflow = s.overflow /\ r.dying = s.dying
        /\ \A u \in Task : Contains(r.pending, u) <=> Contains(s.pending, u) /\ u # c
        /\ \A q \in Sem, u \in Task : Contains(r.waiting[q], u) <=> Contains(s.waiting[q], u) /\ u # c
    BY <2>2, <2>4, RemoveEventIs
  <2> HIDE DEF r
  <2>6. /\ Append(k.dying, c) \in Seq(Task) /\ Append(k.dying, c) # <<>> /\ NoDup(Append(k.dying, c))
        /\ \A u : Contains(Append(k.dying, c), u) <=> Contains(k.dying, u) \/ u = c
    <3>1. k.dying \in Seq(Task) /\ NoDup(k.dying)
      BY <1>1, <2>3 DEF Lists, KernelData
    <3> QED BY <2>2, <3>1, Appended
  <2>7. /\ k' \in KernelData /\ k'.dying = Append(k.dying, c)
        /\ k'.ready = r.ready /\ k'.prio = r.prio /\ k'.top = r.top /\ k'.wake = r.wake
        /\ k'.delayed = r.delayed /\ k'.overflow = r.overflow /\ k'.pending = r.pending /\ k'.waiting = r.waiting
        /\ Untouched(r, k')
    BY <2>1, <2>4, <2>5, <2>6 DEF Lists, KernelData, Untouched, Kept
  <2>8. Kept(k, k') /\ k'.cur = t
    BY <2>4, <2>5, <2>7 DEF Untouched, Kept
  <2>9. /\ \A u \in Task : Ready(u, k') <=> Ready(u, k) /\ u # c
        /\ \A u \in Task : Asleep(u, k') <=> Asleep(u, k) /\ u # c
        /\ \A u \in Task : Contains(k'.pending, u) <=> Contains(k.pending, u) /\ u # c
        /\ \A q \in Sem, u \in Task : Contains(k'.waiting[q], u) <=> Contains(k.waiting[q], u) /\ u # c
    BY <2>4, <2>5, <2>7 DEF Ready, Asleep
  <2>10. Lists(k')
    BY <2>5, <2>6, <2>7 DEF Lists
  <2>11. Places(k')
    <3>1. \A u \in Task : Contains(k'.dying, u) => u = c \/ Contains(k.dying, u)
      BY <2>6, <2>7
    <3>2. \A p \in Priorities, u \in Task : Contains(k'.ready[p], u) => Contains(k.ready[p], u) /\ u # c
      BY <2>4, <2>5, <2>7
    <3>3. \A u \in Task : ~(Contains(k'.delayed, u) /\ Contains(k'.overflow, u))
      BY <2>3, <2>4, <2>5, <2>7 DEF Places
    <3>4. k'.prio = k.prio
      BY <2>4, <2>5, <2>7
    <3> QED BY <2>3, <2>9, <3>1, <3>2, <3>3, <3>4 DEF Places
  <2>12. Events(k')
    BY <2>3, <2>9 DEF Events
  <2>13. Tops(k')
    <3> SUFFICES ASSUME NEW p \in Priorities, k'.ready[p] # <<>> PROVE p <= k'.top
      BY DEF Tops
    <3>1. k'.ready[p] \in Seq(Task) /\ k.ready[p] \in Seq(Task)
      BY <1>1, <2>7 DEF KernelData
    <3>2. PICK u \in Task : Contains(k'.ready[p], u)
      BY <3>1, Emptied
    <3>3. Contains(k.ready[p], u)
      BY <2>4, <2>5, <2>7, <3>2
    <3>4. k.ready[p] # <<>>
      BY <3>1, <3>3, Emptied
    <3> QED BY <2>3, <2>4, <2>5, <2>7, <3>4 DEF Tops
  <2>14. Sound(k')
    <3>1. Ready(Idle, k')
      BY <2>2, <2>3, <2>9, KernelAssumption
    <3> QED BY <2>10, <2>11, <2>12, <2>13, <3>1 DEF Sound
  <2>15. Rows(k') /\ Ahead(k')
    <3>1. Rows(k')
      BY <2>4, <2>5, <2>7 DEF Rows, Untouched, Kept
    <3>2. Ahead(k')
      BY <1>1, <2>4, <2>5, <2>7, <2>8 DEF Ahead, Kept
    <3> QED BY <3>1, <3>2
  <2>16. /\ idx' \in [Task -> Nat \ {0}] /\ idx'[t] = NextIdx(t) /\ idx'[c] = 1
         /\ \A u \in Task : u # t /\ u # c => idx'[u] = idx[u]
    <3>1. NextIdx(t) \in Nat \ {0}
      BY <1>1
    <3> QED BY <1>1, <2>1, <2>2, <3>1
  <2>17. /\ pc' \in [Task -> PcStates] /\ pc'[t] = "call" /\ pc'[c] = "call"
         /\ \A u \in Task : u # t /\ u # c => pc'[u] = pc[u]
    <3>1. "call" \in PcStates
      BY DEF PcStates
    <3> QED BY <1>1, <2>1, <2>2, <3>1
  <2>18. /\ after' \in [Task -> AfterStates]
         /\ \A u \in Task : u # c => after'[u] = after[u]
    <3>1. "call" \in AfterStates
      BY DEF AfterStates
    <3> QED BY <1>1, <2>1, <2>2, <3>1
  <2>19. last' \in [Task -> T]
    <3>1. 0 \in T
      BY KernelAssumption
    <3> HIDE DEF T
    <3> QED BY <1>1, <2>1, <2>2, <3>1
  <2>20. HoldInv'
    <3>1. \A u \in DOMAIN program :
            \/ idx'[u] = idx[u]
            \/ /\ idx'[u] = NextIdx(u)
               /\ \A m \in Mutex : Call(u) # [do |-> "take", sem |-> m] /\ Call(u) # [do |-> "give", sem |-> m]
            \/ idx'[u] = 1 /\ u \in Child
      BY <1>3, <1>4, <2>2, <2>16
    <3> QED BY <1>0, <1>2, <2>8, <3>1, HoldSame DEF Kept
  <2>21. PlacedInv'
    BY <1>0, <1>2, <1>4, <2>2, <2>9 DEF PlacedInv
  <2>22. StepTo("call", NextIdx(t), after[t], pc', idx', after', k')
    <3>1. Moves("call", NextIdx(t), after[t], pc', idx', after')
      BY <1>1, <2>2, <2>16, <2>17, <2>18 DEF Moves
    <3>2. /\ Ready(k'.cur, k') /\ ~Asleep(k'.cur, k') /\ ~k'.suspended /\ k'.dying # <<>>
          /\ \A p \in Sem : k'.lock[p] = -1
      BY <1>1, <1>3, <2>2, <2>6, <2>7, <2>8, <2>9 DEF Kept
    <3> QED BY <1>1, <3>1, <3>2 DEF StepTo, SuspendedPc, LockedPc
  <2>23. ListInv'
    BY <1>0, <1>1, <1>2, <2>14, <2>15, <2>19, <2>20, <2>21, <2>22, TaskStep
  <2>24. WaitTo("call", NextIdx(t), after[t], k')
    <3>1. \A u \in Started : Awake(u, k) => Awake(u, k')
      BY <1>0, <2>2, <2>9 DEF Awake
    <3>2. Call(k.cur).do # "take"
      BY <1>2
    <3> QED BY <2>8, <2>9, <3>1, <3>2 DEF WaitTo, Kept
  <2> QED BY <1>2, <2>22, <2>23, <2>24, WaitStep
<1> QED BY <1>5, <1>6

-------------------------------------------------------------------------------
(* The interrupts *)

(* What an interrupt has to do with the kernel's data to keep the invariant   *)
LEMMA HandlerStep ==
  ASSUME Inv, program' = program, pc' = pc, idx' = idx, after' = after, last' = last, child' = child,
         Sound(k'), Rows(k'), Ahead(k'), Forward(k, k'), k'.suspended = k.suspended, k'.left = k.left,
         k'.cur = k.cur \/ (~k.suspended /\ Ready(k'.cur, k')),
         k'.holder = k.holder, \A m \in Mutex : k'.full[m] = k.full[m],
         \A q \in Sem : /\ k'.lock[q] # -1 <=> k.lock[q] # -1
                        /\ k.lock[q] = 1 => k'.lock[q] = 1
                        /\ k'.lock[q] = 1 => k'.full[q]
                        /\ k'.full[q] /\ ~k.full[q] =>
                             \/ k'.lock[q] = 1
                             \/ /\ k.lock[q] = -1
                                /\ k.waiting[q] # <<>> =>
                                     \E u \in Task : Contains(k.waiting[q], u) /\ Awake(u, k')
  PROVE  Inv'
<1> DEFINE t == k.cur
<1>0. /\ ListInv /\ WaitInv /\ ProgInv /\ ReapInv /\ PlaceInv /\ TypeOK /\ Started \subseteq Task
  BY ProgramsAssumption DEF Inv, ListInv, TypeOK, Started
<1>1. /\ t \in DOMAIN program /\ t \in Task /\ k \in KernelData
      /\ pc \in [Task -> PcStates] /\ idx \in [Task -> Nat \ {0}] /\ after \in [Task -> AfterStates]
      /\ last \in [Task -> 0..TickModulus - 1] /\ child \in Child \cup {None}
      /\ k.suspended <=> pc[t] \in SuspendedPc
      /\ Ready(t, k) \/ Asleep(t, k)
      /\ Asleep(t, k) => pc[t] = "yield" \/ (pc[t] \in {"unlock", "resume"} /\ after[t] = "yield")
      /\ idx[t] \in 1..Len(program[t])
      /\ Call(t) \in KernelCall /\ Call(t).do \in CallsAt(pc[t])
      /\ \A p \in Sem : k.lock[p] # -1 <=> pc[t] \in LockedPc /\ Call(t).sem = p
  BY <1>0, RunningIs
<1> HIDE DEF t
<1>2. program[t][idx[t]] = Call(t)
  BY DEF Call
<1>3. HoldInv' /\ PlacedInv'
  BY <1>0, HoldSame, PlacedForward
<1>4. StepTo(pc[t], idx[t], after[t], pc', idx', after', k')
  <2>1. Moves(pc[t], idx[t], after[t], pc', idx', after')
    BY <1>1 DEF Moves, t
  <2>2. /\ pc[t] = "resume" /\ (after[t] \in {"create", "reap"} \/ Call(t).do \in {"create", "reap"}) =>
             Call(t).do = after[t]
        /\ pc[t] \in {"place", "unlock"} => after[t] \notin {"create", "reap"}
    BY <1>0, <1>1 DEF ProgInv
  <2>3. /\ Ready(k'.cur, k') \/ Asleep(k'.cur, k')
        /\ Asleep(k'.cur, k') => /\ k'.cur = t
                                 /\ pc[t] = "yield" \/ (pc[t] \in {"unlock", "resume"} /\ after[t] = "yield")
    <3>1. CASE k'.cur = t
      BY <1>1, <3>1 DEF Forward
    <3>2. CASE Ready(k'.cur, k')
      <4>1. ~Asleep(k'.cur, k')
        BY <3>2 DEF Sound, Lists, KernelData, Places, Ready
      <4> QED BY <3>2, <4>1
    <3> QED BY <3>1, <3>2 DEF t
  <2>4. /\ pc[t] \in {"insert", "resume", "reap"} /\ t = Idle => k'.dying # <<>>
        /\ k'.dying = k.dying
    BY <1>0 DEF ReapInv, Forward
  <2>5. pc[t] = "place" => k'.left[t] > 0 /\ after[t] = "yield"
    BY <1>0 DEF PlaceInv, t
  <2> QED BY <1>1, <1>2, <2>1, <2>2, <2>3, <2>4, <2>5 DEF StepTo, t
<1>5. ListInv'
  BY <1>0, <1>1, <1>3, <1>4, TaskStep
<1>6. WaitTo(pc[t], idx[t], after[t], k')
  <2>1. pc[t] = "place" \/ (pc[t] = "unlock" /\ after[t] = "yield") =>
          (k'.full[Call(t).sem] => k'.lock[Call(t).sem] = 1)
    <3> SUFFICES ASSUME pc[t] = "place" \/ (pc[t] = "unlock" /\ after[t] = "yield"), k'.full[Call(t).sem]
                 PROVE  k'.lock[Call(t).sem] = 1
      OBVIOUS
    <3>1. Call(t).sem \in Sem
      <4>1. Call(t).do = "take"
        BY <1>1 DEF CallsAt
      <4> QED BY <1>1, <4>1, CallIs
    <3>2. k.lock[Call(t).sem] # -1 /\ (k.full[Call(t).sem] => k.lock[Call(t).sem] = 1)
      BY <1>0, <1>1, <3>1 DEF LockedPc, WaitInv, t
    <3> QED BY <3>1, <3>2
  <2>2. ASSUME NEW q \in Sem, k'.full[q], k'.lock[q] = -1, k'.waiting[q] # <<>>
        PROVE  (k.full[q] /\ k.lock[q] = -1) \/ \E u \in Started : Takes(u, q) /\ Awake(u, k')
    <3>1. CASE k.full[q]
      BY <2>2, <3>1
    <3>2. CASE ~k.full[q]
      <4>1. k.waiting[q] # <<>>
        <5>1. k.waiting[q] \in Seq(Task) /\ k'.waiting[q] \in Seq(Task)
          BY <1>1, <2>2 DEF KernelData, Sound, Lists
        <5>2. PICK u \in Task : Contains(k'.waiting[q], u)
          BY <2>2, <5>1, Emptied
        <5>3. Contains(k.waiting[q], u)
          BY <2>2, <5>2 DEF Forward
        <5> QED BY <5>1, <5>3, Emptied
      <4>2. PICK u \in Task : Contains(k.waiting[q], u) /\ Awake(u, k')
        BY <2>2, <3>2, <4>1
      <4>3. u \in Started /\ Takes(u, q)
        BY <1>0, <2>2, <4>2 DEF WaitInv, Takes
      <4> QED BY <4>2, <4>3
    <3> QED BY <3>1, <3>2
  <2>3. \A q \in Sem : k'.full[q] /\ k'.lock[q] = -1 /\ k'.waiting[q] # <<>> =>
          \/ k.full[q] /\ k.lock[q] = -1
          \/ \E u \in Started : Takes(u, q) /\ (u = k.cur => idx[t] = idx[k.cur]) /\ Awake(u, k')
    BY <2>2 DEF t
  <2> QED BY <1>0, <1>2, <2>1, <2>3 DEF WaitTo, Forward, t
<1> QED BY <1>4, <1>5, <1>6, WaitStep

(* vTick *)
LEMMA TickStep ==
  ASSUME Inv, Tick
  PROVE  Inv'
<1> DEFINE z == vTaskIncrementTick(k)
<1>0. /\ ListInv /\ k \in KernelData /\ Sound(k) /\ Rows(k) /\ Ahead(k) /\ LockInv
  BY DEF Inv, ListInv, TypeOK
<1>1. /\ k.missed < MaxMissed /\ k' = vTaskSwitchContext(z)
      /\ program' = program /\ pc' = pc /\ idx' = idx /\ after' = after /\ last' = last /\ child' = child
  BY DEF Tick
<1>2. /\ Sound(z) /\ Rows(z) /\ Ahead(z) /\ Forward(k, z)
      /\ z.suspended = k.suspended /\ z.left = k.left /\ z.cur = k.cur
      /\ z.full = k.full /\ z.holder = k.holder /\ z.lock = k.lock
  <2>1. CASE k.suspended
    <3>1. z = [k EXCEPT !.missed = @ + 1]
      BY <2>1 DEF vTaskIncrementTick
    <3>2. k.missed + 1 \in 0..MaxMissed
      <4>1. k.missed \in 0..MaxMissed
        BY <1>0 DEF KernelData
      <4> QED BY <1>1, <4>1, KernelAssumption
    <3> HIDE DEF z
    <3>3. z \in KernelData /\ SameLists(k, z)
      BY <1>0, <3>1, <3>2 DEF KernelData, SameLists
    <3>4. /\ z.suspended = k.suspended /\ z.left = k.left /\ z.cur = k.cur
          /\ z.full = k.full /\ z.holder = k.holder /\ z.lock = k.lock
      BY <1>0, <3>1 DEF KernelData
    <3> QED BY <1>0, <3>3, <3>4, SameListsIs
  <2>2. CASE ~k.suspended
    BY <1>0, <2>2, IncrementTickIs DEF Unticked
  <2> QED BY <2>1, <2>2
<1> HIDE DEF z
<1>3. /\ Sound(k') /\ Kept(z, k') /\ Forward(z, k')
      /\ k'.wake = z.wake /\ k'.delayed = z.delayed /\ k'.overflow = z.overflow
      /\ k'.cur = z.cur \/ (~z.suspended /\ Ready(k'.cur, k'))
  BY <1>1, <1>2, SwitchIs
<1>4. Rows(k') /\ Ahead(k') /\ Forward(k, k')
  BY <1>2, <1>3, ForwardTwice DEF Rows, Ahead, Kept
<1>5. /\ k'.suspended = k.suspended /\ k'.left = k.left
      /\ k'.full = k.full /\ k'.holder = k.holder /\ k'.lock = k.lock
      /\ k'.cur = k.cur \/ (~k.suspended /\ Ready(k'.cur, k'))
  BY <1>2, <1>3 DEF Kept
<1> QED BY <1>0, <1>1, <1>3, <1>4, <1>5, HandlerStep DEF LockInv

(* An interrupt that gives a semaphore                                        *)
LEMMA InterruptStep ==
  ASSUME Inv, NEW q \in IsrSem, Interrupt(q)
  PROVE  Inv'
<1>0. /\ ListInv /\ k \in KernelData /\ Sound(k) /\ Rows(k) /\ Ahead(k) /\ LockInv /\ HoldInv
  BY DEF Inv, ListInv, TypeOK
<1>1. /\ ~k.full[q] /\ k' = GenericSendFromISR(q, k)
      /\ program' = program /\ pc' = pc /\ idx' = idx /\ after' = after /\ last' = last /\ child' = child
  BY DEF Interrupt
<1>2. q \in Sem /\ q \notin Mutex /\ k.lock[q] # 1 /\ k.lock[q] \in {-1, 0}
  BY <1>0, <1>1, KernelAssumption DEF LockInv, KernelData
<1>3. /\ Sound(k') /\ Rows(k') /\ Ahead(k') /\ Forward(k, k') /\ Ungiven(k, k')
      /\ k'.holder = [k.holder EXCEPT ![q] = None] /\ k'.full = [k.full EXCEPT ![q] = TRUE]
      /\ k'.lock = [k.lock EXCEPT ![q] = IF @ = -1 THEN -1 ELSE 1]
      /\ k'.cur = k.cur \/ (~k.suspended /\ Ready(k'.cur, k'))
      /\ k.lock[q] = -1 /\ k.waiting[q] # <<>> =>
           \E u \in Task : Contains(k.waiting[q], u) /\ Awake(u, k')
  BY <1>0, <1>1, <1>2, SendFromISRIs
<1>4. k'.holder = k.holder
  BY <1>0, <1>2, <1>3 DEF HoldInv, KernelData
<1>5. /\ k'.full[q] /\ k'.lock[q] = (IF k.lock[q] = -1 THEN -1 ELSE 1)
      /\ \A p \in Sem : p # q => k'.full[p] = k.full[p] /\ k'.lock[p] = k.lock[p]
  BY <1>0, <1>2, <1>3 DEF KernelData
<1>6. \A m \in Mutex : k'.full[m] = k.full[m]
  BY <1>2, <1>5, KernelAssumption
<1>7. ASSUME NEW p \in Sem
      PROVE  /\ k'.lock[p] # -1 <=> k.lock[p] # -1
             /\ k.lock[p] = 1 => k'.lock[p] = 1
             /\ k'.lock[p] = 1 => k'.full[p]
             /\ k'.full[p] /\ ~k.full[p] =>
                  \/ k'.lock[p] = 1
                  \/ /\ k.lock[p] = -1
                     /\ k.waiting[p] # <<>> => \E u \in Task : Contains(k.waiting[p], u) /\ Awake(u, k')
  <2>1. CASE p = q
    BY <1>2, <1>3, <1>5, <2>1
  <2>2. CASE p # q
    BY <1>0, <1>5, <2>2 DEF LockInv
  <2> QED BY <2>1, <2>2
<1>8. k'.suspended = k.suspended /\ k'.left = k.left
  BY <1>3 DEF Ungiven
<1> QED BY <1>1, <1>3, <1>4, <1>6, <1>7, <1>8, HandlerStep

-------------------------------------------------------------------------------
(* The start *)

(* SetToSeq lists every element of a finite set once.                         *)
LEMMA SetToSeqIs ==
  ASSUME NEW T, NEW S, S \subseteq T, IsFiniteSet(S)
  PROVE  LET r == SetToSeq(S)
         IN r \in Seq(T) /\ NoDup(r) /\ \A u : Contains(r, u) <=> u \in S
<1> DEFINE C == Cardinality(S)
           r == SetToSeq(S)
<1>1. C \in Nat /\ ExistsBijection(1..C, S)
  BY FS_CardinalityType
<1>2. \E f \in [1..C -> S] : IsInjective(f)
  BY <1>1 DEF ExistsBijection, Bijection, Injection
<1>3. r \in [1..C -> S] /\ IsInjective(r)
  BY <1>2 DEF SetToSeq
<1> HIDE DEF r
<1>4. r \in Surjection(1..C, S)
  <2>1. r \in Injection(1..C, S)
    BY <1>3 DEF Injection
  <2>2. Cardinality(1..C) = C
    BY <1>1, FS_Interval
  <2> QED BY <2>1, <2>2, FS_Injection
<1>5. r \in Seq(T) /\ Len(r) = C
  BY <1>1, <1>3
<1>6. \A u \in S : \E i \in 1..C : r[i] = u
  BY <1>4 DEF Surjection
<1> HIDE DEF C
<1>7. NoDup(r)
  BY <1>3, <1>5 DEF NoDup, IsInjective
<1>8. \A u : Contains(r, u) <=> u \in S
  BY <1>3, <1>5, <1>6 DEF Contains
<1> QED BY <1>5, <1>7, <1>8 DEF r

(* The invariant holds when the scheduler starts.                             *)
LEMMA InitInv == Init => Inv
<1> SUFFICES ASSUME Init PROVE Inv
  OBVIOUS
<1> DEFINE T == 0..TickModulus - 1
           L == 0..Forever
           rank(p) == {t \in Started : BasePriority[t] = p}
<1>1. /\ program \in Programs /\ DOMAIN program \subseteq Task /\ Idle \in DOMAIN program
      /\ Started \subseteq Task /\ Idle \in Started /\ IsFiniteSet(Started)
  <2>1. program \in Programs
    BY DEF Init
  <2>2. /\ DOMAIN program \subseteq Task /\ Idle \in DOMAIN program
        /\ Started \subseteq Task /\ Idle \in Started
    BY <2>1, ProgramsAssumption, KernelAssumption DEF Started
  <2> QED BY <2>1, <2>2, FS_Subset, KernelAssumption
<1>2. /\ pc = [t \in Task |-> "call"] /\ idx = [t \in Task |-> 1] /\ after = [t \in Task |-> "call"]
      /\ last = [t \in Task |-> 0] /\ child = None
  BY DEF Init
<1>3. /\ k.cur = CHOOSE t \in Started : \A u \in Started : BasePriority[u] <= BasePriority[t]
      /\ k.ready = [p \in Priorities |-> SetToSeq(rank(p))]
      /\ k.top = Max(Priorities)
      /\ k.delayed = <<>> /\ k.overflow = <<>> /\ k.pending = <<>> /\ k.dying = <<>>
      /\ k.tick = 0 /\ k.missed = 0 /\ k.suspended = FALSE /\ k.missedYield = FALSE
      /\ k.prio = BasePriority /\ k.wake = [t \in Task |-> 0]
      /\ k.left = [t \in Task |-> 0] /\ k.entered = [t \in Task |-> 0] /\ k.wrapped = [t \in Task |-> FALSE]
      /\ k.full = [q \in Sem |-> TRUE] /\ k.holder = [q \in Sem |-> None]
      /\ k.lock = [q \in Sem |-> -1] /\ k.waiting = [q \in Sem |-> <<>>]
  BY DEF Init
<1>4. k = [cur |-> k.cur, ready |-> k.ready, top |-> k.top,
           delayed |-> k.delayed, overflow |-> k.overflow, pending |-> k.pending, dying |-> k.dying,
           tick |-> k.tick, missed |-> k.missed, suspended |-> k.suspended, missedYield |-> k.missedYield,
           prio |-> k.prio, wake |-> k.wake, left |-> k.left, entered |-> k.entered, wrapped |-> k.wrapped,
           full |-> k.full, holder |-> k.holder, lock |-> k.lock, waiting |-> k.waiting]
  BY DEF Init
<1>5. k.cur \in Started
  <2> DEFINE A == {BasePriority[t] : t \in Started}
  <2>1. A \subseteq Nat /\ A # {}
    BY <1>1, KernelAssumption
  <2>2. IsFiniteSet(A)
    <3> DEFINE f == [t \in Started |-> BasePriority[t]]
    <3>1. f \in Surjection(Started, A)
      BY DEF Surjection
    <3> QED BY <1>1, <3>1, FS_Surjection
  <2>3. PICK b \in A : \A n \in A : n <= b
    BY <2>1, <2>2, FiniteMax
  <2>4. \E t \in Started : \A u \in Started : BasePriority[u] <= BasePriority[t]
    BY <2>3
  <2> QED BY <1>3, <2>4
<1>6. \A p \in Priorities : /\ k.ready[p] \in Seq(Task) /\ NoDup(k.ready[p])
                            /\ \A u : Contains(k.ready[p], u) <=> u \in Started /\ BasePriority[u] = p
  <2> SUFFICES ASSUME NEW p \in Priorities
               PROVE  /\ k.ready[p] \in Seq(Task) /\ NoDup(k.ready[p])
                      /\ \A u : Contains(k.ready[p], u) <=> u \in rank(p)
    OBVIOUS
  <2>1. rank(p) \subseteq Task /\ IsFiniteSet(rank(p))
    BY <1>1, FS_Subset
  <2>2. k.ready[p] = SetToSeq(rank(p))
    BY <1>3
  <2> HIDE DEF rank
  <2> QED BY <2>1, <2>2, SetToSeqIs
<1>7. k \in KernelData
  <2>1. /\ 0 \in T /\ 0 \in L /\ 0 \in 0..MaxMissed /\ -1 \in -1..1
    BY KernelAssumption DEF Forever
  <2>2. k.ready \in [Priorities -> Seq(Task)]
    BY <1>3, <1>6
  <2>3. k.cur \in Task /\ k.top \in Priorities /\ k.prio \in [Task -> Priorities]
    BY <1>1, <1>3, <1>5, PrioritiesAre
  <2>4. <<>> \in Seq(Task) /\ k.waiting \in [Sem -> Seq(Task)]
    BY <1>3
  <2>5. k.lock \in [Sem -> -1..1] /\ k.full \in [Sem -> BOOLEAN] /\ k.holder \in [Sem -> Task \cup {None}]
    BY <1>3
  <2> HIDE DEF T, L
  <2>6. /\ k.wake \in [Task -> T] /\ k.left \in [Task -> L] /\ k.entered \in [Task -> T]
        /\ k.wrapped \in [Task -> BOOLEAN]
    BY <1>3, <2>1
  <2>7. /\ k.delayed \in Seq(Task) /\ k.overflow \in Seq(Task) /\ k.pending \in Seq(Task) /\ k.dying \in Seq(Task)
        /\ k.tick \in T /\ k.missed \in 0..MaxMissed /\ k.suspended \in BOOLEAN /\ k.missedYield \in BOOLEAN
    BY <1>3, <2>1, <2>4
  <2> QED BY <1>4, <2>2, <2>3, <2>4, <2>5, <2>6, <2>7 DEF KernelData, T, L
<1>8. \A u : ~Contains(<<>>, u)
  BY DEF Contains
<1>9. /\ \A u \in Task : Ready(u, k) <=> u \in Started
      /\ \A u \in Task : ~Asleep(u, k) /\ ~Contains(k.pending, u) /\ ~Contains(k.dying, u)
      /\ \A q \in Sem, u \in Task : ~Contains(k.waiting[q], u)
  <2>1. \A u \in Started : BasePriority[u] \in Priorities
    BY <1>1, PrioritiesAre
  <2>2. \A u \in Task : Ready(u, k) <=> u \in Started
    BY <1>6, <2>1 DEF Ready
  <2>3. \A u \in Task : ~Asleep(u, k) /\ ~Contains(k.pending, u) /\ ~Contains(k.dying, u)
    BY <1>3, <1>8 DEF Asleep
  <2>4. \A q \in Sem, u \in Task : ~Contains(k.waiting[q], u)
    BY <1>3, <1>8
  <2> QED BY <2>2, <2>3, <2>4
<1>10. Sound(k)
  <2>1. NoDup(<<>>)
    BY DEF NoDup
  <2>2. Lists(k)
    <3>1. \A q \in Sem : k.waiting[q] = <<>>
      BY <1>3
    <3> QED BY <1>3, <1>6, <1>7, <2>1, <3>1 DEF Lists
  <2>3. Places(k)
    BY <1>3, <1>6, <1>8, <1>9 DEF Places
  <2>4. Events(k)
    BY <1>9 DEF Events
  <2>5. Tops(k)
    BY <1>3, PrioritiesAre DEF Tops
  <2>6. Ready(Idle, k)
    BY <1>1, <1>9
  <2> QED BY <2>2, <2>3, <2>4, <2>5, <2>6 DEF Sound
<1>11. Rows(k) /\ Ahead(k)
  BY <1>3, <1>8 DEF Rows, Ahead, Sorted
<1>12. TypeOK
  <2>1. "call" \in PcStates /\ 1 \in Nat \ {0} /\ 0 \in T
    BY KernelAssumption DEF PcStates
  <2> HIDE DEF T
  <2>2. /\ pc \in [Task -> PcStates] /\ idx \in [Task -> Nat \ {0}]
        /\ after \in [Task -> {"call", "yield", "fail", "create", "reap"}]
        /\ last \in [Task -> T]
    BY <1>2, <2>1
  <2> QED BY <1>1, <1>2, <1>7, <2>2 DEF TypeOK, T
<1>13. RunInv /\ PlacedInv
  <2>1. k.cur \in Task /\ k.cur \in DOMAIN program /\ \A u \in Task : pc[u] = "call"
    BY <1>1, <1>2, <1>5 DEF Started
  <2>2. RunInv
    BY <1>3, <1>5, <1>9, <2>1 DEF RunInv, SuspendedPc
  <2>3. PlacedInv
    BY <1>1, <1>2, <1>9 DEF PlacedInv, Started
  <2> QED BY <2>2, <2>3
<1>14. ProgInv /\ PlaceInv /\ ReapInv /\ LockInv
  <2>1. \A u \in Task : pc[u] = "call" /\ idx[u] = 1
    BY <1>2
  <2>2. \A u \in DOMAIN program : u \in Task /\ 1 \in 1..Len(program[u]) /\ program[u][1] \in KernelCall
    BY <1>1, ProgramsAssumption
  <2>3. ProgInv
    BY <2>1, <2>2, CallIs DEF ProgInv, Call
  <2>4. k.cur \in Task /\ Idle \in Task
    BY <1>1, <1>5
  <2> QED BY <1>3, <2>1, <2>3, <2>4 DEF PlaceInv, ReapInv, LockInv, LockedPc
<1>15. HoldInv
  <2>1. \A u \in DOMAIN program : u \in Task /\ u # None /\ idx[u] = 1
    BY <1>1, <1>2, KernelAssumption
  <2>2. \A u : Held(program, u, 1) = {}
    BY DEF Held
  <2> QED BY <1>3, <2>1, <2>2, KernelAssumption DEF HoldInv
<1>16. ListInv
  BY <1>10, <1>11, <1>12, <1>13, <1>14, <1>15 DEF ListInv
<1>17. WaitInv /\ NoLostWakeup
  <2>1. pc[k.cur] = "call" /\ \A q \in Sem : k.waiting[q] = <<>>
    BY <1>1, <1>2, <1>3, <1>5
  <2> QED BY <1>9, <2>1 DEF WaitInv, NoLostWakeup
<1> QED BY <1>16, <1>17 DEF Inv

-------------------------------------------------------------------------------
(* Who is woken *)

(* At most the first of those who wait for q has left the list of q, and      *)
(* nobody any other list.                                                     *)
Woken(s, r, q) ==
  /\ \A p \in Sem \ {q} : r.waiting[p] = s.waiting[p]
  /\ r.waiting[q] = s.waiting[q] \/ (s.waiting[q] # <<>> /\ r.waiting[q] = Tail(s.waiting[q]))
  /\ \A u \in Task : Asleep(u, r) => r.wake[u] = s.wake[u]

(* The first of those who wait for q is ready.                                *)
Served(s, r, q) ==
  s.waiting[q] # <<>> => r.waiting[q] = Tail(s.waiting[q]) /\ Ready(Head(s.waiting[q]), r)

(* After a switch the most urgent ready task runs, and while the scheduler is *)
(* suspended there is none.                                                   *)
LEMMA SwitchUrgent ==
  ASSUME NEW s, Sound(s), Urgent(s) \/ ~s.suspended
  PROVE  Urgent(vTaskSwitchContext(s))
<1> DEFINE r == vTaskSwitchContext(s)
<1>1. /\ Sound(r) /\ r.prio = s.prio
      /\ \A p \in Priorities, u \in Task : Contains(r.ready[p], u) <=> Contains(s.ready[p], u)
      /\ IF s.suspended THEN r.cur = s.cur
         ELSE \A p \in Priorities : p > r.prio[r.cur] => r.ready[p] = <<>>
  BY SwitchIs
<1> HIDE DEF r
<1>2. CASE s.suspended
  BY <1>1, <1>2 DEF Urgent, Ready, r
<1>3. CASE ~s.suspended
  BY <1>1, <1>3, UrgentIs DEF r
<1> QED BY <1>2, <1>3 DEF r

(* Who has been woken and is as urgent as the running task takes its place.   *)
LEMMA WokenIs ==
  ASSUME NEW a, Sound(a), NEW q \in Sem
  PROVE  LET b == RemoveFromEventList(q, a)
             r == IF Outranks(q, a) THEN vTaskSwitchContext(b) ELSE b
         IN /\ Woken(a, r, q) /\ r.prio = a.prio
            /\ Urgent(a) \/ (Outranks(q, a) /\ ~a.suspended) => Urgent(r)
            /\ ~a.suspended => Served(a, r, q)
<1> DEFINE b == RemoveFromEventList(q, a)
           r == IF Outranks(q, a) THEN vTaskSwitchContext(b) ELSE b
<1>1. Sound(b) /\ Untouched(a, b) /\ Popped(a, b, q)
  BY RemoveFromEventListIs
<1> HIDE DEF b
<1>2. Woken(a, b, q) /\ b.prio = a.prio /\ b.cur = a.cur /\ b.suspended = a.suspended
  <2>1. a.waiting[q] = <<>> => b.waiting[q] = a.waiting[q]
    BY DEF RemoveFromEventList, b
  <2> QED BY <1>1, <2>1 DEF Woken, Popped, Untouched, Kept
<1>3. CASE ~Outranks(q, a)
  <2>1. Urgent(a) => Urgent(b)
    <3> SUFFICES ASSUME Urgent(a), NEW u \in Task, Ready(u, b) PROVE a.prio[u] <= a.prio[a.cur]
      BY <1>2 DEF Urgent
    <3>1. CASE Ready(u, a)
      BY <3>1 DEF Urgent
    <3>2. CASE a.waiting[q] # <<>> /\ u = Head(a.waiting[q])
      <4>1. ~(a.prio[u] >= a.prio[a.cur])
        BY <1>3, <3>2 DEF Outranks
      <4>2. a.prio[u] \in Nat /\ a.prio[a.cur] \in Nat
        BY PrioritiesAre DEF Sound, Lists, KernelData
      <4> QED BY <4>1, <4>2
    <3> QED BY <1>1, <3>1, <3>2 DEF Popped
  <2>2. ~a.suspended => Served(a, b, q)
    BY <1>1 DEF Popped, Served
  <2> QED BY <1>2, <1>3, <2>1, <2>2 DEF b
<1>4. CASE Outranks(q, a)
  <2>1. r = vTaskSwitchContext(b)
    BY <1>4
  <2> HIDE DEF r
  <2>2. /\ r.prio = b.prio /\ r.wake = b.wake /\ r.waiting = b.waiting
        /\ r.delayed = b.delayed /\ r.overflow = b.overflow
    BY <1>1, <2>1, SwitchIs
  <2>3. Woken(a, r, q)
    BY <1>2, <2>2 DEF Woken, Asleep
  <2>4. ~a.suspended => Urgent(r)
    BY <1>1, <1>2, <2>1, SwitchUrgent
  <2>5. a.suspended /\ Urgent(a) => Urgent(r)
    <3> SUFFICES ASSUME a.suspended, Urgent(a) PROVE Urgent(r)
      OBVIOUS
    <3>1. Urgent(b)
      BY <1>1, <1>2 DEF Urgent, Popped
    <3> QED BY <1>1, <2>1, <3>1, SwitchUrgent
  <2>6. ~a.suspended => Served(a, r, q)
    <3>1. \A p \in Priorities, u \in Task : Contains(r.ready[p], u) <=> Contains(b.ready[p], u)
      BY <1>1, <2>1, SwitchIs
    <3>2. a.waiting[q] # <<>> => Head(a.waiting[q]) \in Task
      <4>1. a.waiting[q] \in Seq(Task)
        BY DEF Sound, Lists, KernelData
      <4> QED BY <4>1
    <3> QED BY <1>1, <2>2, <3>1, <3>2 DEF Popped, Served, Ready
  <2> QED BY <1>2, <1>4, <2>2, <2>3, <2>4, <2>5, <2>6 DEF r, b
<1> QED BY <1>3, <1>4

(* A give by a task                                                           *)
LEMMA SendWakes ==
  ASSUME NEW s, Sound(s), Rows(s), Ahead(s), ~s.suspended, NEW q \in Sem, ~s.full[q],
         q \in Mutex /\ s.holder[q] # None => Ready(s.holder[q], s)
  PROVE  LET a == CopyDataToQueue(q, s)
             r == GenericSend(q, s)
         IN /\ Woken(s, r, q) /\ Served(s, r, q) /\ r.prio = a.prio
            /\ Urgent(a) \/ Outranks(q, a) => Urgent(r)
<1> DEFINE a == CopyDataToQueue(q, s)
           r == GenericSend(q, s)
<1>1. /\ Sound(a) /\ Ungiven(s, a) /\ a.waiting = s.waiting /\ Forward(s, a)
      /\ Lowered(s, a, q)
  BY CopyDataToQueueIs
<1> DEFINE b == RemoveFromEventList(q, a)
<1>2. r = IF Outranks(q, a) THEN vTaskSwitchContext(b) ELSE b
  BY DEF GenericSend
<1> HIDE DEF a
<1>3. /\ Woken(a, r, q) /\ r.prio = a.prio
      /\ Urgent(a) \/ (Outranks(q, a) /\ ~a.suspended) => Urgent(r)
      /\ ~a.suspended => Served(a, r, q)
  BY <1>1, <1>2, WokenIs
<1>4. Forward(s, r)
  BY GenericSendIs
<1> HIDE DEF r, b
<1>5. \A u \in Task : Asleep(u, r) => Asleep(u, a)
  <2>1. \A u \in Task : Asleep(u, b) => Asleep(u, a)
    BY <1>1, RemoveFromEventListIs DEF b, Forward
  <2>2. Sound(b)
    BY <1>1, RemoveFromEventListIs DEF b
  <2>3. r = b \/ (r.delayed = b.delayed /\ r.overflow = b.overflow)
    BY <1>2, <2>2, SwitchIs
  <2> QED BY <2>1, <2>3 DEF Asleep
<1>6. Woken(s, r, q)
  BY <1>1, <1>3, <1>5 DEF Woken, Lowered
<1>7. Served(s, r, q)
  BY <1>1, <1>3 DEF Ungiven, Served
<1> QED BY <1>1, <1>3, <1>6, <1>7 DEF Ungiven, a, r

(* A give by an interrupt                                                     *)
LEMMA SendFromISRWakes ==
  ASSUME NEW s, Sound(s), Rows(s), Ahead(s), NEW q \in Sem \ Mutex, s.lock[q] # 1
  PROVE  LET r == GenericSendFromISR(q, s)
         IN Woken(s, r, q) /\ r.prio = s.prio /\ (Urgent(s) => Urgent(r))
<1> DEFINE a == CopyDataToQueue(q, s)
           b == RemoveFromEventList(q, a)
           r == GenericSendFromISR(q, s)
<1>1. /\ Sound(a) /\ a.waiting = s.waiting /\ a.prio = s.prio /\ a.cur = s.cur
      /\ \A u \in Task : Asleep(u, a) => a.wake[u] = s.wake[u]
      /\ \A u \in Task : Ready(u, a) <=> Ready(u, s)
  <2>1. Sound(a) /\ a.waiting = s.waiting /\ a.cur = s.cur /\ Lowered(s, a, q)
    BY CopyDataToQueueIs
  <2> HIDE DEF a
  <2> QED BY <2>1 DEF Lowered
<1>2. r = IF s.lock[q] # -1 THEN [a EXCEPT !.lock[q] = @ + 1]
          ELSE IF Outranks(q, a) THEN vTaskSwitchContext(b) ELSE b
  BY DEF GenericSendFromISR
<1> HIDE DEF a, r
<1>3. Urgent(s) => Urgent(a)
  BY <1>1 DEF Urgent
<1>4. CASE s.lock[q] # -1
  <2>1. a \in KernelData
    BY <1>1 DEF Sound, Lists
  <2>2. /\ r.prio = a.prio /\ r.waiting = a.waiting /\ r.wake = a.wake /\ r.ready = a.ready
        /\ r.delayed = a.delayed /\ r.overflow = a.overflow /\ r.cur = a.cur
    BY <1>2, <1>4, <2>1 DEF KernelData
  <2> QED BY <1>1, <1>3, <2>2 DEF Woken, Urgent, Ready, Asleep, r
<1>5. CASE s.lock[q] = -1
  <2>1. r = IF Outranks(q, a) THEN vTaskSwitchContext(b) ELSE b
    BY <1>2, <1>5
  <2>2. Woken(a, r, q) /\ r.prio = a.prio /\ (Urgent(a) => Urgent(r))
    BY <1>1, <2>1, WokenIs
  <2> HIDE DEF b
  <2>3. \A u \in Task : Asleep(u, r) => Asleep(u, a)
    <3>1. Sound(b) /\ \A u \in Task : Asleep(u, b) => Asleep(u, a)
      BY <1>1, RemoveFromEventListIs DEF b, Forward
    <3>2. r = b \/ (r.delayed = b.delayed /\ r.overflow = b.overflow)
      BY <2>1, <3>1, SwitchIs
    <3> QED BY <3>1, <3>2 DEF Asleep
  <2> QED BY <1>1, <1>3, <2>2, <2>3 DEF Woken, r
<1> QED BY <1>4, <1>5

(* Nobody is made ready by prvUnlockQueue: the scheduler is suspended.        *)
LEMMA UnlockWakes ==
  ASSUME NEW s, Sound(s), Rows(s), Ahead(s), s.suspended, NEW q \in Sem
  PROVE  LET r == UnlockQueue(q, s)
         IN /\ Woken(s, r, q) /\ r.prio = s.prio /\ (Urgent(s) => Urgent(r))
            /\ s.lock[q] # 1 => r.waiting = s.waiting
<1> DEFINE a == RemoveFromEventList(q, s)
           b == IF s.lock[q] > 0 THEN [a EXCEPT !.missedYield = @ \/ Outranks(q, s)] ELSE s
           r == UnlockQueue(q, s)
<1>0. s.lock[q] \in -1..1 /\ s \in KernelData
  BY DEF Sound, Lists, KernelData
<1>1. Sound(a) /\ Untouched(s, a) /\ Popped(s, a, q)
  BY RemoveFromEventListIs
<1>2. r = [b EXCEPT !.lock[q] = -1]
  BY DEF UnlockQueue
<1> HIDE DEF a, r
<1>3. CASE s.lock[q] > 0
  <2>1. a \in KernelData
    BY <1>1 DEF Sound, Lists
  <2>2. /\ r.prio = a.prio /\ r.waiting = a.waiting /\ r.wake = a.wake /\ r.ready = a.ready
        /\ r.delayed = a.delayed /\ r.overflow = a.overflow /\ r.cur = a.cur
    BY <1>2, <1>3, <2>1 DEF KernelData
  <2>3. Urgent(s) => Urgent(r)
    BY <1>1, <2>2 DEF Urgent, Popped, Ready, Untouched
  <2>4. Woken(s, r, q)
    <3>1. s.waiting[q] = <<>> => a.waiting[q] = s.waiting[q]
      BY DEF RemoveFromEventList, a
    <3> QED BY <1>1, <2>2, <3>1 DEF Popped, Woken, Asleep
  <2>5. s.lock[q] = 1 /\ r.prio = s.prio
    BY <1>0, <1>1, <1>3, <2>2 DEF Popped
  <2> QED BY <2>3, <2>4, <2>5 DEF r
<1>4. CASE ~(s.lock[q] > 0)
  <2>1. /\ r.prio = s.prio /\ r.waiting = s.waiting /\ r.wake = s.wake /\ r.ready = s.ready
        /\ r.delayed = s.delayed /\ r.overflow = s.overflow /\ r.cur = s.cur
    BY <1>0, <1>2, <1>4 DEF KernelData
  <2> QED BY <2>1 DEF Woken, Urgent, Ready, r
<1> QED BY <1>3, <1>4
-------------------------------------------------------------------------------
(* The inductive invariant of urgency *)

UrgentInv == Urgent(k)

(* Only the holder of a mutex has a priority above its own, and a task at     *)
(* least as urgent by its own priority waits for that mutex.                  *)
RaisedInv ==
  \A t \in Task : k.prio[t] # BasePriority[t] =>
    /\ k.prio[t] > BasePriority[t]
    /\ \E m \in Mutex : /\ k.holder[m] = t
                        /\ \E w \in Task : Contains(k.waiting[m], w) /\ BasePriority[w] >= k.prio[t]

(* Who waits for a mutex holds none, and wakes when its time is over; the     *)
(* most urgent comes first, and the mutex is not given under a lock.          *)
WaitersInv ==
  \A m \in Mutex :
    /\ k.lock[m] # 1
    /\ \A i, j \in 1..Len(k.waiting[m]) : i < j => BasePriority[k.waiting[m][i]] >= BasePriority[k.waiting[m][j]]
    /\ \A w \in Task : Contains(k.waiting[m], w) =>
         /\ Held(program, w, idx[w]) = {}
         /\ k.left[w] > 0 /\ k.wake[w] = (k.entered[w] + k.left[w]) % TickModulus

(* The time of nobody who wants a mutex is over, the missed ticks included.   *)
ShortInv ==
  /\ ~k.suspended => k.missed = 0
  /\ pc[k.cur] = "place" => k.entered[k.cur] = k.tick
  /\ \A t \in DOMAIN program : k.left[t] > 0 =>
       /\ Call(t).do = "take"
       /\ Call(t).sem \in Mutex => Elapsed(t, k) + k.missed < k.left[t]

Ranks == UrgentInv /\ RaisedInv /\ WaitersInv /\ ShortInv

(* Who holds a mutex is ready, and between two calls.                         *)
HolderInv == \A t \in DOMAIN program : Held(program, t, idx[t]) # {} => pc[t] = "call" /\ Ready(t, k)

(* While nobody holds a mutex, somebody who is ready and at least as urgent   *)
(* as any who wait for it is going to take it.                                *)
WakerInv ==
  \A m \in Mutex : k.holder[m] = None => \A w \in Task : Contains(k.waiting[m], w) =>
    \E u \in DOMAIN program : Takes(u, m) /\ Ready(u, k) /\ BasePriority[u] >= BasePriority[w]

(* The holder of a mutex is at least as urgent as any who wait for it, or     *)
(* nobody else is as urgent as the holder is by its own priority: it has lost *)
(* what it inherited with a mutex it had taken inside this one.               *)
Alone(h, w) == \A u \in DOMAIN program \ {h} : BasePriority[u] >= BasePriority[h] => u = w
BoundInv ==
  \A m \in Mutex, h \in Task : k.holder[m] = h => \A w \in Task : Contains(k.waiting[m], w) =>
    k.prio[h] >= BasePriority[w] \/ Alone(h, w)

Bounds == HolderInv /\ WakerInv /\ BoundInv

-------------------------------------------------------------------------------
(* Times *)

(* Ticks add up as long as they are fewer than the counter can tell apart, so *)
(* that a task whose time is not over is not woken.                           *)
LEMMA ElapsedOn ==
  ASSUME NEW a \in 0..TickModulus - 1, NEW b \in 0..TickModulus - 1, NEW left \in 0..TickModulus - 1,
         NEW n \in Nat, ((a - b) % TickModulus) + n < left
  PROVE  /\ (a - b) % TickModulus \in Nat
         /\ (((a + n) % TickModulus) - b) % TickModulus = ((a - b) % TickModulus) + n
         /\ (a + n - b) % TickModulus = ((a - b) % TickModulus) + n
         /\ (b + left) % TickModulus # (a + n) % TickModulus
<1> DEFINE M == TickModulus
<1>0. M \in Nat /\ M > 2
  BY KernelAssumption
<1> HIDE DEF M
<1>1. PICK d \in Int : d = a - b /\ -M <= d /\ d < 2 * M /\ -M < d /\ d < M
  BY <1>0 DEF M
<1>2. PICK e \in Int : e = (a - b) % M /\ e = (IF d < 0 THEN d + M ELSE d) /\ e \in 0..M - 1
  <2>1. d % M = IF d < 0 THEN d + M ELSE IF d < M THEN d ELSE d - M
    BY <1>0, <1>1, Mod
  <2> QED BY <1>0, <1>1, <2>1
<1>3. e + n < left /\ left < M /\ a < M /\ b < M
  BY <1>0, <1>2 DEF M
<1>4. PICK c \in Int : c = a + n /\ -M <= c /\ c < 2 * M
  BY <1>0, <1>2, <1>3
<1>5. PICK f \in Int : f = (a + n) % M /\ f = (IF c < M THEN c ELSE c - M)
  <2>1. c % M = IF c < 0 THEN c + M ELSE IF c < M THEN c ELSE c - M
    BY <1>0, <1>4, Mod
  <2> QED BY <1>0, <1>4, <2>1
<1>6. (f - b) % M = e + n
  <2>1. PICK g \in Int : g = f - b /\ -M <= g /\ g < 2 * M
    <3>1. f \in 0..M - 1 /\ b \in 0..M - 1
      BY <1>0, <1>2, <1>3, <1>4, <1>5 DEF M
    <3>2. f - b \in Int /\ -M <= f - b /\ f - b < 2 * M
      BY <1>0, <3>1
    <3> QED BY <3>2
  <2>2. g % M = IF g < 0 THEN g + M ELSE IF g < M THEN g ELSE g - M
    BY <1>0, <2>1, Mod
  <2>3. g % M = e + n
    <3>1. CASE c < M
      BY <1>0, <1>1, <1>2, <1>3, <1>4, <1>5, <2>1, <2>2, <3>1
    <3>2. CASE ~(c < M)
      BY <1>0, <1>1, <1>2, <1>3, <1>4, <1>5, <2>1, <2>2, <3>2
    <3> QED BY <3>1, <3>2
  <2> QED BY <2>1, <2>3
<1>7. (a + n - b) % M = e + n
  <2>1. PICK g \in Int : g = a + n - b /\ g = d + n /\ -M <= g /\ g < 2 * M
    BY <1>0, <1>1, <1>2, <1>3
  <2>2. g % M = IF g < 0 THEN g + M ELSE IF g < M THEN g ELSE g - M
    BY <1>0, <2>1, Mod
  <2>3. g % M = e + n
    BY <1>0, <1>1, <1>2, <1>3, <2>1, <2>2
  <2> QED BY <2>1, <2>3
<1>8. (b + left) % M # f
  <2>1. PICK g \in Int : g = b + left /\ -M <= g /\ g < 2 * M
    BY <1>0, <1>3 DEF M
  <2>2. g % M = IF g < 0 THEN g + M ELSE IF g < M THEN g ELSE g - M
    BY <1>0, <2>1, Mod
  <2>3. g % M # f
    BY <1>0, <1>1, <1>2, <1>3, <1>4, <1>5, <2>1, <2>2
  <2> QED BY <2>1, <2>3
<1> QED BY <1>2, <1>5, <1>6, <1>7, <1>8 DEF M

(* The end of a wait concerns one task.                                       *)
LEMMA ForgottenTimes ==
  ASSUME NEW s \in KernelData, NEW t \in Task
  PROVE  LET r == Forgotten(t, s)
         IN /\ r.left[t] = 0
            /\ \A u \in Task : u # t => r.left[u] = s.left[u] /\ r.entered[u] = s.entered[u]
BY DEF Forgotten, KernelData

(* The start of a wait concerns one task.                                     *)
LEMMA StartedTimes ==
  ASSUME NEW s \in KernelData, NEW t \in Task, NEW n \in 0..Forever
  PROVE  LET r == SetTimeOutState(t, [s EXCEPT !.left[t] = n])
         IN /\ r.left[t] = n /\ r.entered[t] = s.tick
            /\ \A u \in Task : u # t => r.left[u] = s.left[u] /\ r.entered[u] = s.entered[u]
BY DEF SetTimeOutState, KernelData

-------------------------------------------------------------------------------
(* Who waits and who holds *)

(* Who waits for a semaphore sleeps in its take.                              *)
LEMMA WaiterIs ==
  ASSUME Inv, NEW q \in Sem, NEW w \in Task, Contains(k.waiting[q], w)
  PROVE  /\ w \in DOMAIN program /\ Asleep(w, k) /\ ~Ready(w, k)
         /\ Takes(w, q) /\ Call(w).do = "take" /\ Call(w).sem = q
         /\ \A p \in Sem : Contains(k.waiting[p], w) => p = q
<1>1. Events(k) /\ Places(k)
  BY DEF Inv, ListInv, Sound
<1>2. Asleep(w, k) /\ ~Ready(w, k) /\ \A p \in Sem : Contains(k.waiting[p], w) => p = q
  BY <1>1 DEF Events, Places, Ready
<1>3. w \in Started /\ Takes(w, q)
  BY DEF Inv, WaitInv, Takes
<1> QED BY <1>2, <1>3 DEF Started, Takes

(* The holder of a mutex is a task that has taken it.                         *)
LEMMA HolderIs ==
  ASSUME Inv, NEW m \in Mutex, NEW t \in Task, k.holder[m] = t
  PROVE  t \in DOMAIN program /\ m \in Held(program, t, idx[t])
<1>1. HoldInv /\ t # None
  BY KernelAssumption DEF Inv, ListInv
<1> QED BY <1>1 DEF HoldInv

(* A mutex that is taken by a task which holds another is available.          *)
LEMMA MutexIsFree ==
  ASSUME Inv, NEW t \in DOMAIN program, NEW m \in Mutex, Takes(t, m), Held(program, t, idx[t]) # {}
  PROVE  k.full[m]
<1>0. TypeOK /\ ProgInv /\ HoldInv /\ program \in Programs
  BY DEF Inv, ListInv, TypeOK
<1> SUFFICES ASSUME ~k.full[m] PROVE FALSE
  OBVIOUS
<1>1. PICK u \in DOMAIN program : m \in Held(program, u, idx[u])
  BY <1>0 DEF HoldInv
<1>2. idx[t] \in 1..Len(program[t]) /\ program[t][idx[t]] = [do |-> "take", sem |-> m]
  BY <1>0 DEF ProgInv, Takes, Call
<1>3. u # t
  BY <1>0, <1>1, <1>2, DisciplineAssumption
<1>4. PICK j \in 1..idx[u] - 1 : program[u][j] = [do |-> "take", sem |-> m]
  BY <1>1 DEF Held
<1>5. j \in 1..Len(program[u])
  <2>1. idx[u] \in 1..Len(program[u]) /\ Len(program[u]) \in Nat
    BY <1>0, ProgramIs
  <2> QED BY <1>4, <2>1
<1>6. program[t][idx[t]].do = "take" /\ program[t][idx[t]].sem = m
  BY <1>2
<1> QED BY <1>0, <1>2, <1>3, <1>4, <1>5, <1>6, NestingAssumption

(* Who holds nothing has its own priority.                                    *)
LEMMA NotRaised ==
  ASSUME Inv, RaisedInv, NEW t \in Task, t \in DOMAIN program => Held(program, t, idx[t]) = {}
  PROVE  k.prio[t] = BasePriority[t]
BY HolderIs DEF RaisedInv

(* Nobody has less than its own priority.                                     *)
LEMMA AtLeastBase ==
  ASSUME Inv, RaisedInv, NEW t \in Task
  PROVE  /\ k.prio[t] \in Nat /\ BasePriority[t] \in Nat /\ k.prio[t] >= BasePriority[t]
         /\ k.prio[t] \in Priorities
<1>1. k.prio[t] \in Priorities
  BY DEF Inv, ListInv, Sound, Lists, KernelData
<1>2. k.prio[t] \in Nat /\ BasePriority[t] \in Nat
  BY <1>1, PrioritiesAre
<1>3. k.prio[t] # BasePriority[t] => k.prio[t] > BasePriority[t]
  BY DEF RaisedInv
<1> QED BY <1>1, <1>2, <1>3

-------------------------------------------------------------------------------
(* Steps that leave the waiters on mutexes alone *)

(* What matters to the holders of the mutexes, and to those who wait for one  *)
Calm(s, r) ==
  /\ r.prio = s.prio
  /\ \A m \in Mutex : /\ r.waiting[m] = s.waiting[m]
                      /\ s.holder[m] # None => r.holder[m] = s.holder[m]
                      /\ r.lock[m] = 1 => s.lock[m] = 1
  /\ \A u \in Task : Asleep(u, s) /\ Asleep(u, r) => r.wake[u] = s.wake[u]

(* Where nothing happens to them they keep what is known of them.             *)
LEMMA CalmStep ==
  ASSUME Inv, Inv', RaisedInv, WaitersInv, program' = program, Calm(k, k'),
         \A u \in DOMAIN program : Asleep(u, k) /\ Call(u).do = "take" =>
           k'.left[u] = k.left[u] /\ k'.entered[u] = k.entered[u] /\ idx'[u] = idx[u]
  PROVE  RaisedInv' /\ WaitersInv'
<1>1. Mutex \subseteq Sem /\ None \notin Task
  BY KernelAssumption
<1>2. RaisedInv'
  BY <1>1 DEF RaisedInv, Calm
<1>3. ASSUME NEW m \in Mutex PROVE k'.lock[m] # 1
  BY <1>3 DEF WaitersInv, Calm
<1>4. ASSUME NEW m \in Mutex, NEW w \in Task, Contains(k'.waiting[m], w)
      PROVE  /\ Held(program', w, idx'[w]) = {}
             /\ k'.left[w] > 0 /\ k'.wake[w] = (k'.entered[w] + k'.left[w]) % TickModulus
  <2>1. Contains(k.waiting[m], w)
    BY <1>4 DEF Calm
  <2>2. w \in DOMAIN program /\ Asleep(w, k) /\ Call(w).do = "take"
    BY <1>1, <2>1, WaiterIs
  <2>3. Asleep(w, k')
    BY <1>1, <1>4 DEF Inv, ListInv, Sound, Events
  <2>4. k'.left[w] = k.left[w] /\ k'.entered[w] = k.entered[w] /\ idx'[w] = idx[w] /\ k'.wake[w] = k.wake[w]
    BY <2>2, <2>3 DEF Calm
  <2> QED BY <2>1, <2>4 DEF WaitersInv
<1>5. ASSUME NEW m \in Mutex, NEW i \in 1..Len(k'.waiting[m]), NEW j \in 1..Len(k'.waiting[m]), i < j
      PROVE  BasePriority[k'.waiting[m][i]] >= BasePriority[k'.waiting[m][j]]
  BY <1>5 DEF WaitersInv, Calm
<1> QED BY <1>2, <1>3, <1>4, <1>5 DEF WaitersInv

(* Nor is anybody's time over before the next tick.                           *)
LEMMA ShortStep ==
  ASSUME Inv, Inv', ShortInv, program' = program, k'.tick = k.tick, k'.missed = k.missed,
         k'.suspended \/ ~k.suspended,
         pc'[k.cur] = "place" => k'.entered[k.cur] = k.tick,
         \A u \in Task \ {k.cur} : pc'[u] \in {pc[u], "call"},
         \A u \in DOMAIN program : k'.left[u] > 0 =>
           \/ /\ k'.left[u] = k.left[u] /\ k'.entered[u] = k.entered[u]
              /\ idx'[u] = idx[u] \/ Call(u).do # "take"
           \/ /\ k'.entered[u] = k.tick /\ idx'[u] = idx[u] /\ Call(u).do = "take"
              /\ Call(u).sem \in Mutex => k.missed < k'.left[u]
  PROVE  ShortInv'
<1>1. RunInv /\ k \in KernelData /\ DOMAIN program \subseteq Task
  BY ProgramIs DEF Inv, ListInv, TypeOK, RunInv
<1>2. ~k'.suspended => k'.missed = 0
  BY DEF ShortInv
<1>3. pc'[k'.cur] = "place" => k'.entered[k'.cur] = k'.tick
  <2>1. k'.cur \in Task
    BY DEF Inv, ListInv, TypeOK, KernelData
  <2>2. ASSUME NEW u \in Task \ {k.cur} PROVE pc'[u] # "place"
    BY <1>1, <2>2 DEF RunInv, SuspendedPc
  <2> QED BY <2>1, <2>2
<1>4. ASSUME NEW u \in DOMAIN program', k'.left[u] > 0
      PROVE  /\ Call(u)'.do = "take"
             /\ Call(u)'.sem \in Mutex => Elapsed(u, k)' + k'.missed < k'.left[u]
  <2>1. u \in DOMAIN program
    OBVIOUS
  <2>2. CASE k'.left[u] = k.left[u] /\ k'.entered[u] = k.entered[u] /\ (idx'[u] = idx[u] \/ Call(u).do # "take")
    <3>1. Call(u).do = "take" /\ (Call(u).sem \in Mutex => Elapsed(u, k) + k.missed < k.left[u])
      BY <1>4, <2>1, <2>2 DEF ShortInv
    <3>2. Call(u)' = Call(u)
      BY <2>2, <3>1 DEF Call
    <3> QED BY <2>2, <3>1, <3>2 DEF Elapsed
  <2>3. CASE /\ k'.entered[u] = k.tick /\ idx'[u] = idx[u] /\ Call(u).do = "take"
             /\ Call(u).sem \in Mutex => k.missed < k'.left[u]
    <3>1. Call(u)' = Call(u)
      BY <2>3 DEF Call
    <3>2. Elapsed(u, k)' = 0
      <4>1. PICK d \in Int : d = k.tick - k.tick /\ d = 0
        BY <1>1 DEF KernelData
      <4>2. TickModulus \in Nat /\ TickModulus > 2
        BY KernelAssumption
      <4>3. d % TickModulus = IF d < 0 THEN d + TickModulus ELSE IF d < TickModulus THEN d ELSE d - TickModulus
        BY <4>1, <4>2, Mod
      <4> QED BY <2>3, <4>1, <4>2, <4>3 DEF Elapsed
    <3>3. k.missed \in Nat
      BY <1>1, KernelAssumption DEF KernelData
    <3> QED BY <2>3, <3>1, <3>2, <3>3
  <2> QED BY <1>4, <2>1, <2>2, <2>3
<1> QED BY <1>2, <1>3, <1>4 DEF ShortInv

(* Where no list changes, the same tasks are ready.                           *)
LEMMA SameListsCalm ==
  ASSUME NEW s, NEW r, SameLists(s, r), r.cur = s.cur, Urgent(s),
         \A m \in Mutex : /\ s.holder[m] # None => r.holder[m] = s.holder[m]
                          /\ r.lock[m] = 1 => s.lock[m] = 1
  PROVE  Calm(s, r) /\ Urgent(r)
BY DEF SameLists, Calm, Urgent, Ready

(* The running task where it is not asleep, and its call                      *)
LEMMA RunnerIs ==
  ASSUME Inv, NEW t, t = k.cur
  PROVE  /\ t \in DOMAIN program /\ t \in Task /\ k \in KernelData /\ DOMAIN program \subseteq Task
         /\ Sound(k) /\ Rows(k) /\ Ahead(k) /\ Mutex \subseteq Sem /\ None \notin Task
         /\ pc \in [Task -> PcStates] /\ idx \in [Task -> Nat \ {0}] /\ after \in [Task -> AfterStates]
         /\ k.suspended <=> pc[t] \in SuspendedPc
         /\ pc[t] \notin {"unlock", "resume", "yield"} => Ready(t, k) /\ ~Asleep(t, k)
         /\ Call(t).do \in {"take", "give"} => Call(t).sem \in Sem /\ Call(t) = [do |-> Call(t).do, sem |-> Call(t).sem]
<1>1. ListInv /\ TypeOK /\ program \in Programs
  BY DEF Inv, ListInv, TypeOK
<1>2. /\ t \in DOMAIN program /\ t \in Task /\ k \in KernelData
      /\ Sound(k) /\ Rows(k) /\ Ahead(k)
      /\ pc \in [Task -> PcStates] /\ idx \in [Task -> Nat \ {0}] /\ after \in [Task -> AfterStates]
      /\ k.suspended <=> pc[t] \in SuspendedPc
      /\ Ready(t, k) \/ Asleep(t, k)
      /\ Asleep(t, k) => pc[t] = "yield" \/ (pc[t] \in {"unlock", "resume"} /\ after[t] = "yield")
      /\ Call(t) \in KernelCall
  BY <1>1, RunningIs
<1>3. Call(t).do \in {"take", "give"} => Call(t).sem \in Sem /\ Call(t) = [do |-> Call(t).do, sem |-> Call(t).sem]
  BY <1>2, CallIs
<1>4. DOMAIN program \subseteq Task /\ Mutex \subseteq Sem /\ None \notin Task
  BY <1>1, ProgramsAssumption, KernelAssumption
<1> QED BY <1>2, <1>3, <1>4

(* The running task holds nothing while it is inside a call, or makes one     *)
(* that may put it to sleep.                                                  *)
LEMMA HoldsNothing ==
  ASSUME Inv, HolderInv, NEW t, t = k.cur, pc[t] # "call" \/ Call(t).do \notin {"take", "give"}
  PROVE  Held(program, t, idx[t]) = {}
<1>1. t \in DOMAIN program /\ program \in Programs /\ idx[t] \in 1..Len(program[t])
  BY DEF Inv, ListInv, TypeOK, RunInv, ProgInv
<1>2. CASE pc[t] # "call"
  BY <1>1, <1>2 DEF HolderInv
<1>3. CASE Call(t).do \notin {"take", "give"}
  BY <1>1, <1>3, NestingAssumption DEF Call
<1> QED BY <1>2, <1>3

(* Where no mutex changes hands, and nobody who is ready leaves his call or   *)
(* the ready list, inversion stays bounded.                                   *)
LEMMA BoundStep ==
  ASSUME Inv, Inv', Bounds, program' = program, Calm(k, k'),
         \A m \in Mutex : k'.holder[m] = k.holder[m],
         \A u \in Task \ {k.cur} :
           u \in Child \/ ((Ready(u, k) => Ready(u, k')) /\ pc'[u] = pc[u] /\ idx'[u] = idx[u]),
         Held(program, k.cur, idx[k.cur]) # {} => pc'[k.cur] = "call" /\ Ready(k.cur, k'),
         Ready(k.cur, k) /\ Call(k.cur).do = "take" /\ Call(k.cur).sem \in Mutex =>
           idx'[k.cur] = idx[k.cur] /\ Ready(k.cur, k')
  PROVE  Bounds'
<1>0. /\ TypeOK /\ ProgInv /\ program \in Programs /\ DOMAIN program \subseteq Task
      /\ k.cur \in DOMAIN program /\ None \notin Task
  BY ProgramIs, KernelAssumption DEF Inv, ListInv, TypeOK, RunInv
<1>1. HolderInv'
  <2> SUFFICES ASSUME NEW u \in DOMAIN program', Held(program', u, idx'[u]) # {}
               PROVE  pc'[u] = "call" /\ Ready(u, k')
    BY DEF HolderInv
  <2>1. PICK m \in Mutex : k'.holder[m] = u
    <3>1. PICK m \in Held(program', u, idx'[u]) : TRUE
      OBVIOUS
    <3>2. m \in Mutex
      BY DEF Held
    <3>3. HoldInv'
      BY DEF Inv, ListInv
    <3> QED BY <3>2, <3>3 DEF HoldInv
  <2>2. k.holder[m] = u /\ u \in Task
    BY <1>0, <2>1
  <2>3. u \in DOMAIN program /\ Held(program, u, idx[u]) # {}
    BY <2>2, HolderIs
  <2>4. CASE u = k.cur
    BY <2>3, <2>4
  <2>5. CASE u # k.cur
    <3>1. u \notin Child
      BY <1>0, <2>3, ChildHoldsNothing DEF ProgInv
    <3> QED BY <2>2, <2>3, <2>5, <3>1 DEF Bounds, HolderInv
  <2> QED BY <2>4, <2>5
<1>2. WakerInv'
  <2> SUFFICES ASSUME NEW m \in Mutex, k'.holder[m] = None, NEW w \in Task, Contains(k'.waiting[m], w)
               PROVE  \E u \in DOMAIN program' :
                        Takes(u, m)' /\ Ready(u, k') /\ BasePriority[u] >= BasePriority[w]
    BY DEF WakerInv
  <2>1. PICK u \in DOMAIN program : Takes(u, m) /\ Ready(u, k) /\ BasePriority[u] >= BasePriority[w]
    BY DEF Bounds, WakerInv, Calm
  <2>2. Call(u).do = "take" /\ Call(u).sem = m
    BY <2>1 DEF Takes
  <2>3. idx'[u] = idx[u] /\ Ready(u, k')
    <3>1. CASE u = k.cur
      BY <2>1, <2>2, <3>1
    <3>2. CASE u # k.cur
      <4>1. idx[u] \in 1..Len(program[u])
        BY <1>0 DEF ProgInv
      <4>2. u \in Child => Call(u).do \in {"delay", "until"}
        BY <1>0, <4>1, DisciplineAssumption DEF Call
      <4>3. u \notin Child /\ u \in Task
        BY <1>0, <2>2, <4>2
      <4> QED BY <2>1, <3>2, <4>3
    <3> QED BY <3>1, <3>2
  <2> QED BY <2>1, <2>3 DEF Takes, Call
<1>3. BoundInv'
  BY DEF Bounds, BoundInv, Calm, Alone
<1> QED BY <1>1, <1>2, <1>3 DEF Bounds

(* A step which leaves the mutexes alone, and in which nobody leaves his call *)
(* to take a semaphore.                                                       *)
LEMMA QuietStep ==
  ASSUME Inv, Inv', Ranks, Bounds, NEW t, t = k.cur, program' = program, Calm(k, k'), Urgent(k'),
         \A m \in Mutex : k'.holder[m] = k.holder[m],
         k'.tick = k.tick, k'.missed = k.missed, k'.suspended \/ ~k.suspended,
         \A u \in Task \ {t} :
           /\ k'.left[u] = k.left[u] /\ k'.entered[u] = k.entered[u]
           /\ \/ pc'[u] = pc[u] /\ idx'[u] = idx[u] /\ (Ready(u, k) => Ready(u, k'))
              \/ u \in Child /\ pc'[u] = "call",
         pc'[t] = "place" => k'.entered[t] = k.tick,
         Asleep(t, k) => k'.left[t] = k.left[t] /\ k'.entered[t] = k.entered[t],
         k'.left[t] > 0 =>
           \/ k'.left[t] = k.left[t] /\ k'.entered[t] = k.entered[t]
           \/ /\ k'.entered[t] = k.tick /\ Call(t).do = "take"
              /\ Call(t).sem \in Mutex => k.missed < k'.left[t],
         Held(program, t, idx[t]) # {} => pc'[t] = "call" /\ Ready(t, k'),
         Call(t).do = "take" => idx'[t] = idx[t],
         Call(t).do = "take" /\ Call(t).sem \in Mutex /\ Ready(t, k) => Ready(t, k')
  PROVE  Ranks' /\ Bounds'
<1>0. DOMAIN program \subseteq Task /\ t \in Task
  BY RunnerIs
<1>1. \A u \in DOMAIN program : u \in Child => Call(u).do # "take"
  <2>1. program \in Programs /\ \A u \in DOMAIN program : idx[u] \in 1..Len(program[u])
    BY DEF Inv, ListInv, TypeOK, ProgInv
  <2> QED BY <2>1, DisciplineAssumption DEF Call
<1>2. RaisedInv' /\ WaitersInv'
  <2>1. ASSUME NEW u \in DOMAIN program, Asleep(u, k), Call(u).do = "take"
        PROVE  k'.left[u] = k.left[u] /\ k'.entered[u] = k.entered[u] /\ idx'[u] = idx[u]
    BY <1>0, <1>1, <2>1
  <2> QED BY <2>1, CalmStep DEF Ranks
<1>3. ShortInv'
  <2>1. \A u \in Task \ {t} : pc'[u] \in {pc[u], "call"}
    OBVIOUS
  <2>2. \A u \in DOMAIN program : k'.left[u] > 0 =>
          \/ /\ k'.left[u] = k.left[u] /\ k'.entered[u] = k.entered[u]
             /\ idx'[u] = idx[u] \/ Call(u).do # "take"
          \/ /\ k'.entered[u] = k.tick /\ idx'[u] = idx[u] /\ Call(u).do = "take"
             /\ Call(u).sem \in Mutex => k.missed < k'.left[u]
    BY <1>0, <1>1
  <2> QED BY <2>1, <2>2, ShortStep DEF Ranks
<1>4. Bounds'
  <2>1. \A u \in Task \ {t} :
           u \in Child \/ ((Ready(u, k) => Ready(u, k')) /\ pc'[u] = pc[u] /\ idx'[u] = idx[u])
    OBVIOUS
  <2> QED BY <2>1, BoundStep
<1> QED BY <1>2, <1>3, <1>4 DEF Ranks, UrgentInv

-------------------------------------------------------------------------------
(* The steps of the running task, one by one *)

(* A task takes a semaphore, or is about to wait for it.                      *)
LEMMA RanksTake ==
  ASSUME Inv, Inv', Ranks, Bounds, NEW t, t = k.cur, Take(t)
  PROVE  Ranks' /\ Bounds'
<1> DEFINE q == Call(t).sem
<1>1. /\ t \in DOMAIN program /\ t \in Task /\ k \in KernelData /\ DOMAIN program \subseteq Task
      /\ Mutex \subseteq Sem /\ pc \in [Task -> PcStates] /\ idx \in [Task -> Nat \ {0}]
      /\ k.suspended <=> pc[t] \in SuspendedPc
      /\ pc[t] = "call" => Ready(t, k) /\ ~Asleep(t, k)
      /\ Call(t).do = "take" => q \in Sem /\ Takes(t, q)
  BY RunnerIs DEF Takes
<1>2. /\ pc[t] = "call" /\ Call(t).do = "take" /\ program' = program
  BY DEF Take, Calls, At
<1>3. ~k.suspended /\ k.missed = 0 /\ Ready(t, k) /\ ~Asleep(t, k) /\ q \in Sem /\ Takes(t, q)
  BY <1>1, <1>2 DEF SuspendedPc, Ranks, ShortInv
<1>4. CASE k.full[q]
  <2> DEFINE z == Forgotten(t, k)
  <2>1. k' = [z EXCEPT !.full[q] = FALSE, !.holder[q] = IF q \in Mutex THEN t ELSE @]
    BY <1>4 DEF Take
  <2>2. pc' = [pc EXCEPT ![t] = "call"] /\ idx' = [idx EXCEPT ![t] = NextIdx(t)]
    BY <1>4 DEF Take, Return, Goto
  <2>3. /\ z \in KernelData /\ SameLists(k, z) /\ SameSems(k, z) /\ z.left[t] = 0
        /\ \A u \in Task : u # t => z.left[u] = k.left[u] /\ z.entered[u] = k.entered[u]
    BY <1>1, ForgottenIs, ForgottenTimes
  <2>4. q \in Mutex => k.holder[q] = None
    BY <1>4 DEF Inv, ListInv, HoldInv
  <2> HIDE DEF z, q
  <2>5. /\ SameLists(k, k') /\ k'.lock = k.lock /\ k'.cur = t /\ k'.suspended = k.suspended /\ k'.missed = k.missed
        /\ k'.tick = k.tick /\ k'.left = z.left /\ k'.entered = z.entered
    BY <2>1, <2>3 DEF KernelData, SameLists, SameSems
  <2>6. \A m \in Mutex : k.holder[m] # None => k'.holder[m] = k.holder[m]
    <3>1. \A m \in Sem : m # q => k'.holder[m] = z.holder[m]
      BY <2>1, <2>3 DEF KernelData
    <3> QED BY <1>1, <2>3, <2>4, <3>1 DEF SameSems
  <2>7. Calm(k, k') /\ Urgent(k')
    BY <2>5, <2>6, SameListsCalm DEF Ranks, UrgentInv
  <2>8. RaisedInv' /\ WaitersInv'
    <3>1. ASSUME NEW u \in Task, Asleep(u, k)
          PROVE  k'.left[u] = k.left[u] /\ k'.entered[u] = k.entered[u] /\ idx'[u] = idx[u]
      BY <1>1, <1>3, <2>2, <2>3, <2>5, <3>1
    <3> QED BY <1>1, <1>2, <2>7, <3>1, CalmStep DEF Ranks
  <2>9. ShortInv'
    <3>1. \A u \in DOMAIN program : k'.left[u] > 0 =>
             k'.left[u] = k.left[u] /\ k'.entered[u] = k.entered[u] /\ idx'[u] = idx[u]
      BY <1>1, <2>2, <2>3, <2>5
    <3>2. pc'[t] = "call" /\ \A u \in Task \ {t} : pc'[u] \in {pc[u], "call"}
      BY <1>1, <2>2
    <3> QED BY <1>2, <1>3, <2>5, <3>1, <3>2, ShortStep DEF Ranks
  <2>10. /\ \A u \in Task : Ready(u, k) => Ready(u, k')
         /\ \A u \in Task \ {t} : pc'[u] = pc[u] /\ idx'[u] = idx[u]
         /\ pc'[t] = "call"
         /\ \A m \in Sem : m # q \/ q \notin Mutex => k'.holder[m] = k.holder[m]
         /\ q \in Mutex => k'.holder[q] = t
    <3>1. \A m \in Sem : m # q => k'.holder[m] = z.holder[m]
      BY <2>1, <2>3 DEF KernelData
    <3>2. k'.holder[q] = IF q \in Mutex THEN t ELSE z.holder[q]
      BY <1>3, <2>1, <2>3 DEF KernelData
    <3>3. \A u \in Task : Ready(u, k) => Ready(u, k')
      BY <2>5 DEF Ready, SameLists
    <3>4. pc'[t] = "call" /\ \A u \in Task \ {t} : pc'[u] = pc[u] /\ idx'[u] = idx[u]
      BY <1>1, <2>2
    <3>5. z.holder = k.holder
      BY <2>3 DEF SameSems
    <3> QED BY <3>1, <3>2, <3>3, <3>4, <3>5
  <2>11. HolderInv'
    <3> SUFFICES ASSUME NEW u \in DOMAIN program, Held(program, u, idx'[u]) # {}
                 PROVE  pc'[u] = "call" /\ Ready(u, k')
      BY <1>2 DEF HolderInv
    <3>1. CASE u = t
      BY <1>1, <1>3, <2>10, <3>1
    <3>2. CASE u # t
      BY <1>1, <2>10, <3>2 DEF Bounds, HolderInv
    <3> QED BY <3>1, <3>2
  <2>12. WakerInv'
    <3> SUFFICES ASSUME NEW m \in Mutex, k'.holder[m] = None, NEW w \in Task, Contains(k'.waiting[m], w)
                 PROVE  \E u \in DOMAIN program :
                          Takes(u, m)' /\ Ready(u, k') /\ BasePriority[u] >= BasePriority[w]
      BY <1>2 DEF WakerInv
    <3>1. m # q /\ k.holder[m] = None
      BY <1>1, <2>10, KernelAssumption
    <3>2. PICK u \in DOMAIN program : Takes(u, m) /\ Ready(u, k) /\ BasePriority[u] >= BasePriority[w]
      BY <2>7, <3>1 DEF Bounds, WakerInv, Calm
    <3>3. u # t
      BY <1>3, <3>1, <3>2 DEF Takes
    <3>4. idx'[u] = idx[u] /\ Ready(u, k')
      BY <1>1, <2>10, <3>2, <3>3
    <3> QED BY <1>2, <3>2, <3>4 DEF Takes, Call
  <2>13. BoundInv'
    <3> SUFFICES ASSUME NEW m \in Mutex, NEW h \in Task, k'.holder[m] = h,
                        NEW w \in Task, Contains(k'.waiting[m], w)
                 PROVE  k'.prio[h] >= BasePriority[w] \/ Alone(h, w)
      BY <1>2 DEF BoundInv, Alone
    <3>1. Contains(k.waiting[m], w) /\ k'.prio = k.prio
      BY <2>7 DEF Calm
    <3>2. CASE m # q
      BY <1>1, <2>10, <3>1, <3>2 DEF Bounds, BoundInv
    <3>3. CASE m = q
      <4>1. h = t
        BY <2>10, <3>3
      <4>2. PICK u \in DOMAIN program : Ready(u, k) /\ BasePriority[u] >= BasePriority[w]
        BY <2>4, <3>1, <3>3 DEF Bounds, WakerInv
      <4>3. u \in Task /\ k.prio[u] <= k.prio[t]
        BY <1>1, <4>2 DEF Ranks, UrgentInv, Urgent
      <4>4. k.prio[u] >= BasePriority[u] /\ k.prio[u] \in Nat /\ k.prio[t] \in Nat /\ BasePriority[u] \in Nat
        BY <1>1, <4>3, AtLeastBase DEF Ranks
      <4>5. BasePriority[w] \in Nat
        BY AtLeastBase DEF Ranks
      <4> QED BY <3>1, <4>1, <4>2, <4>3, <4>4, <4>5
    <3> QED BY <3>2, <3>3
  <2> QED BY <2>7, <2>8, <2>9, <2>11, <2>12, <2>13 DEF Ranks, UrgentInv, Bounds
<1>5. CASE ~k.full[q]
  <2>1. /\ k' = IF k.left[t] > 0 THEN k ELSE SetTimeOutState(t, [k EXCEPT !.left[t] = Forever])
        /\ pc' = [pc EXCEPT ![t] = "suspend"] /\ idx' = idx
    BY <1>5 DEF Take, Goto
  <2>2. /\ SameLists(k, k') /\ SameSems(k, k') /\ k'.tick = k.tick
        /\ \A u \in Task : u # t => k'.left[u] = k.left[u] /\ k'.entered[u] = k.entered[u]
        /\ \/ k'.left[t] = k.left[t] /\ k'.entered[t] = k.entered[t]
           \/ k'.left[t] > 0 /\ k'.entered[t] = k.tick
    <3>1. CASE k.left[t] > 0
      <4>1. k' = k
        BY <2>1, <3>1
      <4> QED BY <4>1 DEF SameLists, SameSems
    <3>2. CASE ~(k.left[t] > 0)
      <4> DEFINE z == [k EXCEPT !.left[t] = Forever]
      <4>1. Forever \in 0..Forever /\ Forever > 0
        BY KernelAssumption DEF Forever
      <4>2. z \in KernelData /\ SameLists(k, z) /\ SameSems(k, z)
        BY <1>1, <4>1, LeftIs
      <4>3. k' = SetTimeOutState(t, z)
        BY <2>1, <3>2
      <4>4. /\ k'.left[t] = Forever /\ k'.entered[t] = k.tick
            /\ \A u \in Task : u # t => k'.left[u] = k.left[u] /\ k'.entered[u] = k.entered[u]
        BY <1>1, <4>1, <4>3, StartedTimes
      <4> HIDE DEF z
      <4>5. SameLists(z, k') /\ SameSems(z, k')
        BY <1>1, <4>2, <4>3, SetTimeOutStateIs
      <4> QED BY <4>1, <4>2, <4>4, <4>5 DEF SameLists, SameSems
    <3> QED BY <3>1, <3>2
  <2>3. Calm(k, k') /\ Urgent(k')
    BY <2>2, SameListsCalm DEF Ranks, UrgentInv, SameSems
  <2>4. RaisedInv' /\ WaitersInv'
    <3>1. ASSUME NEW u \in Task, Asleep(u, k)
          PROVE  k'.left[u] = k.left[u] /\ k'.entered[u] = k.entered[u] /\ idx'[u] = idx[u]
      BY <1>3, <2>1, <2>2, <3>1
    <3> QED BY <1>1, <1>2, <2>3, <3>1, CalmStep DEF Ranks
  <2>5. ShortInv'
    <3>1. pc'[t] = "suspend" /\ \A u \in Task \ {t} : pc'[u] \in {pc[u], "call"}
      BY <1>1, <2>1
    <3>2. \A u \in DOMAIN program : k'.left[u] > 0 =>
            \/ /\ k'.left[u] = k.left[u] /\ k'.entered[u] = k.entered[u]
               /\ idx'[u] = idx[u] \/ Call(u).do # "take"
            \/ /\ k'.entered[u] = k.tick /\ idx'[u] = idx[u] /\ Call(u).do = "take"
               /\ Call(u).sem \in Mutex => k.missed < k'.left[u]
      BY <1>1, <1>2, <1>3, <2>1, <2>2
    <3>3. k'.tick = k.tick /\ k'.missed = k.missed /\ ~k.suspended
      BY <1>3, <2>2 DEF SameSems
    <3> QED BY <1>2, <3>1, <3>2, <3>3, ShortStep DEF Ranks
  <2>6. Bounds'
    <3>1. \A u \in Task : Ready(u, k) => Ready(u, k')
      BY <2>2 DEF Ready, SameLists
    <3>2. Held(program, t, idx[t]) = {}
      <4>1. q \notin Mutex => Held(program, t, idx[t]) = {}
        <5>1. idx[t] \in 1..Len(program[t]) /\ program \in Programs
          BY <1>1 DEF Inv, ListInv, TypeOK, ProgInv
        <5>2. program[t][idx[t]].do = "take" /\ program[t][idx[t]].sem = q
          BY <1>2 DEF Call
        <5> QED BY <1>1, <5>1, <5>2, NestingAssumption
      <4>2. q \in Mutex => Held(program, t, idx[t]) = {}
        BY <1>1, <1>3, <1>5, MutexIsFree
      <4> QED BY <4>1, <4>2
    <3>3. \A u \in Task \ {t} : pc'[u] = pc[u] /\ idx'[u] = idx[u]
      BY <1>1, <2>1
    <3>4. \A m \in Mutex : k'.holder[m] = k.holder[m]
      BY <2>2 DEF SameSems
    <3> QED BY <1>1, <1>2, <1>3, <2>1, <2>3, <3>1, <3>2, <3>3, <3>4, BoundStep
  <2> QED BY <2>3, <2>4, <2>5, <2>6 DEF Ranks, UrgentInv
<1> QED BY <1>4, <1>5

(* A task suspends the scheduler.                                             *)
LEMMA RanksSuspend ==
  ASSUME Inv, Inv', Ranks, Bounds, NEW t, t = k.cur, Suspend(t)
  PROVE  Ranks' /\ Bounds'
<1>1. /\ t \in DOMAIN program /\ t \in Task /\ k \in KernelData
      /\ pc \in [Task -> PcStates]
      /\ pc[t] \notin {"unlock", "resume", "yield"} => Ready(t, k) /\ ~Asleep(t, k)
  BY RunnerIs
<1>2. /\ pc[t] = "suspend" \/ Call(t).do \in {"delay", "until", "create", "reap"}
      /\ pc[t] \in {"suspend", "call"} /\ program' = program /\ idx' = idx
      /\ k' = [k EXCEPT !.suspended = TRUE]
      /\ pc' = [pc EXCEPT ![t] = IF pc[t] = "suspend" THEN "lock" ELSE "insert"]
  BY DEF Suspend, Calls, At, Goto
<1>3. /\ SameLists(k, k') /\ k'.lock = k.lock /\ k'.holder = k.holder /\ k'.cur = k.cur /\ k'.suspended
      /\ k'.missed = k.missed /\ k'.tick = k.tick /\ k'.left = k.left /\ k'.entered = k.entered
  BY <1>1, <1>2 DEF KernelData, SameLists
<1>4. Calm(k, k') /\ Urgent(k') /\ \A u \in Task : Ready(u, k) => Ready(u, k')
  BY <1>3, SameListsCalm DEF Ranks, UrgentInv, Ready, SameLists
<1>5. Held(program, t, idx[t]) = {}
  <2>1. pc[t] # "call" \/ Call(t).do \notin {"take", "give"}
    BY <1>2
  <2> QED BY <2>1, HoldsNothing DEF Bounds
<1>6. pc'[t] \in {"lock", "insert"} /\ \A u \in Task \ {t} : pc'[u] = pc[u]
  BY <1>1, <1>2
<1> QED BY <1>1, <1>2, <1>3, <1>4, <1>5, <1>6, QuietStep

(* prvLockQueue *)
LEMMA RanksLock ==
  ASSUME Inv, Inv', Ranks, Bounds, NEW t, t = k.cur, Lock(t)
  PROVE  Ranks' /\ Bounds'
<1> DEFINE q == Call(t).sem
<1>1. /\ t \in DOMAIN program /\ t \in Task /\ k \in KernelData /\ Mutex \subseteq Sem
      /\ pc \in [Task -> PcStates]
      /\ pc[t] \notin {"unlock", "resume", "yield"} => Ready(t, k) /\ ~Asleep(t, k)
  BY RunnerIs
<1>2. /\ pc[t] = "lock" /\ program' = program /\ idx' = idx
      /\ k' = [k EXCEPT !.lock[q] = IF @ = -1 THEN 0 ELSE @]
      /\ pc' = [pc EXCEPT ![t] = "check"]
  BY DEF Lock, At, Goto
<1> HIDE DEF q
<1>3. /\ SameLists(k, k') /\ k'.holder = k.holder /\ k'.cur = k.cur /\ k'.suspended = k.suspended
      /\ k'.missed = k.missed /\ k'.tick = k.tick /\ k'.left = k.left /\ k'.entered = k.entered
      /\ k'.lock = [k.lock EXCEPT ![q] = IF @ = -1 THEN 0 ELSE @]
  BY <1>1, <1>2 DEF KernelData, SameLists
<1>4. \A m \in Mutex : k'.lock[m] = 1 => k.lock[m] = 1
  <2>1. k.lock \in [Sem -> -1..1]
    BY <1>1 DEF KernelData
  <2> QED BY <1>1, <1>3, <2>1
<1>5. Calm(k, k') /\ Urgent(k') /\ \A u \in Task : Ready(u, k) => Ready(u, k')
  BY <1>3, <1>4, SameListsCalm DEF Ranks, UrgentInv, Ready, SameLists
<1>6. Held(program, t, idx[t]) = {}
  <2>1. pc[t] # "call"
    BY <1>2
  <2> QED BY <2>1, HoldsNothing DEF Bounds
<1>7. pc'[t] = "check" /\ \A u \in Task \ {t} : pc'[u] = pc[u]
  BY <1>1, <1>2
<1> QED BY <1>1, <1>2, <1>3, <1>5, <1>6, <1>7, QuietStep

(* xTaskCheckForTimeOut *)
LEMMA RanksCheck ==
  ASSUME Inv, Inv', Ranks, Bounds, NEW t, t = k.cur, Check(t)
  PROVE  Ranks' /\ Bounds'
<1> DEFINE l == IF TimedOut(t, k) \/ k.full[Call(t).sem] THEN "unlock" ELSE "place"
           n == k.left[t] - Elapsed(t, k)
<1>1. /\ t \in DOMAIN program /\ t \in Task /\ k \in KernelData
      /\ pc \in [Task -> PcStates]
      /\ pc[t] \notin {"unlock", "resume", "yield"} => Ready(t, k) /\ ~Asleep(t, k)
  BY RunnerIs
<1>2. pc[t] = "check" /\ program' = program /\ idx' = idx /\ pc' = [pc EXCEPT ![t] = l]
  BY DEF Check, At, Goto
<1>3. /\ SameLists(k, k') /\ SameSems(k, k') /\ k'.tick = k.tick
      /\ \A u \in Task \ {t} : k'.left[u] = k.left[u] /\ k'.entered[u] = k.entered[u]
      /\ IF TimedOut(t, k) THEN k'.left[t] = k.left[t] /\ k'.entered[t] = k.entered[t]
         ELSE k'.left[t] = n /\ k'.entered[t] = k.tick
  <2>1. CASE TimedOut(t, k)
    <3>1. k' = k
      BY <2>1 DEF Check
    <3> QED BY <2>1, <3>1 DEF SameLists, SameSems
  <2>2. CASE ~TimedOut(t, k)
    <3> DEFINE z == [k EXCEPT !.left[t] = n]
    <3>1. n \in 0..Forever
      <4>1. /\ k.tick \in 0..TickModulus - 1 /\ k.entered[t] \in 0..TickModulus - 1 /\ k.left[t] \in 0..Forever
            /\ TickModulus \in Nat /\ TickModulus > 2
        BY <1>1, KernelAssumption DEF KernelData
      <4>2. PICK d \in Int : d = k.tick - k.entered[t] /\ -TickModulus <= d /\ d < 2 * TickModulus
                              /\ -TickModulus < d /\ d < TickModulus
        BY <4>1
      <4>3. Elapsed(t, k) = IF d < 0 THEN d + TickModulus ELSE IF d < TickModulus THEN d ELSE d - TickModulus
        BY <4>1, <4>2, Mod DEF Elapsed
      <4>4. Elapsed(t, k) \in Nat
        BY <4>1, <4>2, <4>3
      <4>5. ~(Elapsed(t, k) >= k.left[t])
        BY <2>2 DEF TimedOut
      <4> HIDE DEF Forever
      <4>6. Forever \in Int
        BY <4>1 DEF Forever
      <4> QED BY <4>1, <4>4, <4>5, <4>6
    <3> HIDE DEF n
    <3>2. z \in KernelData /\ SameLists(k, z) /\ SameSems(k, z)
      BY <1>1, <3>1, LeftIs
    <3>3. k' = SetTimeOutState(t, z)
      BY <2>2 DEF Check, n
    <3>4. /\ k'.left[t] = n /\ k'.entered[t] = k.tick
          /\ \A u \in Task : u # t => k'.left[u] = k.left[u] /\ k'.entered[u] = k.entered[u]
      BY <1>1, <3>1, <3>3, StartedTimes
    <3> HIDE DEF z
    <3>5. SameLists(z, k') /\ SameSems(z, k')
      BY <1>1, <3>2, <3>3, SetTimeOutStateIs
    <3> QED BY <2>2, <3>2, <3>4, <3>5 DEF SameLists, SameSems
  <2> QED BY <2>1, <2>2
<1>4. Calm(k, k') /\ Urgent(k') /\ \A u \in Task : Ready(u, k) => Ready(u, k')
  BY <1>3, SameListsCalm DEF Ranks, UrgentInv, Ready, SameLists, SameSems
<1>5. Held(program, t, idx[t]) = {}
  <2>1. pc[t] # "call"
    BY <1>2
  <2> QED BY <2>1, HoldsNothing DEF Bounds
<1>6. pc'[t] = l /\ \A u \in Task \ {t} : pc'[u] = pc[u]
  <2>1. l \in PcStates
    BY DEF PcStates
  <2> QED BY <1>1, <1>2, <2>1
<1>7. ~TimedOut(t, k) /\ k'.left[t] > 0 =>
        /\ k'.entered[t] = k.tick /\ Call(t).do = "take"
        /\ Call(t).sem \in Mutex => k.missed < k'.left[t]
  <2> SUFFICES ASSUME ~TimedOut(t, k), k'.left[t] > 0
               PROVE  /\ k'.entered[t] = k.tick /\ Call(t).do = "take"
                      /\ Call(t).sem \in Mutex => k.missed < k'.left[t]
    OBVIOUS
  <2>1. PICK e \in Int : e = Elapsed(t, k) /\ e >= 0
    <3>1. /\ k.tick \in 0..TickModulus - 1 /\ k.entered[t] \in 0..TickModulus - 1
          /\ TickModulus \in Nat /\ TickModulus > 2
      BY <1>1, KernelAssumption DEF KernelData
    <3>2. Elapsed(t, k) \in 0..TickModulus - 1
      BY <3>1 DEF Elapsed
    <3> HIDE DEF Elapsed
    <3> QED BY <3>1, <3>2
  <2>2. k.left[t] \in Int /\ k.missed \in Int
    BY <1>1, KernelAssumption DEF KernelData, Forever
  <2>3. k.left[t] > 0
    BY <1>3, <2>1, <2>2
  <2>4. Call(t).do = "take" /\ (Call(t).sem \in Mutex => Elapsed(t, k) + k.missed < k.left[t])
    BY <1>1, <2>3 DEF Ranks, ShortInv
  <2> QED BY <1>3, <2>1, <2>2, <2>4
<1>8. pc'[t] = "place" => k'.entered[t] = k.tick
  BY <1>3, <1>6
<1> HIDE DEF n, l
<1> QED BY <1>1, <1>2, <1>3, <1>4, <1>5, <1>6, <1>7, <1>8, QuietStep DEF SameSems

(* vTaskDelay and vTaskDelayUntil put the running task to sleep.              *)
LEMMA RanksInsert ==
  ASSUME Inv, Inv', Ranks, Bounds, NEW t, t = k.cur, Insert(t)
  PROVE  Ranks' /\ Bounds'
<1> DEFINE T == 0..TickModulus - 1
<1>1. /\ t \in DOMAIN program /\ t \in Task /\ k \in KernelData /\ Sound(k)
      /\ pc \in [Task -> PcStates]
      /\ pc[t] \notin {"unlock", "resume", "yield"} => Ready(t, k) /\ ~Asleep(t, k)
  BY RunnerIs
<1>2. /\ pc[t] = "insert" /\ program' = program /\ idx' = idx
      /\ pc' = [pc EXCEPT ![t] = "resume"]
  BY DEF Insert, At, Goto
<1>3. Ready(t, k) /\ ~Asleep(t, k)
  BY <1>1, <1>2
<1>4. /\ Call(t).do \in {"delay", "until", "create", "reap"} /\ Call(t) \in KernelCall
      /\ TypeOK /\ program \in Programs /\ idx[t] \in 1..Len(program[t]) /\ k.suspended
  <2>1. ProgInv /\ TypeOK /\ RunInv
    BY DEF Inv, ListInv
  <2> QED BY <1>1, <1>2, <2>1, ProgramIs DEF ProgInv, CallsAt, RunInv, SuspendedPc
<1>5. \/ k' = k
      \/ Call(t).do \in {"delay", "until"} /\ \E at \in T : k' = Sleep(t, at, k)
  <2>0. k.tick \in T /\ last[t] \in T /\ TickModulus \in Nat /\ TickModulus > 2
    BY <1>1, <1>4, KernelAssumption DEF KernelData, TypeOK
  <2>1. ASSUME Call(t).do \in {"delay", "until"}, NEW m \in T PROVE (m + Call(t).ticks) % TickModulus \in T
    <3>1. Call(t).ticks \in 1..TickModulus - 1
      BY <1>4, <2>1, CallIs
    <3> QED BY <2>0, <3>1
  <2>2. CASE Call(t).do = "delay"
    <3>1. k' = Sleep(t, (k.tick + Call(t).ticks) % TickModulus, k)
      BY <2>2 DEF Insert
    <3> QED BY <2>0, <2>1, <2>2, <3>1
  <2>3. CASE Call(t).do = "until"
    <3>1. k' = (IF ShouldDelay(t) THEN Sleep(t, Wakes(t), k) ELSE k)
      BY <2>3 DEF Insert
    <3>2. Wakes(t) \in T
      BY <2>0, <2>1, <2>3 DEF Wakes
    <3> QED BY <2>3, <3>1, <3>2
  <2>4. CASE Call(t).do \in {"create", "reap"}
    <3>1. k' = k
      BY <2>4 DEF Insert
    <3> QED BY <3>1
  <2> QED BY <1>4, <2>2, <2>3, <2>4
<1>6. /\ k'.prio = k.prio /\ k'.waiting = k.waiting /\ Untouched(k, k')
      /\ \A u \in Task \ {t} : Ready(u, k) => Ready(u, k')
      /\ \A u \in Task : Ready(u, k') => Ready(u, k)
      /\ \A u \in Task \ {t} : k'.wake[u] = k.wake[u]
  <2>1. CASE k' = k
    BY <2>1 DEF Untouched, Kept
  <2>2. CASE Call(t).do \in {"delay", "until"} /\ \E at \in T : k' = Sleep(t, at, k)
    <3>1. PICK at \in T : k' = Sleep(t, at, k)
      BY <2>2
    <3>2. t # Idle
      BY <1>1, <1>4, <2>2, DisciplineAssumption DEF Call
    <3>3. /\ Lists(k) /\ Places(k) /\ Tops(k) /\ Ready(Idle, k) /\ ~Contains(k.dying, t)
      BY <1>1, <1>3 DEF Sound, Places, Ready
    <3>4. /\ Untouched(k, k') /\ k'.prio = k.prio /\ k'.waiting = k.waiting
          /\ \A u \in Task : Ready(u, k') <=> Ready(u, k) /\ u # t
          /\ \A u \in Task : u # t => k'.wake[u] = k.wake[u]
      BY <1>1, <1>3, <3>1, <3>2, <3>3, SleepIs
    <3> QED BY <2>2, <3>4
  <2> QED BY <1>5, <2>1, <2>2
<1>7. Urgent(k')
  BY <1>6 DEF Ranks, UrgentInv, Urgent, Untouched
<1>8. Calm(k, k')
  BY <1>3, <1>6 DEF Calm, Untouched, Kept
<1>9. Held(program, t, idx[t]) = {}
  <2>1. pc[t] # "call"
    BY <1>2
  <2> QED BY <2>1, HoldsNothing DEF Bounds
<1>10. pc'[t] = "resume" /\ \A u \in Task \ {t} : pc'[u] = pc[u]
  BY <1>1, <1>2
<1>11. Call(t).do # "take"
  BY <1>4
<1> QED BY <1>1, <1>2, <1>4, <1>6, <1>7, <1>8, <1>9, <1>10, <1>11, QuietStep DEF Untouched, Kept

(* prvCheckTasksWaitingTermination                                            *)
LEMMA RanksReap ==
  ASSUME Inv, Inv', Ranks, Bounds, NEW t, t = k.cur, Reap(t)
  PROVE  Ranks' /\ Bounds'
<1>1. /\ t \in DOMAIN program /\ t \in Task /\ k \in KernelData /\ pc \in [Task -> PcStates]
  BY RunnerIs
<1>2. /\ pc[t] = "reap" /\ program' = program /\ idx' = idx
      /\ k' = [k EXCEPT !.dying = Tail(@)]
      /\ pc' = [pc EXCEPT ![t] = "call"]
  BY DEF Reap, At, Goto
<1>3. /\ k'.ready = k.ready /\ k'.prio = k.prio /\ k'.wake = k.wake /\ k'.waiting = k.waiting
      /\ k'.lock = k.lock /\ k'.holder = k.holder /\ k'.cur = k.cur /\ k'.suspended = k.suspended
      /\ k'.missed = k.missed /\ k'.tick = k.tick /\ k'.left = k.left /\ k'.entered = k.entered
  BY <1>1, <1>2 DEF KernelData
<1>4. Calm(k, k') /\ Urgent(k') /\ \A u \in Task : Ready(u, k) => Ready(u, k')
  BY <1>3 DEF Ranks, UrgentInv, Urgent, Ready, Calm
<1>5. Held(program, t, idx[t]) = {}
  <2>1. pc[t] # "call"
    BY <1>2
  <2> QED BY <2>1, HoldsNothing DEF Bounds
<1>6. pc'[t] = "call" /\ \A u \in Task \ {t} : pc'[u] = pc[u]
  BY <1>1, <1>2
<1> QED BY <1>1, <1>2, <1>3, <1>4, <1>5, <1>6, QuietStep

(* prvUnlockQueue: no mutex was given meanwhile                               *)
LEMMA RanksUnlock ==
  ASSUME Inv, Inv', Ranks, Bounds, NEW t, t = k.cur, Unlock(t)
  PROVE  Ranks' /\ Bounds'
<1> DEFINE q == Call(t).sem
<1>1. /\ t \in DOMAIN program /\ t \in Task /\ k \in KernelData /\ Mutex \subseteq Sem
      /\ Sound(k) /\ Rows(k) /\ Ahead(k)
      /\ k.suspended <=> pc[t] \in SuspendedPc
      /\ pc \in [Task -> PcStates]
      /\ Call(t).do \in {"take", "give"} => q \in Sem
  BY RunnerIs
<1>2. /\ pc[t] = "unlock" /\ program' = program /\ idx' = idx
      /\ k' = UnlockQueue(q, k)
      /\ pc' = [pc EXCEPT ![t] = "resume"]
  BY DEF Unlock, At, Goto
<1>3. q \in Sem /\ k.suspended
  <2>1. ProgInv
    BY DEF Inv, ListInv
  <2> QED BY <1>1, <1>2, <2>1 DEF ProgInv, CallsAt, SuspendedPc
<1> HIDE DEF q
<1>4. /\ Woken(k, k', q) /\ k'.prio = k.prio /\ (Urgent(k) => Urgent(k'))
      /\ k.lock[q] # 1 => k'.waiting = k.waiting
  BY <1>1, <1>2, <1>3, UnlockWakes
<1>5. /\ Forward(k, k') /\ Ungiven(k, k') /\ k'.holder = k.holder
      /\ k'.lock = [k.lock EXCEPT ![q] = -1]
  BY <1>1, <1>2, <1>3, UnlockQueueIs
<1>6. Calm(k, k')
  <2>1. \A m \in Mutex : k'.waiting[m] = k.waiting[m]
    BY <1>1, <1>4 DEF Woken, Ranks, WaitersInv
  <2>2. \A m \in Mutex : k'.lock[m] = 1 => k.lock[m] = 1
    <3>1. k.lock \in [Sem -> -1..1]
      BY <1>1 DEF KernelData
    <3> QED BY <1>1, <1>5, <3>1
  <2> QED BY <1>4, <1>5, <2>1, <2>2 DEF Calm, Woken
<1>7. Urgent(k') /\ \A u \in Task : Ready(u, k) => Ready(u, k')
  BY <1>4, <1>5 DEF Ranks, UrgentInv, Forward
<1>8. Held(program, t, idx[t]) = {}
  <2>1. pc[t] # "call"
    BY <1>2
  <2> QED BY <2>1, HoldsNothing DEF Bounds
<1>9. pc'[t] = "resume" /\ \A u \in Task \ {t} : pc'[u] = pc[u]
  BY <1>1, <1>2
<1> QED BY <1>1, <1>2, <1>5, <1>6, <1>7, <1>8, <1>9, QuietStep DEF Ungiven

(* portYIELD_WITHIN_API                                                       *)
LEMMA RanksYield ==
  ASSUME Inv, Inv', Ranks, Bounds, NEW t, t = k.cur, Yield(t)
  PROVE  Ranks' /\ Bounds'
<1>1. /\ t \in DOMAIN program /\ t \in Task /\ k \in KernelData /\ Sound(k)
      /\ pc \in [Task -> PcStates] /\ idx \in [Task -> Nat \ {0}]
  BY RunnerIs
<1>2. /\ pc[t] = "yield" /\ program' = program /\ k' = vTaskSwitchContext(k)
      /\ pc' = [pc EXCEPT ![t] = "call"]
      /\ idx' = [idx EXCEPT ![t] = NextIdx(t)] \/ idx' = idx
      /\ Call(t).do = "take" => idx' = idx
  BY DEF Yield, At, Goto, Return, Delays
<1>3. /\ Kept(k, k') /\ Forward(k, k')
      /\ k'.prio = k.prio /\ k'.wake = k.wake /\ k'.waiting = k.waiting
  BY <1>1, <1>2, SwitchIs
<1>4. Calm(k, k') /\ Urgent(k') /\ \A u \in Task : Ready(u, k) => Ready(u, k')
  <2>1. Urgent(k')
    BY <1>1, <1>2, SwitchUrgent DEF Ranks, UrgentInv
  <2> QED BY <1>3, <2>1 DEF Calm, Kept, Forward
<1>5. Held(program, t, idx[t]) = {}
  <2>1. pc[t] # "call"
    BY <1>2
  <2> QED BY <2>1, HoldsNothing DEF Bounds
<1>6. pc'[t] = "call" /\ \A u \in Task \ {t} : pc'[u] = pc[u] /\ idx'[u] = idx[u]
  BY <1>1, <1>2
<1> QED BY <1>1, <1>2, <1>3, <1>4, <1>5, <1>6, QuietStep DEF Kept

(* vTaskPriorityInherit and vTaskPlaceOnEventList: a mutex has a holder, who  *)
(* is as urgent as the running task from now on.                              *)
LEMMA RanksPlace ==
  ASSUME Inv, Inv', Ranks, Bounds, NEW t, t = k.cur, Place(t)
  PROVE  Ranks' /\ Bounds'
<1> DEFINE q == Call(t).sem
<1>1. /\ t \in DOMAIN program /\ t \in Task /\ k \in KernelData /\ DOMAIN program \subseteq Task
      /\ Mutex \subseteq Sem /\ None \notin Task /\ pc \in [Task -> PcStates]
  BY RunnerIs
<1>2. /\ pc[t] = "place" /\ program' = program /\ idx' = idx
      /\ pc' = [pc EXCEPT ![t] = "unlock"]
  BY DEF Place, At, Goto
<1>3. /\ Call(t).do = "take" /\ q \in Sem /\ Takes(t, q)
      /\ Ready(t, k) /\ ~Asleep(t, k) /\ k.suspended /\ k.left[t] > 0
      /\ \A p \in Sem : ~Contains(k.waiting[p], t)
      /\ PlaceTo(t, q, k, k')
  BY PlaceIs
<1>4. k.entered[t] = k.tick
  BY <1>2 DEF Ranks, ShortInv
<1> HIDE DEF q
<1>5. /\ \A u \in Task : Ready(u, k') <=> Ready(u, k) /\ u # t
      /\ \A p \in Sem, u \in Task : Contains(k'.waiting[p], u) <=> Contains(k.waiting[p], u) \/ (u = t /\ p = q)
      /\ Kept(k, k') /\ k'.cur = t
      /\ k'.wake[t] = (k.tick + k.left[t]) % TickModulus
      /\ \A u \in Task : u # t => k'.wake[u] = k.wake[u]
      /\ Inherited(k, k', q) /\ Queued(k, k', q)
  BY <1>3 DEF PlaceTo
<1>6. /\ k'.tick = k.tick /\ k'.missed = k.missed /\ k'.suspended = k.suspended
      /\ k'.left = k.left /\ k'.entered = k.entered /\ k'.holder = k.holder /\ k'.lock = k.lock
  BY <1>5 DEF Kept
<1>7. Held(program, t, idx[t]) = {}
  <2>1. pc[t] # "call"
    BY <1>2
  <2> QED BY <2>1, HoldsNothing DEF Bounds
<1>8. k.prio[t] = BasePriority[t]
  BY <1>1, <1>7, NotRaised DEF Ranks
<1>9. pc'[t] = "unlock" /\ \A u \in Task \ {t} : pc'[u] = pc[u]
  <2>1. "unlock" \in PcStates
    BY DEF PcStates
  <2> QED BY <1>1, <1>2, <2>1
<1>10. CASE q \notin Mutex
  <2>1. k'.prio = k.prio /\ \A m \in Mutex : k'.waiting[m] = k.waiting[m]
    BY <1>1, <1>5, <1>10 DEF Inherited, Queued
  <2>2. Calm(k, k')
    BY <1>3, <1>5, <1>6, <2>1 DEF Calm
  <2>3. Urgent(k')
    BY <1>5, <2>1 DEF Ranks, UrgentInv, Urgent
  <2>4. ~(Call(t).do = "take" /\ Call(t).sem \in Mutex /\ Ready(t, k))
    BY <1>10 DEF q
  <2>5. pc'[t] # "place"
    BY <1>9
  <2> QED BY <1>2, <1>5, <1>6, <1>7, <1>9, <2>2, <2>3, <2>4, <2>5, QuietStep
<1>11. CASE q \in Mutex
  <2>1. PICK h \in Task : /\ h = k.holder[q] /\ h # t /\ h # None /\ h \in DOMAIN program
                          /\ Held(program, h, idx[h]) # {} /\ Ready(h, k)
    <3>1. WaitInv /\ HoldInv
      BY DEF Inv, ListInv
    <3>2. ~k.full[q]
      BY <1>2, <1>11, <3>1 DEF WaitInv, Ranks, WaitersInv, q
    <3>3. k.holder[q] \in DOMAIN program
      BY <1>11, <3>1, <3>2 DEF HoldInv
    <3>4. q \in Held(program, k.holder[q], idx[k.holder[q]])
      BY <1>1, <1>11, <3>3, HolderIs
    <3> QED BY <1>1, <1>7, <3>3, <3>4 DEF Bounds, HolderInv
  <2>2. \A u \in Task : k.prio[u] \in Nat /\ BasePriority[u] \in Nat /\ k.prio[u] >= BasePriority[u]
    BY AtLeastBase DEF Ranks
  <2>3. /\ \A u \in Task : u # h => k'.prio[u] = k.prio[u]
        /\ k'.prio[h] \in Nat /\ k'.prio[h] >= k.prio[h] /\ k'.prio[h] >= BasePriority[t]
        /\ k'.prio[h] = k.prio[h] \/ (k'.prio[h] = BasePriority[t] /\ BasePriority[t] > k.prio[h])
    <3>1. k.prio \in [Task -> Priorities] /\ k.prio[t] \in Nat /\ k.prio[h] \in Nat
      BY <1>1, <2>2 DEF KernelData
    <3>2. CASE k.prio[t] > k.prio[h]
      <4>1. k'.prio = [k.prio EXCEPT ![h] = k.prio[t]]
        BY <1>5, <1>11, <2>1, <3>2 DEF Inherited
      <4>2. k'.prio[h] = k.prio[t] /\ \A u \in Task : u # h => k'.prio[u] = k.prio[u]
        BY <3>1, <4>1
      <4> QED BY <1>8, <3>1, <3>2, <4>2
    <3>3. CASE ~(k.prio[t] > k.prio[h])
      <4>1. k'.prio = k.prio
        BY <1>5, <1>11, <2>1, <3>3 DEF Inherited
      <4> QED BY <1>8, <3>1, <3>3, <4>1
    <3> QED BY <3>2, <3>3
  <2>4. Urgent(k')
    <3> SUFFICES ASSUME NEW u \in Task, Ready(u, k') PROVE k'.prio[u] <= k'.prio[t]
      BY <1>5 DEF Urgent
    <3>1. Ready(u, k) /\ k'.prio[t] = k.prio[t] /\ k.prio[u] <= k.prio[t]
      BY <1>1, <1>5, <2>1, <2>3 DEF Ranks, UrgentInv, Urgent
    <3>2. CASE u = h
      BY <1>1, <1>8, <2>2, <2>3, <3>1, <3>2
    <3>3. CASE u # h
      BY <2>3, <3>1, <3>3
    <3> QED BY <3>2, <3>3
  <2>5. RaisedInv'
    <3> SUFFICES ASSUME NEW u \in Task, k'.prio[u] # BasePriority[u]
                 PROVE  /\ k'.prio[u] > BasePriority[u]
                        /\ \E m \in Mutex : /\ k'.holder[m] = u
                                            /\ \E w \in Task : Contains(k'.waiting[m], w) /\ BasePriority[w] >= k'.prio[u]
      BY DEF RaisedInv
    <3>1. CASE k'.prio[u] = k.prio[u]
      <4>1. PICK m \in Mutex : /\ k.holder[m] = u
                               /\ \E w \in Task : Contains(k.waiting[m], w) /\ BasePriority[w] >= k.prio[u]
        BY <3>1 DEF Ranks, RaisedInv
      <4>2. k.prio[u] > BasePriority[u]
        BY <3>1 DEF Ranks, RaisedInv
      <4> QED BY <1>1, <1>5, <1>6, <3>1, <4>1, <4>2
    <3>2. CASE k'.prio[u] # k.prio[u]
      <4>1. u = h /\ k'.prio[h] = BasePriority[t] /\ BasePriority[t] > k.prio[h]
        BY <2>3, <3>2
      <4>2. k'.holder[q] = u /\ Contains(k'.waiting[q], t) /\ BasePriority[t] >= k'.prio[u]
        BY <1>1, <1>3, <1>5, <1>6, <2>1, <2>2, <4>1
      <4>3. k'.prio[u] > BasePriority[u]
        BY <1>1, <2>2, <4>1
      <4> QED BY <1>1, <1>11, <4>2, <4>3
    <3> QED BY <3>1, <3>2
  <2>6. ASSUME NEW x \in Task, Contains(k.waiting[q], x) PROVE k'.prio[x] = BasePriority[x]
    <3>1. Held(program, x, idx[x]) = {}
      BY <1>11, <2>6 DEF Ranks, WaitersInv
    <3>2. x # h /\ k.prio[x] = BasePriority[x]
      BY <2>1, <3>1, NotRaised DEF Ranks
    <3> QED BY <2>3, <3>2
  <2>7. WaitersInv'
    <3>1. ASSUME NEW m \in Mutex, NEW i \in 1..Len(k'.waiting[m]), NEW j \in 1..Len(k'.waiting[m]), i < j
          PROVE  BasePriority[k'.waiting[m][i]] >= BasePriority[k'.waiting[m][j]]
      <4>1. CASE m # q
        <5>1. k'.waiting[m] = k.waiting[m]
          BY <1>1, <1>5, <4>1 DEF Queued
        <5> QED BY <3>1, <5>1 DEF Ranks, WaitersInv
      <4>2. CASE m = q
        <5>1. /\ k.waiting[q] \in Seq(Task) /\ k'.waiting[q] \in Seq(Task)
              /\ \A n \in 1..Len(k.waiting[q]) : k.waiting[q][n] \in Task /\ Contains(k.waiting[q], k.waiting[q][n])
              /\ \A n \in 1..Len(k'.waiting[q]) : k'.waiting[q][n] \in Task /\ Contains(k'.waiting[q], k'.waiting[q][n])
          <6>1. k.waiting[q] \in Seq(Task) /\ k'.waiting[q] \in Seq(Task)
            BY <1>3 DEF Inv, ListInv, TypeOK, KernelData
          <6> QED BY <6>1 DEF Contains
        <5>2. \A n, l \in 1..Len(k.waiting[q]) : n < l => k'.prio[k.waiting[q][n]] >= k'.prio[k.waiting[q][l]]
          BY <1>11, <2>6, <5>1 DEF Ranks, WaitersInv
        <5>3. k'.prio[k'.waiting[q][i]] >= k'.prio[k'.waiting[q][j]]
          BY <1>5, <3>1, <4>2, <5>2 DEF Queued
        <5>4. ASSUME NEW x \in Task, Contains(k'.waiting[q], x) PROVE k'.prio[x] = BasePriority[x]
          BY <1>3, <1>5, <1>8, <2>1, <2>3, <2>6, <5>4
        <5> QED BY <4>2, <5>1, <5>3, <5>4
      <4> QED BY <4>1, <4>2
    <3>2. ASSUME NEW m \in Mutex, NEW w \in Task, Contains(k'.waiting[m], w)
          PROVE  /\ Held(program', w, idx'[w]) = {}
                 /\ k'.left[w] > 0 /\ k'.wake[w] = (k'.entered[w] + k'.left[w]) % TickModulus
      <4>1. CASE Contains(k.waiting[m], w)
        <5>1. w # t
          BY <1>1, <1>3, <4>1
        <5> QED BY <1>2, <1>5, <1>6, <4>1, <5>1 DEF Ranks, WaitersInv
      <4>2. CASE w = t
        BY <1>2, <1>3, <1>4, <1>5, <1>6, <1>7, <4>2
      <4> QED BY <1>1, <1>5, <3>2, <4>1, <4>2
    <3>3. \A m \in Mutex : k'.lock[m] # 1
      BY <1>6 DEF Ranks, WaitersInv
    <3> QED BY <3>1, <3>2, <3>3 DEF WaitersInv
  <2>8. ShortInv'
    <3>1. \A u \in Task \ {t} : pc'[u] \in {pc[u], "call"}
      BY <1>9
    <3>2. pc'[t] # "place"
      BY <1>9
    <3> QED BY <1>2, <1>3, <1>6, <3>1, <3>2, ShortStep DEF Ranks
  <2>9. HolderInv'
    BY <1>1, <1>2, <1>5, <1>7, <1>9 DEF Bounds, HolderInv
  <2>10. WakerInv'
    <3> SUFFICES ASSUME NEW m \in Mutex, k'.holder[m] = None, NEW w \in Task, Contains(k'.waiting[m], w)
                 PROVE  \E u \in DOMAIN program :
                          Takes(u, m)' /\ Ready(u, k') /\ BasePriority[u] >= BasePriority[w]
      BY <1>2 DEF WakerInv
    <3>1. m # q /\ k.holder[m] = None /\ Contains(k.waiting[m], w)
      BY <1>1, <1>5, <1>6, <2>1
    <3>2. PICK u \in DOMAIN program : Takes(u, m) /\ Ready(u, k) /\ BasePriority[u] >= BasePriority[w]
      BY <3>1 DEF Bounds, WakerInv
    <3>3. u # t
      BY <1>3, <3>1, <3>2 DEF Takes
    <3> QED BY <1>1, <1>2, <1>5, <3>2, <3>3 DEF Takes, Call
  <2>11. BoundInv'
    <3> SUFFICES ASSUME NEW m \in Mutex, NEW g \in Task, k'.holder[m] = g,
                        NEW w \in Task, Contains(k'.waiting[m], w)
                 PROVE  k'.prio[g] >= BasePriority[w] \/ Alone(g, w)
      BY <1>2 DEF BoundInv, Alone
    <3>1. CASE Contains(k.waiting[m], w)
      <4>1. k.prio[g] >= BasePriority[w] \/ Alone(g, w)
        BY <1>6, <3>1 DEF Bounds, BoundInv
      <4>2. k'.prio[g] \in Nat /\ k'.prio[g] >= k.prio[g] /\ k.prio[g] \in Nat /\ BasePriority[w] \in Nat
        BY <2>2, <2>3
      <4> QED BY <4>1, <4>2
    <3>2. CASE w = t /\ m = q
      BY <1>6, <2>1, <2>3, <3>2
    <3> QED BY <1>1, <1>5, <3>1, <3>2
  <2> QED BY <2>4, <2>5, <2>7, <2>8, <2>9, <2>10, <2>11 DEF Ranks, UrgentInv, Bounds
<1> QED BY <1>10, <1>11

-------------------------------------------------------------------------------
(* Steps of the time *)

(* Ticks add up until the counter has turned.                                 *)
LEMMA ElapsedSum ==
  ASSUME NEW a \in 0..TickModulus - 1, NEW b \in 0..TickModulus - 1, NEW n \in Nat,
         ((a - b) % TickModulus) + n < TickModulus
  PROVE  (a + n - b) % TickModulus = ((a - b) % TickModulus) + n
<1> DEFINE M == TickModulus
<1>0. M \in Nat /\ M > 2
  BY KernelAssumption
<1> HIDE DEF M
<1>1. PICK d \in Int : d = a - b /\ -M <= d /\ d < 2 * M /\ -M < d /\ d < M
  BY <1>0 DEF M
<1>2. PICK e \in Int : e = (a - b) % M /\ e = (IF d < 0 THEN d + M ELSE d) /\ e \in 0..M - 1
  <2>1. d % M = IF d < 0 THEN d + M ELSE IF d < M THEN d ELSE d - M
    BY <1>0, <1>1, Mod
  <2> QED BY <1>0, <1>1, <2>1
<1>3. e + n < M
  BY <1>0, <1>2 DEF M
<1>4. PICK g \in Int : g = a + n - b /\ g = d + n /\ -M <= g /\ g < 2 * M
  BY <1>0, <1>1, <1>2, <1>3
<1>5. g % M = IF g < 0 THEN g + M ELSE IF g < M THEN g ELSE g - M
  BY <1>0, <1>4, Mod
<1>6. g % M = e + n
  BY <1>0, <1>1, <1>2, <1>3, <1>4, <1>5
<1> QED BY <1>2, <1>4, <1>6 DEF M

(* As long as nobody's time is over the ticks wake nobody who waits for a     *)
(* mutex.                                                                     *)
LEMMA LapsedCalm ==
  ASSUME Inv, Ranks, NEW s, NEW n \in Nat, Lapsed(k, s, n),
         \A u \in DOMAIN program : k.left[u] > 0 /\ Call(u).sem \in Mutex => Elapsed(u, k) + n < k.left[u]
  PROVE  /\ \A m \in Mutex : s.waiting[m] = k.waiting[m]
         /\ \A u \in DOMAIN program : k.left[u] > 0 /\ Call(u).sem \in Mutex =>
              (s.tick - k.entered[u]) % TickModulus = Elapsed(u, k) + n
<1>1. /\ k \in KernelData /\ DOMAIN program \subseteq Task /\ Mutex \subseteq Sem
  BY RunnerIs
<1>2. s.tick = (k.tick + n) % TickModulus
  BY DEF Lapsed
<1>3. ASSUME NEW u \in DOMAIN program
      PROVE  /\ k.tick \in 0..TickModulus - 1 /\ k.entered[u] \in 0..TickModulus - 1
             /\ k.left[u] \in 0..TickModulus - 1
  BY <1>1 DEF KernelData, Forever
<1>4. ASSUME NEW m \in Mutex PROVE s.waiting[m] = k.waiting[m]
  <2>1. ASSUME NEW w \in Task, Contains(k.waiting[m], w), NEW i \in 1..n
        PROVE  k.wake[w] # (k.tick + i) % TickModulus
    <3>1. w \in DOMAIN program /\ Call(w).sem = m
      BY <1>1, <2>1, WaiterIs
    <3>2. k.left[w] > 0 /\ k.wake[w] = (k.entered[w] + k.left[w]) % TickModulus
      BY <2>1 DEF Ranks, WaitersInv
    <3>3. PICK a \in 0..TickModulus - 1 : a = k.tick
      BY <1>3, <3>1
    <3>4. PICK b \in 0..TickModulus - 1 : b = k.entered[w]
      BY <1>3, <3>1
    <3>5. PICK l \in 0..TickModulus - 1 : l = k.left[w]
      BY <1>3, <3>1
    <3>6. PICK e \in Int : e = (a - b) % TickModulus /\ e + n < l
      <4>1. TickModulus \in Nat \ {0} /\ a - b \in Int
        BY KernelAssumption
      <4>2. (a - b) % TickModulus \in Int
        BY <4>1
      <4> QED BY <3>1, <3>2, <3>3, <3>4, <3>5, <4>2 DEF Elapsed
    <3>7. i \in Nat /\ ((a - b) % TickModulus) + i < l
      <4>1. e + i < l
        <5>1. l \in Int
          BY KernelAssumption
        <5> QED BY <3>6, <5>1
      <4> QED BY <3>6, <4>1
    <3>8. (b + l) % TickModulus # (a + i) % TickModulus
      BY <3>7, ElapsedOn
    <3> QED BY <3>2, <3>3, <3>4, <3>5, <3>8
  <2> QED BY <1>1, <2>1 DEF Lapsed
<1>5. ASSUME NEW u \in DOMAIN program, k.left[u] > 0, Call(u).sem \in Mutex
      PROVE  (s.tick - k.entered[u]) % TickModulus = Elapsed(u, k) + n
  <2>1. PICK a \in 0..TickModulus - 1 : a = k.tick
    BY <1>3
  <2>2. PICK b \in 0..TickModulus - 1 : b = k.entered[u]
    BY <1>3
  <2>3. PICK l \in 0..TickModulus - 1 : l = k.left[u]
    BY <1>3
  <2>4. ((a - b) % TickModulus) + n < l
    BY <1>5, <2>1, <2>2, <2>3 DEF Elapsed
  <2>5. (((a + n) % TickModulus) - b) % TickModulus = ((a - b) % TickModulus) + n
    BY <2>4, ElapsedOn
  <2> QED BY <1>2, <2>1, <2>2, <2>5 DEF Elapsed
<1> QED BY <1>4, <1>5

(* xTaskResumeAll: the ticks that were missed wake nobody who waits for a     *)
(* mutex.                                                                     *)
LEMMA RanksResume ==
  ASSUME Inv, Inv', Ranks, Bounds, NEW t, t = k.cur, Resume(t)
  PROVE  Ranks' /\ Bounds'
<1> DEFINE z == xTaskResumeAll(k)
<1>1. /\ t \in DOMAIN program /\ t \in Task /\ k \in KernelData /\ DOMAIN program \subseteq Task
      /\ Sound(k) /\ Rows(k) /\ Ahead(k)
      /\ pc \in [Task -> PcStates] /\ idx \in [Task -> Nat \ {0}]
      /\ Mutex \subseteq Sem /\ RunInv /\ k.missed \in Nat
  <2>1. RunInv /\ k.missed \in Nat
    BY KernelAssumption DEF Inv, ListInv, TypeOK, KernelData
  <2> QED BY <2>1, RunnerIs
<1>2. /\ pc[t] = "resume" /\ program' = program
      /\ k' = IF after[t] = "fail" THEN Forgotten(t, z) ELSE z
      /\ \E l \in {"yield", "create", "reap", "call"} : pc' = [pc EXCEPT ![t] = l]
      /\ idx' = idx \/ (Delays(t) /\ idx' = [idx EXCEPT ![t] = NextIdx(t)])
  <2>1. CASE after[t] = "yield" /\ ~YieldRequired(k)
    BY <2>1 DEF Resume, At, Goto
  <2>2. CASE ~(after[t] = "yield" /\ ~YieldRequired(k))
    <3>1. /\ pc[t] = "resume" /\ program' = program
          /\ k' = IF after[t] = "fail" THEN Forgotten(t, z) ELSE z
          /\ IF Delays(t) THEN Return(t)
             ELSE /\ Goto(t, IF after[t] \in {"create", "reap"} THEN after[t] ELSE "call")
                  /\ UNCHANGED idx
      BY <2>2 DEF Resume, At
    <3> QED BY <3>1 DEF Return, Goto
  <2> QED BY <2>1, <2>2
<1>3. /\ Sound(z) /\ Forward(k, z) /\ ~z.suspended /\ z.missed = 0
      /\ z.left = k.left /\ z.entered = k.entered /\ z.prio = k.prio
      /\ z.holder = k.holder /\ z.lock = k.lock
      /\ Lapsed(k, z, k.missed) /\ Urgent(z)
  BY <1>1, ResumeAllIs DEF Ranks, UrgentInv
<1> HIDE DEF z
<1>4. /\ SameLists(z, k') /\ SameSems(z, k')
      /\ \A u \in Task : u # t \/ after[t] # "fail" => k'.left[u] = k.left[u] /\ k'.entered[u] = k.entered[u]
      /\ after[t] = "fail" => k'.left[t] = 0
  <2>1. z \in KernelData
    BY <1>3 DEF Sound, Lists
  <2>2. CASE after[t] = "fail"
    BY <1>1, <1>2, <1>3, <2>1, <2>2, ForgottenIs, ForgottenTimes
  <2>3. CASE after[t] # "fail"
    BY <1>2, <1>3, <2>3 DEF SameLists, SameSems
  <2> QED BY <2>2, <2>3
<1>5. \A u \in DOMAIN program : k.left[u] > 0 /\ Call(u).sem \in Mutex => Elapsed(u, k) + k.missed < k.left[u]
  BY DEF Ranks, ShortInv
<1>6. PICK n \in Nat : n = k.missed
  BY <1>1
<1>7. /\ \A m \in Mutex : z.waiting[m] = k.waiting[m]
      /\ \A u \in DOMAIN program : k.left[u] > 0 /\ Call(u).sem \in Mutex =>
           (z.tick - k.entered[u]) % TickModulus = Elapsed(u, k) + n
  BY <1>3, <1>5, <1>6, LapsedCalm
<1>8. Calm(k, k') /\ Urgent(k')
  <2>1. Calm(k, k')
    BY <1>3, <1>4, <1>7 DEF Calm, SameLists, SameSems, Lapsed, Asleep
  <2> QED BY <1>3, <1>4, <2>1 DEF Urgent, SameLists, SameSems, Ready
<1>9. /\ \A u \in Task : Ready(u, k) => Ready(u, k')
      /\ ~k'.suspended /\ k'.missed = 0 /\ k'.holder = k.holder /\ k'.tick = z.tick
  BY <1>3, <1>4 DEF SameLists, SameSems, Ready, Forward
<1>10. /\ \A u \in Task \ {t} : pc'[u] = pc[u] /\ idx'[u] = idx[u]
       /\ pc'[t] \in {"yield", "create", "reap", "call"}
       /\ Call(t).do = "take" => idx'[t] = idx[t]
  BY <1>1, <1>2 DEF Delays
<1>11. RaisedInv' /\ WaitersInv'
  <2>1. ASSUME NEW u \in DOMAIN program, Asleep(u, k), Call(u).do = "take"
        PROVE  k'.left[u] = k.left[u] /\ k'.entered[u] = k.entered[u] /\ idx'[u] = idx[u]
    <3>1. u # t \/ after[t] # "fail"
      BY <1>2, <2>1 DEF RunInv, Inv, ListInv
    <3> QED BY <1>1, <1>4, <1>10, <2>1, <3>1
  <2> QED BY <1>2, <1>8, <2>1, CalmStep DEF Ranks
<1>12. ShortInv'
  <2>1. pc'[k'.cur] # "place"
    <3>1. k'.cur \in Task
      BY DEF Inv, ListInv, TypeOK, KernelData
    <3>2. \A u \in Task \ {t} : pc[u] # "place"
      BY <1>1 DEF RunInv, SuspendedPc
    <3> QED BY <1>10, <3>1, <3>2
  <2>2. ASSUME NEW u \in DOMAIN program, k'.left[u] > 0
        PROVE  /\ Call(u)'.do = "take"
               /\ Call(u)'.sem \in Mutex => Elapsed(u, k)' + k'.missed < k'.left[u]
    <3>1. k'.left[u] = k.left[u] /\ k'.entered[u] = k.entered[u]
      <4>1. u # t \/ after[t] # "fail"
        BY <1>4, <2>2
      <4> QED BY <1>1, <1>4, <4>1
    <3>2. Call(u).do = "take" /\ (Call(u).sem \in Mutex => Elapsed(u, k) + n < k.left[u])
      BY <1>6, <2>2, <3>1 DEF Ranks, ShortInv
    <3>3. Call(u)' = Call(u)
      BY <1>1, <1>2, <1>10, <3>2 DEF Call
    <3>4. Call(u).sem \in Mutex => Elapsed(u, k)' = Elapsed(u, k) + n
      <4>1. Elapsed(u, k)' = (z.tick - k.entered[u]) % TickModulus
        BY <1>9, <3>1 DEF Elapsed
      <4> QED BY <1>7, <2>2, <3>1, <4>1
    <3>5. Call(u).sem \in Mutex => Elapsed(u, k)' + k'.missed < k'.left[u]
      <4>1. Elapsed(u, k) \in Int
        <5>1. /\ k.tick \in 0..TickModulus - 1 /\ k.entered[u] \in 0..TickModulus - 1
              /\ TickModulus \in Nat /\ TickModulus > 2
          BY <1>1, KernelAssumption DEF KernelData
        <5> QED BY <5>1 DEF Elapsed
      <4> QED BY <1>9, <3>1, <3>2, <3>4, <4>1
    <3> QED BY <3>2, <3>3, <3>5
  <2> QED BY <1>2, <1>9, <2>1, <2>2 DEF ShortInv
<1>13. Bounds'
  <2>1. Held(program, t, idx[t]) = {}
    <3>1. pc[t] # "call"
      BY <1>2
    <3> QED BY <3>1, HoldsNothing DEF Bounds
  <2> QED BY <1>1, <1>2, <1>8, <1>9, <1>10, <2>1, BoundStep
<1> QED BY <1>8, <1>11, <1>12, <1>13 DEF Ranks, UrgentInv

(* vTick and the switch that follows it: as nobody has waited for a mutex for *)
(* a whole turn of the counter, nobody is woken who waits for one.            *)
LEMMA RanksTick ==
  ASSUME Inv, Inv', Ranks, Bounds, Tick
  PROVE  Ranks' /\ Bounds'
<1> DEFINE z == vTaskIncrementTick(k)
<1>1. /\ k.cur \in DOMAIN program /\ k \in KernelData /\ DOMAIN program \subseteq Task
      /\ Sound(k) /\ Rows(k) /\ Ahead(k)
      /\ k.suspended <=> pc[k.cur] \in SuspendedPc
      /\ RunInv /\ k.missed \in Nat
  <2>1. RunInv /\ k.missed \in Nat
    BY KernelAssumption DEF Inv, ListInv, TypeOK, KernelData
  <2> QED BY <2>1, RunnerIs
<1>2. /\ MutexWaitsAreShort /\ k.missed < MaxMissed /\ k' = vTaskSwitchContext(z)
      /\ program' = program /\ pc' = pc /\ idx' = idx
  BY DEF Tick
<1>3. ASSUME NEW u \in DOMAIN program, k.left[u] > 0, Call(u).sem \in Mutex
      PROVE  Elapsed(u, k) \in Int /\ Elapsed(u, k) + k.missed + 1 < k.left[u]
  <2>1. /\ k.tick \in 0..TickModulus - 1 /\ k.entered[u] \in 0..TickModulus - 1
        /\ k.left[u] \in 0..TickModulus - 1 /\ TickModulus \in Nat /\ TickModulus > 2
    BY <1>1, KernelAssumption DEF KernelData, Forever
  <2>2. PICK a \in 0..TickModulus - 1 : a = k.tick
    BY <2>1
  <2>3. PICK b \in 0..TickModulus - 1 : b = k.entered[u]
    BY <2>1
  <2>4. PICK n \in Nat : n = k.missed + 1
    BY <1>1
  <2>5. PICK e \in Int : e = Elapsed(u, k) /\ e = (a - b) % TickModulus
    <3>1. (a - b) % TickModulus \in Int
      BY <2>1
    <3> QED BY <2>2, <2>3, <3>1 DEF Elapsed
  <2>6. e + k.missed < k.left[u]
    BY <1>3, <2>5 DEF Ranks, ShortInv
  <2>7. ((a - b) % TickModulus) + n < TickModulus
    BY <1>1, <2>1, <2>4, <2>5, <2>6
  <2>8. (a + n - b) % TickModulus = ((a - b) % TickModulus) + n
    BY <2>7, ElapsedSum
  <2>9. (k.tick + k.missed + 1 - k.entered[u]) % TickModulus < k.left[u]
    <3>1. u \in Task
      BY <1>1
    <3> QED BY <1>2, <1>3, <3>1 DEF MutexWaitsAreShort
  <2>10. k.tick + k.missed + 1 - k.entered[u] = a + n - b
    BY <1>1, <2>1, <2>2, <2>3, <2>4
  <2>11. e + n < k.left[u]
    BY <2>5, <2>8, <2>9, <2>10
  <2> QED BY <1>1, <2>1, <2>4, <2>5, <2>11
<1>4. /\ Sound(z) /\ Forward(k, z)
      /\ z.suspended = k.suspended /\ z.left = k.left /\ z.entered = k.entered /\ z.cur = k.cur
      /\ z.prio = k.prio /\ z.holder = k.holder /\ z.lock = k.lock
      /\ \A m \in Mutex : z.waiting[m] = k.waiting[m]
      /\ \A u \in Task : Asleep(u, z) => z.wake[u] = k.wake[u]
      /\ z.missed = IF k.suspended THEN k.missed + 1 ELSE 0
      /\ k.suspended => z.tick = k.tick
      /\ Urgent(z) \/ ~z.suspended
      /\ \A u \in DOMAIN program : k.left[u] > 0 /\ Call(u).sem \in Mutex =>
           ((z.tick - k.entered[u]) % TickModulus) + z.missed = Elapsed(u, k) + k.missed + 1
  <2>1. CASE k.suspended
    <3>1. z = [k EXCEPT !.missed = @ + 1]
      BY <2>1 DEF vTaskIncrementTick
    <3>2. k.missed + 1 \in 0..MaxMissed
      <4>1. k.missed \in 0..MaxMissed
        BY <1>1 DEF KernelData
      <4> QED BY <1>2, <4>1, KernelAssumption
    <3> HIDE DEF z
    <3>3. z \in KernelData /\ SameLists(k, z) /\ z.missed = k.missed + 1
      BY <1>1, <3>1, <3>2 DEF KernelData, SameLists
    <3>4. /\ z.suspended = k.suspended /\ z.left = k.left /\ z.entered = k.entered /\ z.cur = k.cur
          /\ z.holder = k.holder /\ z.lock = k.lock
      BY <1>1, <3>1 DEF KernelData
    <3>5. Sound(z) /\ Forward(k, z)
      BY <1>1, <3>3, SameListsIs
    <3>6. Urgent(z)
      BY <3>3, <3>4 DEF Ranks, UrgentInv, Urgent, Ready, SameLists
    <3>7. \A u \in DOMAIN program : k.left[u] > 0 /\ Call(u).sem \in Mutex =>
            ((z.tick - k.entered[u]) % TickModulus) + z.missed = Elapsed(u, k) + k.missed + 1
      BY <1>1, <1>3, <3>3 DEF SameLists, Elapsed
    <3> QED BY <2>1, <3>3, <3>4, <3>5, <3>6, <3>7 DEF SameLists
  <2>2. CASE ~k.suspended
    <3>1. /\ Sound(z) /\ Forward(k, z) /\ Unticked(k, z) /\ z.missed = k.missed /\ Lapsed(k, z, 1)
      BY <1>1, <2>2, IncrementTickIs
    <3>2. k.missed = 0
      BY <2>2 DEF Ranks, ShortInv
    <3> HIDE DEF z
    <3>3. PICK n \in Nat : n = 1
      OBVIOUS
    <3>4. \A u \in DOMAIN program : k.left[u] > 0 /\ Call(u).sem \in Mutex => Elapsed(u, k) + n < k.left[u]
      BY <1>3, <3>2, <3>3
    <3>5. /\ \A m \in Mutex : z.waiting[m] = k.waiting[m]
          /\ \A u \in DOMAIN program : k.left[u] > 0 /\ Call(u).sem \in Mutex =>
               (z.tick - k.entered[u]) % TickModulus = Elapsed(u, k) + n
      BY <3>1, <3>3, <3>4, LapsedCalm
    <3>6. \A u \in DOMAIN program : k.left[u] > 0 /\ Call(u).sem \in Mutex =>
            ((z.tick - k.entered[u]) % TickModulus) + z.missed = Elapsed(u, k) + k.missed + 1
      BY <1>3, <3>1, <3>2, <3>3, <3>5
    <3> QED BY <2>2, <3>1, <3>2, <3>5, <3>6 DEF Unticked, Lapsed
  <2> QED BY <2>1, <2>2
<1> HIDE DEF z
<1>5. /\ Kept(z, k') /\ Forward(z, k')
      /\ k'.prio = z.prio /\ k'.wake = z.wake /\ k'.waiting = z.waiting
      /\ k'.delayed = z.delayed /\ k'.overflow = z.overflow
      /\ z.suspended => k'.cur = z.cur
  BY <1>2, <1>4, SwitchIs
<1>6. Calm(k, k') /\ Urgent(k') /\ \A u \in Task : Ready(u, k) => Ready(u, k')
  <2>1. Urgent(k')
    BY <1>2, <1>4, SwitchUrgent
  <2>2. \A u \in Task : Ready(u, k) => Ready(u, k')
    BY <1>4, <1>5 DEF Forward
  <2> QED BY <1>4, <1>5, <2>1, <2>2 DEF Calm, Kept, Asleep
<1>7. /\ k'.left = k.left /\ k'.entered = k.entered /\ k'.holder = k.holder
      /\ k'.suspended = k.suspended /\ k'.tick = z.tick /\ k'.missed = z.missed
  BY <1>4, <1>5 DEF Kept
<1>8. RaisedInv' /\ WaitersInv'
  BY <1>2, <1>6, <1>7, CalmStep DEF Ranks
<1>9. ShortInv'
  <2>1. ~k'.suspended => k'.missed = 0
    BY <1>4, <1>7
  <2>2. pc'[k'.cur] = "place" => k'.entered[k'.cur] = k'.tick
    <3>1. CASE k.suspended
      BY <1>2, <1>4, <1>5, <1>7, <3>1 DEF Ranks, ShortInv
    <3>2. CASE ~k.suspended
      <4>1. k'.cur \in Task
        BY DEF Inv, ListInv, TypeOK, KernelData
      <4>2. \A u \in Task : pc[u] # "place"
        BY <1>1, <3>2 DEF RunInv, SuspendedPc
      <4> QED BY <1>2, <4>1, <4>2
    <3> QED BY <3>1, <3>2
  <2>3. ASSUME NEW u \in DOMAIN program, k'.left[u] > 0
        PROVE  /\ Call(u)'.do = "take"
               /\ Call(u)'.sem \in Mutex => Elapsed(u, k)' + k'.missed < k'.left[u]
    <3>1. Call(u)' = Call(u) /\ k.left[u] > 0 /\ Call(u).do = "take"
      BY <1>2, <1>7, <2>3 DEF Call, Ranks, ShortInv
    <3>2. Elapsed(u, k)' = (z.tick - k.entered[u]) % TickModulus
      BY <1>7 DEF Elapsed
    <3> QED BY <1>3, <1>4, <1>7, <3>1, <3>2
  <2> QED BY <1>2, <2>1, <2>2, <2>3 DEF ShortInv
<1>10. Bounds'
  <2>1. Held(program, k.cur, idx[k.cur]) # {} => pc'[k.cur] = "call" /\ Ready(k.cur, k')
    BY <1>1, <1>2, <1>6 DEF Bounds, HolderInv
  <2> QED BY <1>1, <1>2, <1>6, <1>7, <2>1, BoundStep
<1> QED BY <1>6, <1>8, <1>9, <1>10 DEF Ranks, UrgentInv

(* An interrupt gives a semaphore, which is no mutex.                         *)
LEMMA RanksInterrupt ==
  ASSUME Inv, Inv', Ranks, Bounds, NEW q \in IsrSem, Interrupt(q)
  PROVE  Ranks' /\ Bounds'
<1>1. PICK t \in DOMAIN program : t = k.cur
  BY RunnerIs
<1>2. /\ t \in Task /\ k \in KernelData /\ Sound(k) /\ Rows(k) /\ Ahead(k)
  BY <1>1, RunnerIs
<1>3. q \in Sem \ Mutex /\ k.lock[q] # 1
  BY KernelAssumption DEF Interrupt, Inv, ListInv, LockInv
<1>4. /\ k' = GenericSendFromISR(q, k)
      /\ program' = program /\ pc' = pc /\ idx' = idx
  BY DEF Interrupt
<1>5. Woken(k, k', q) /\ k'.prio = k.prio /\ (Urgent(k) => Urgent(k'))
  BY <1>2, <1>3, <1>4, SendFromISRWakes
<1>6. /\ Forward(k, k') /\ Ungiven(k, k')
      /\ k'.holder = [k.holder EXCEPT ![q] = None]
      /\ k'.lock = [k.lock EXCEPT ![q] = IF @ = -1 THEN -1 ELSE 1]
  BY <1>2, <1>3, <1>4, SendFromISRIs
<1>7. \A m \in Mutex : /\ k'.holder[m] = k.holder[m] /\ k'.lock[m] = k.lock[m]
                       /\ k'.waiting[m] = k.waiting[m]
  <2>1. k.holder \in [Sem -> Task \cup {None}] /\ k.lock \in [Sem -> -1..1] /\ Mutex \subseteq Sem
    BY <1>2, KernelAssumption DEF KernelData
  <2>2. \A m \in Mutex : m \in Sem \ {q}
    BY <1>3, <2>1
  <2> QED BY <1>5, <1>6, <2>1, <2>2 DEF Woken
<1>8. Calm(k, k') /\ Urgent(k') /\ \A u \in Task : Ready(u, k) => Ready(u, k')
  BY <1>5, <1>6, <1>7 DEF Calm, Woken, Forward, Ranks, UrgentInv
<1>9. Held(program, t, idx[t]) # {} => pc[t] = "call" /\ Ready(t, k)
  BY DEF Bounds, HolderInv
<1>10. pc[t] = "place" => k.entered[t] = k.tick
  BY <1>1 DEF Ranks, ShortInv
<1> QED BY <1>1, <1>2, <1>4, <1>6, <1>7, <1>8, <1>9, <1>10, QuietStep DEF Ungiven

(* xTaskCreate: the new task, which holds nothing, runs if it is more urgent. *)
LEMMA RanksCreate ==
  ASSUME Inv, Inv', Ranks, Bounds, NEW t, t = k.cur, Create(t)
  PROVE  Ranks' /\ Bounds'
<1>1. /\ t \in DOMAIN program /\ t \in Task /\ k \in KernelData /\ Sound(k)
      /\ pc \in [Task -> PcStates] /\ idx \in [Task -> Nat \ {0}]
      /\ k.suspended <=> pc[t] \in SuspendedPc
  BY RunnerIs
<1>2. /\ pc[t] = "create" /\ program' = program
      /\ pc' = [pc EXCEPT ![t] = "call"] /\ idx' = [idx EXCEPT ![t] = NextIdx(t)]
  BY DEF Create, At, Return, Goto
<1>3. Call(t).do = "create" /\ ~k.suspended
  BY <1>1, <1>2 DEF Inv, ListInv, ProgInv, CallsAt, SuspendedPc
<1>4. /\ Calm(k, k') /\ Urgent(k') /\ Kept(k, k')
      /\ \A u \in Task : Ready(u, k) => Ready(u, k')
  <2>1. CASE Free(k) = {}
    <3>1. k' = k
      BY <2>1 DEF Create
    <3> QED BY <3>1 DEF Calm, Kept, Ranks, UrgentInv
  <2>2. CASE Free(k) # {}
    <3>1. PICK c \in Free(k) :
             k' = IF k.prio[t] < BasePriority[c] THEN vTaskSwitchContext(AddTaskToReadyQueue(c, k))
                  ELSE AddTaskToReadyQueue(c, k)
      BY <2>2 DEF Create
    <3> DEFINE s == AddTaskToReadyQueue(c, k)
    <3>2. /\ c \in Child /\ c \in Task /\ ~Contains(k.dying, c) /\ ~Asleep(c, k)
          /\ \A p \in Priorities : ~Contains(k.ready[p], c)
      BY <3>1, KernelAssumption DEF Free, Asleep
    <3>3. /\ Sound(s) /\ Untouched(k, s)
          /\ s.prio = k.prio /\ s.wake = k.wake /\ s.delayed = k.delayed /\ s.overflow = k.overflow
          /\ s.waiting = k.waiting
          /\ \A u \in Task : Ready(u, s) <=> Ready(u, k) \/ u = c
      BY <1>1, <3>2, AddedIs
    <3>4. k' = IF k.prio[t] < BasePriority[c] THEN vTaskSwitchContext(s) ELSE s
      BY <3>1
    <3> HIDE DEF s
    <3>5. k.prio[c] = BasePriority[c]
      <4>1. c \in DOMAIN program => Held(program, c, idx[c]) = {}
        BY <3>2, ChildHoldsNothing DEF Inv, ListInv, ProgInv
      <4> QED BY <3>2, <4>1, NotRaised DEF Ranks
    <3>6. CASE k.prio[t] < BasePriority[c]
      <4>1. k' = vTaskSwitchContext(s) /\ ~s.suspended
        BY <1>3, <3>3, <3>4, <3>6 DEF Untouched, Kept
      <4>2. Urgent(k')
        BY <3>3, <4>1, SwitchUrgent
      <4>3. /\ Kept(s, k') /\ Forward(s, k')
            /\ k'.prio = s.prio /\ k'.wake = s.wake /\ k'.waiting = s.waiting
        BY <3>3, <4>1, SwitchIs
      <4> QED BY <3>3, <4>2, <4>3 DEF Calm, Kept, Untouched, Forward
    <3>7. CASE ~(k.prio[t] < BasePriority[c])
      <4>1. k' = s
        BY <3>4, <3>7
      <4>2. Urgent(k')
        <5>1. k.prio[c] \in Nat /\ k.prio[t] \in Nat
          BY <1>1, <3>2, AtLeastBase DEF Ranks
        <5>2. k.prio[c] <= k.prio[t]
          BY <3>5, <3>7, <5>1
        <5> QED BY <3>3, <4>1, <5>2 DEF Ranks, UrgentInv, Urgent, Untouched
      <4> QED BY <3>3, <4>1, <4>2 DEF Calm, Kept, Untouched
    <3> QED BY <3>6, <3>7
  <2> QED BY <2>1, <2>2
<1>5. Held(program, t, idx[t]) = {}
  <2>1. pc[t] # "call"
    BY <1>2
  <2> QED BY <2>1, HoldsNothing DEF Bounds
<1>6. pc'[t] = "call" /\ \A u \in Task \ {t} : pc'[u] = pc[u] /\ idx'[u] = idx[u]
  BY <1>1, <1>2
<1> QED BY <1>1, <1>2, <1>3, <1>4, <1>5, <1>6, QuietStep DEF Kept

(* vTaskDelete: the child waits for no semaphore.                             *)
LEMMA RanksDelete ==
  ASSUME Inv, Inv', Ranks, Bounds, NEW t, t = k.cur, Delete(t)
  PROVE  Ranks' /\ Bounds'
<1>1. /\ t \in DOMAIN program /\ t \in Task /\ k \in KernelData /\ Sound(k)
      /\ pc \in [Task -> PcStates] /\ idx \in [Task -> Nat \ {0}]
      /\ child \in Child \cup {None} /\ Child \subseteq Task /\ program \in Programs
      /\ idx[t] \in 1..Len(program[t])
  <2>1. /\ child \in Child \cup {None} /\ Child \subseteq Task /\ program \in Programs /\ ProgInv
    BY KernelAssumption DEF Inv, ListInv, TypeOK
  <2> QED BY <2>1, RunnerIs DEF ProgInv
<1>2. pc[t] = "call" /\ Call(t).do = "delete" /\ program' = program
  BY DEF Delete, Calls, At
<1>3. Held(program, t, idx[t]) = {}
  <2>1. Call(t).do \notin {"take", "give"}
    BY <1>2
  <2> QED BY <2>1, HoldsNothing DEF Bounds
<1>4. CASE child = None
  <2>1. /\ k' = k /\ pc' = [pc EXCEPT ![t] = "call"] /\ idx' = [idx EXCEPT ![t] = NextIdx(t)]
    BY <1>4 DEF Delete, Return, Goto
  <2>2. Calm(k, k') /\ Urgent(k')
    BY <2>1 DEF Calm, Ranks, UrgentInv
  <2>3. pc'[t] = "call" /\ \A u \in Task \ {t} : pc'[u] = pc[u] /\ idx'[u] = idx[u]
    BY <1>1, <2>1
  <2> QED BY <1>1, <1>2, <1>3, <2>1, <2>2, <2>3, QuietStep
<1>5. CASE child # None
  <2>1. PICK c \in Child : c = child
    BY <1>1, <1>5
  <2> DEFINE s == RemoveState(c, k)
             r == RemoveEvent(c, s)
  <2>2. /\ k' = [r EXCEPT !.dying = Append(@, c)]
        /\ idx' = [idx EXCEPT ![t] = NextIdx(t), ![c] = 1]
        /\ pc' = [pc EXCEPT ![t] = "call", ![c] = "call"]
    BY <1>5, <2>1 DEF Delete
  <2>3. c \in Task /\ c # t
    <3>1. program[t][idx[t]].do = "delete"
      BY <1>2 DEF Call
    <3> QED BY <1>1, <3>1, DisciplineAssumption
  <2>4. \A q \in Sem : ~Contains(k.waiting[q], c)
    BY <2>3 DEF Inv, WaitInv, Started
  <2>5. /\ Lists(s) /\ Untouched(k, s) /\ s.prio = k.prio /\ s.waiting = k.waiting
        /\ \A p \in Priorities, u \in Task : Contains(s.ready[p], u) <=> Contains(k.ready[p], u) /\ u # c
        /\ \A u \in Task : Contains(s.delayed, u) <=> Contains(k.delayed, u) /\ u # c
        /\ \A u \in Task : Contains(s.overflow, u) <=> Contains(k.overflow, u) /\ u # c
        /\ \A u \in Task : u # c => s.wake[u] = k.wake[u]
    BY <1>1, <2>3, RemoveStateIs DEF Sound
  <2> HIDE DEF s
  <2>6. /\ Lists(r) /\ Untouched(s, r)
        /\ r.prio = s.prio /\ r.wake = s.wake
        /\ r.ready = s.ready /\ r.delayed = s.delayed /\ r.overflow = s.overflow
        /\ Waits(s, r, {c})
    BY <2>3, <2>5, RemoveEventIs
  <2> HIDE DEF r
  <2>7. /\ k'.ready = r.ready /\ k'.prio = r.prio /\ k'.wake = r.wake
        /\ k'.delayed = r.delayed /\ k'.overflow = r.overflow /\ k'.waiting = r.waiting
        /\ Untouched(r, k')
    BY <2>2, <2>6 DEF Lists, KernelData, Untouched, Kept
  <2>8. Untouched(k, k') /\ k'.prio = k.prio
    BY <2>5, <2>6, <2>7 DEF Untouched, Kept
  <2>9. \A q \in Sem : k'.waiting[q] = k.waiting[q]
    BY <2>4, <2>5, <2>6, <2>7 DEF Waits
  <2>10. \A u \in Task : Ready(u, k') <=> Ready(u, k) /\ u # c
    BY <2>5, <2>6, <2>7 DEF Ready
  <2>11. Calm(k, k')
    <3>1. \A u \in Task : Asleep(u, k') => k'.wake[u] = k.wake[u]
      BY <2>5, <2>6, <2>7 DEF Asleep
    <3> QED BY <2>8, <2>9, <3>1, KernelAssumption DEF Calm, Untouched, Kept
  <2>12. Urgent(k')
    BY <2>8, <2>10 DEF Ranks, UrgentInv, Urgent, Untouched
  <2>13. /\ pc'[t] = "call" /\ pc'[c] = "call"
         /\ \A u \in Task \ {t} : u # c => pc'[u] = pc[u] /\ idx'[u] = idx[u]
    BY <1>1, <2>2, <2>3
  <2> QED BY <1>1, <1>2, <1>3, <2>3, <2>8, <2>10, <2>11, <2>12, <2>13, QuietStep DEF Untouched, Kept
<1> QED BY <1>4, <1>5

(* Who holds two mutexes has taken the second inside the first, and nobody    *)
(* waits for the second.                                                      *)
LEMMA NestedIs ==
  ASSUME Inv, NEW t \in DOMAIN program, NEW m \in Mutex, NEW q \in Mutex, m # q,
         m \in Held(program, t, idx[t]), q \in Held(program, t, idx[t]),
         NEW w \in DOMAIN program, w # t, Takes(w, m), BasePriority[w] >= BasePriority[t]
  PROVE  Alone(t, w)
<1>1. /\ program \in Programs /\ \A u \in DOMAIN program : idx[u] \in 1..Len(program[u])
      /\ Len(program[t]) \in Nat
  <2>1. TypeOK /\ ProgInv /\ program \in Programs
    BY DEF Inv, ListInv, TypeOK
  <2> QED BY <2>1, ProgramIs DEF ProgInv
<1>2. PICK i \in 1..Len(program[t]) : i = idx[t]
  BY <1>1
<1>3. PICK j \in 1..i - 1 : /\ program[t][j] = [do |-> "take", sem |-> m]
                            /\ \A n \in j + 1..i - 1 : program[t][n] # [do |-> "give", sem |-> m]
  BY <1>2 DEF Held
<1>4. PICK l \in 1..i - 1 : /\ program[t][l] = [do |-> "take", sem |-> q]
                            /\ \A n \in l + 1..i - 1 : program[t][n] # [do |-> "give", sem |-> q]
  BY <1>2 DEF Held
<1>5. j \in 1..Len(program[t]) /\ l \in 1..Len(program[t]) /\ j # l
  <2>1. [do |-> "take", sem |-> m].sem # [do |-> "take", sem |-> q].sem
    OBVIOUS
  <2> QED BY <1>1, <1>3, <1>4, <2>1
<1>6. CASE l < j
  <2>1. q \in Held(program, t, j)
    <3>1. l \in 1..j - 1 /\ \A n \in l + 1..j - 1 : n \in l + 1..i - 1
      BY <1>1, <1>5, <1>6
    <3> QED BY <1>4, <3>1 DEF Held
  <2>2. program[t][j].do = "take"
    BY <1>3
  <2>3. \A u \in DOMAIN program \ {t} : \A n \in 1..Len(program[u]) : program[u][n] # program[t][j]
    BY <1>1, <1>5, <2>1, <2>2, NestingAssumption
  <2> QED BY <1>1, <1>3, <2>3 DEF Takes, Call
<1>7. CASE j < l
  <2>1. m \in Held(program, t, l)
    <3>1. j \in 1..l - 1 /\ \A n \in j + 1..l - 1 : n \in j + 1..i - 1
      BY <1>1, <1>5, <1>7
    <3> QED BY <1>3, <3>1 DEF Held
  <2>2. program[t][l].do = "take"
    BY <1>4
  <2>3. \A u, v \in DOMAIN program \ {t} :
           BasePriority[u] >= BasePriority[t] /\ BasePriority[v] >= BasePriority[t] => u = v
    BY <1>1, <1>5, <2>1, <2>2, NestingAssumption
  <2> QED BY <2>3 DEF Alone
<1>8. j \in Int /\ l \in Int
  OBVIOUS
<1> QED BY <1>5, <1>6, <1>7, <1>8

(* The first of those who wait for a mutex is as urgent as any.               *)
LEMMA FirstIs ==
  ASSUME Inv, WaitersInv, NEW q \in Mutex, NEW w \in Task, Contains(k.waiting[q], w)
  PROVE  /\ k.waiting[q] \in Seq(Task) /\ k.waiting[q] # <<>>
         /\ \E x \in Task : /\ k.waiting[q] # <<>> /\ x = Head(k.waiting[q]) /\ Contains(k.waiting[q], x)
                          /\ BasePriority[x] >= BasePriority[w]
<1>1. PICK l \in Seq(Task) : l = k.waiting[q]
  BY KernelAssumption DEF Inv, ListInv, TypeOK, KernelData
<1>2. PICK j \in 1..Len(l) : l[j] = w
  BY <1>1 DEF Contains
<1>3. l # <<>> /\ Len(l) \in Nat /\ 1 \in 1..Len(l) /\ Head(l) = l[1] /\ l[1] \in Task
  BY <1>2
<1>4. Contains(l, l[1])
  BY <1>3 DEF Contains
<1>5. BasePriority[l[1]] >= BasePriority[w]
  <2>1. CASE j = 1
    <3>1. BasePriority[w] \in Nat
      BY KernelAssumption
    <3> QED BY <1>2, <2>1, <3>1
  <2>2. CASE j # 1
    <3>1. 1 < j
      BY <1>2, <1>3, <2>2
    <3> QED BY <1>1, <1>2, <1>3, <3>1 DEF WaitersInv
  <2> QED BY <2>1, <2>2
<1> QED BY <1>1, <1>3, <1>4, <1>5

(* Where a mutex is given back the running task has its own priority again;   *)
(* if somebody is more urgent, it is the one the mutex is handed to.          *)
LEMMA LoweredUrgent ==
  ASSUME Inv, Ranks, NEW t \in Task, t = k.cur, Ready(t, k), NEW q \in Mutex, k.holder[q] = t,
         NEW a, a.waiting = k.waiting, a.cur = t, Lowered(k, a, q)
  PROVE  Urgent(a) \/ Outranks(q, a)
<1>1. k \in KernelData /\ Mutex \subseteq Sem /\ None \notin Task /\ DOMAIN program \subseteq Task
  BY RunnerIs
<1>2. \A u \in Task : k.prio[u] \in Nat /\ BasePriority[u] \in Nat /\ k.prio[u] >= BasePriority[u]
  BY AtLeastBase DEF Ranks
<1>3. /\ a.prio[t] = BasePriority[t] /\ \A u \in Task : u # t => a.prio[u] = k.prio[u]
      /\ \A u \in Task : Ready(u, a) <=> Ready(u, k)
  <2>1. k.prio \in [Task -> Priorities]
    BY <1>1 DEF KernelData
  <2>2. a.prio = [k.prio EXCEPT ![t] = BasePriority[t]]
    BY <1>1 DEF Lowered
  <2> QED BY <2>1, <2>2 DEF Lowered
<1>4. CASE k.prio[t] = BasePriority[t]
  BY <1>3, <1>4 DEF Urgent, Ranks, UrgentInv
<1>5. CASE k.prio[t] # BasePriority[t]
  <2>1. PICK m \in Mutex, w \in Task :
           k.holder[m] = t /\ Contains(k.waiting[m], w) /\ BasePriority[w] >= k.prio[t]
    BY <1>5 DEF Ranks, RaisedInv
  <2>2. k.prio[t] > BasePriority[t] /\ BasePriority[w] > BasePriority[t]
    BY <1>2, <1>5, <2>1 DEF Ranks, RaisedInv
  <2>3. /\ w \in DOMAIN program /\ Takes(w, m) /\ ~Ready(w, k) /\ w # t
        /\ \A p \in Sem : Contains(k.waiting[p], w) => p = m
    BY <1>1, <2>1, WaiterIs
  <2>4. CASE m = q
    <3>1. PICK x \in Task : /\ k.waiting[q] # <<>> /\ x = Head(k.waiting[q])
                            /\ Contains(k.waiting[q], x) /\ BasePriority[x] >= BasePriority[w]
      BY <2>1, <2>4, FirstIs DEF Ranks
    <3>2. x # t /\ a.prio[x] = BasePriority[x]
      <4>1. x # t
        BY <1>1, <3>1, WaiterIs
      <4>2. Held(program, x, idx[x]) = {}
        BY <3>1 DEF Ranks, WaitersInv
      <4> QED BY <1>3, <4>1, <4>2, NotRaised DEF Ranks
    <3>3. a.prio[x] >= a.prio[t]
      BY <1>2, <1>3, <2>2, <3>1, <3>2
    <3> QED BY <3>1, <3>3 DEF Outranks
  <2>5. CASE m # q
    <3>1. Alone(t, w)
      <4>1. t \in DOMAIN program /\ m \in Held(program, t, idx[t]) /\ q \in Held(program, t, idx[t])
        BY <2>1, HolderIs
      <4>2. BasePriority[w] >= BasePriority[t]
        BY <1>2, <2>2
      <4> QED BY <2>3, <2>5, <4>1, <4>2, NestedIs
    <3>2. ASSUME NEW u \in Task, Ready(u, a) PROVE a.prio[u] <= a.prio[t]
      <4>1. SUFFICES ASSUME u # t, k.prio[u] > BasePriority[t] PROVE FALSE
        BY <1>2, <1>3
      <4>2. Ready(u, k) /\ u \in DOMAIN program
        BY <1>3, <3>2 DEF Inv, ListInv, PlacedInv
      <4>3. CASE k.prio[u] = BasePriority[u]
        <5>1. BasePriority[u] >= BasePriority[t]
          BY <1>2, <4>1, <4>3
        <5> QED BY <2>3, <3>1, <4>1, <4>2, <5>1 DEF Alone
      <4>4. CASE k.prio[u] # BasePriority[u]
        <5>1. PICK n \in Mutex, v \in Task :
                 k.holder[n] = u /\ Contains(k.waiting[n], v) /\ BasePriority[v] >= k.prio[u]
          BY <4>4 DEF Ranks, RaisedInv
        <5>2. v \in DOMAIN program /\ ~Ready(v, k)
          BY <1>1, <5>1, WaiterIs
        <5>3. v # t /\ BasePriority[v] >= BasePriority[t]
          BY <1>2, <4>1, <5>1, <5>2
        <5>4. v = w
          BY <3>1, <5>2, <5>3 DEF Alone
        <5> QED BY <1>1, <2>1, <2>3, <4>1, <5>1, <5>4
      <4> QED BY <4>3, <4>4
    <3> QED BY <3>2 DEF Urgent
  <2> QED BY <2>4, <2>5
<1> QED BY <1>4, <1>5

(* What the give of a mutex does to who waits and who runs                    *)
GivenBack(t, q, s, r) ==
  /\ Woken(s, r, q) /\ Served(s, r, q) /\ Forward(s, r) /\ Ungiven(s, r) /\ Urgent(r)
  /\ r.prio[t] = BasePriority[t] /\ \A u \in Task \ {t} : r.prio[u] = s.prio[u]
  /\ r.holder[q] = None /\ \A m \in Mutex \ {q} : r.holder[m] = s.holder[m]
  /\ r.lock = s.lock

(* Its holder goes on with its own priority, unless a more urgent task was    *)
(* waiting for it, which then runs.                                           *)
LEMMA GiveMutexIs ==
  ASSUME Inv, Ranks, NEW t, t = k.cur, Give(t), NEW q, q = Call(t).sem, q \in Mutex
  PROVE  /\ t \in DOMAIN program /\ t \in Task /\ q \in Sem /\ Ready(t, k) /\ ~k.suspended
         /\ Call(t) = [do |-> "give", sem |-> q] /\ k.holder[q] = t /\ q \in Held(program, t, idx[t])
         /\ GivenBack(t, q, k, k')
<1>1. /\ t \in DOMAIN program /\ t \in Task /\ k \in KernelData
      /\ Sound(k) /\ Rows(k) /\ Ahead(k) /\ Mutex \subseteq Sem /\ None \notin Task
      /\ k.suspended <=> pc[t] \in SuspendedPc
      /\ pc[t] = "call" => Ready(t, k)
      /\ Call(t).do = "give" => q \in Sem /\ Call(t) = [do |-> "give", sem |-> q]
  BY RunnerIs
<1>2. pc[t] = "call" /\ Call(t).do = "give" /\ k' = GenericSend(q, k)
  BY DEF Give, Calls, At
<1>3. Ready(t, k) /\ ~k.suspended /\ Call(t) = [do |-> "give", sem |-> q] /\ q \in Sem
  BY <1>1, <1>2 DEF SuspendedPc
<1>4. q \in Held(program, t, idx[t]) /\ k.holder[q] = t /\ ~k.full[q]
  <2>1. HoldInv /\ program \in Programs /\ idx[t] \in 1..Len(program[t])
    BY <1>1 DEF Inv, ListInv, TypeOK, ProgInv
  <2>2. program[t][idx[t]].do = "give" /\ program[t][idx[t]].sem = q
    BY <1>3 DEF Call
  <2>3. q \in Held(program, t, idx[t])
    BY <1>1, <2>1, <2>2, DisciplineAssumption
  <2> QED BY <1>1, <2>1, <2>3 DEF HoldInv
<1> DEFINE a == CopyDataToQueue(q, k)
<1>5. a.waiting = k.waiting /\ a.cur = t /\ Lowered(k, a, q)
  BY <1>1, <1>3, <1>4, CopyDataToQueueIs
<1>6. /\ Woken(k, k', q) /\ Served(k, k', q) /\ k'.prio = a.prio
      /\ Urgent(a) \/ Outranks(q, a) => Urgent(k')
  BY <1>1, <1>2, <1>3, <1>4, SendWakes
<1>7. /\ Forward(k, k') /\ Ungiven(k, k') /\ k'.lock = k.lock
      /\ k'.holder = [k.holder EXCEPT ![q] = None]
  BY <1>1, <1>2, <1>3, <1>4, GenericSendIs
<1> HIDE DEF a
<1>8. Urgent(k')
  BY <1>1, <1>3, <1>4, <1>5, <1>6, LoweredUrgent
<1>9. k'.prio[t] = BasePriority[t] /\ \A u \in Task \ {t} : k'.prio[u] = k.prio[u]
  <2>1. k.prio \in [Task -> Priorities]
    BY <1>1 DEF KernelData
  <2>2. a.prio = [k.prio EXCEPT ![t] = BasePriority[t]]
    BY <1>1, <1>4, <1>5 DEF Lowered
  <2> QED BY <1>1, <1>6, <2>1, <2>2
<1>10. k'.holder[q] = None /\ \A m \in Mutex \ {q} : k'.holder[m] = k.holder[m]
  <2>1. k.holder \in [Sem -> Task \cup {None}]
    BY <1>1 DEF KernelData
  <2> QED BY <1>1, <1>3, <1>7, <2>1
<1> QED BY <1>1, <1>3, <1>4, <1>6, <1>7, <1>8, <1>9, <1>10 DEF GivenBack

(* The mutex passes to the most urgent of those who wait for it.              *)
LEMMA RanksGiveMutex ==
  ASSUME Inv, Inv', Ranks, Bounds, NEW t, t = k.cur, Give(t), NEW q, q = Call(t).sem, q \in Mutex
  PROVE  Ranks' /\ Bounds'
<1>1. /\ t \in DOMAIN program /\ t \in Task /\ q \in Sem /\ Ready(t, k) /\ ~k.suspended
      /\ Call(t) = [do |-> "give", sem |-> q] /\ k.holder[q] = t /\ q \in Held(program, t, idx[t])
      /\ GivenBack(t, q, k, k')
  BY GiveMutexIs
<1>2. /\ Woken(k, k', q) /\ Served(k, k', q) /\ Forward(k, k') /\ Ungiven(k, k') /\ Urgent(k')
      /\ k'.prio[t] = BasePriority[t] /\ \A u \in Task \ {t} : k'.prio[u] = k.prio[u]
      /\ k'.holder[q] = None /\ \A m \in Mutex \ {q} : k'.holder[m] = k.holder[m]
      /\ k'.lock = k.lock
  BY <1>1 DEF GivenBack
<1>3. /\ program' = program /\ pc' = [pc EXCEPT ![t] = "call"] /\ idx' = [idx EXCEPT ![t] = NextIdx(t)]
      /\ pc[t] = "call"
  BY DEF Give, Return, Goto, Calls, At
<1>4. /\ DOMAIN program \subseteq Task /\ Mutex \subseteq Sem /\ None \notin Task
      /\ pc'[t] = "call" /\ \A u \in Task \ {t} : pc'[u] = pc[u] /\ idx'[u] = idx[u]
  <2>1. /\ DOMAIN program \subseteq Task /\ Mutex \subseteq Sem /\ None \notin Task
        /\ pc \in [Task -> PcStates] /\ idx \in [Task -> Nat \ {0}]
    BY RunnerIs
  <2> QED BY <1>1, <1>3, <2>1
<1>5. Call(t).do = "give"
  BY <1>1
<1>6. \A m \in Mutex, w \in Task : Contains(k'.waiting[m], w) =>
        /\ Contains(k.waiting[m], w) /\ w # t /\ w \in DOMAIN program /\ idx'[w] = idx[w]
        /\ Takes(w, m) /\ Asleep(w, k')
  <2> SUFFICES ASSUME NEW m \in Mutex, NEW w \in Task, Contains(k'.waiting[m], w)
               PROVE  /\ Contains(k.waiting[m], w) /\ w # t /\ w \in DOMAIN program /\ idx'[w] = idx[w]
                      /\ Takes(w, m) /\ Asleep(w, k')
    OBVIOUS
  <2>1. Contains(k.waiting[m], w)
    BY <1>2, <1>4 DEF Forward
  <2>2. w \in DOMAIN program /\ Takes(w, m) /\ ~Ready(w, k)
    BY <1>4, <2>1, WaiterIs
  <2>3. Asleep(w, k')
    BY <1>4 DEF Inv, ListInv, Sound, Events
  <2> QED BY <1>1, <1>4, <2>1, <2>2, <2>3
<1>7. RaisedInv'
  <2> SUFFICES ASSUME NEW u \in Task, k'.prio[u] # BasePriority[u]
               PROVE  /\ k'.prio[u] > BasePriority[u]
                      /\ \E m \in Mutex : /\ k'.holder[m] = u
                                          /\ \E w \in Task : /\ Contains(k'.waiting[m], w)
                                                             /\ BasePriority[w] >= k'.prio[u]
    BY DEF RaisedInv
  <2>1. u # t /\ k'.prio[u] = k.prio[u]
    BY <1>2
  <2>2. /\ k.prio[u] > BasePriority[u]
        /\ \E m \in Mutex : /\ k.holder[m] = u
                            /\ \E w \in Task : Contains(k.waiting[m], w) /\ BasePriority[w] >= k.prio[u]
    BY <2>1 DEF Ranks, RaisedInv
  <2>3. PICK m \in Mutex : /\ k.holder[m] = u
                           /\ \E w \in Task : Contains(k.waiting[m], w) /\ BasePriority[w] >= k.prio[u]
    BY <2>2
  <2>4. m # q /\ k'.holder[m] = u /\ k'.waiting[m] = k.waiting[m]
    BY <1>1, <1>2, <1>4, <2>1, <2>3 DEF Woken
  <2> QED BY <2>1, <2>2, <2>3, <2>4
<1>8. WaitersInv'
  <2>1. ASSUME NEW m \in Mutex PROVE k'.lock[m] # 1
    BY <1>2 DEF Ranks, WaitersInv
  <2>2. ASSUME NEW m \in Mutex, NEW i \in 1..Len(k'.waiting[m]), NEW j \in 1..Len(k'.waiting[m]), i < j
        PROVE  BasePriority[k'.waiting[m][i]] >= BasePriority[k'.waiting[m][j]]
    <3>1. CASE k'.waiting[m] = k.waiting[m]
      BY <2>2, <3>1 DEF Ranks, WaitersInv
    <3>2. CASE k'.waiting[m] # k.waiting[m]
      <4>1. k.waiting[m] # <<>> /\ k'.waiting[m] = Tail(k.waiting[m])
        BY <1>2, <1>4, <3>2 DEF Woken
      <4>2. PICK l \in Seq(Task) : l = k.waiting[m]
        BY <1>4 DEF Inv, ListInv, TypeOK, KernelData
      <4>3. l # <<>> /\ k'.waiting[m] = Tail(l)
        BY <4>1, <4>2
      <4>4. /\ i + 1 \in 1..Len(l) /\ j + 1 \in 1..Len(l) /\ i + 1 < j + 1
            /\ k'.waiting[m][i] = l[i + 1] /\ k'.waiting[m][j] = l[j + 1]
        BY <2>2, <4>3
      <4> QED BY <4>2, <4>4 DEF Ranks, WaitersInv
    <3> QED BY <3>1, <3>2
  <2>3. ASSUME NEW m \in Mutex, NEW w \in Task, Contains(k'.waiting[m], w)
        PROVE  /\ Held(program', w, idx'[w]) = {}
               /\ k'.left[w] > 0 /\ k'.wake[w] = (k'.entered[w] + k'.left[w]) % TickModulus
    <3>1. /\ Held(program, w, idx[w]) = {}
          /\ k.left[w] > 0 /\ k.wake[w] = (k.entered[w] + k.left[w]) % TickModulus
      BY <1>6, <2>3 DEF Ranks, WaitersInv
    <3>2. k'.wake[w] = k.wake[w] /\ k'.left = k.left /\ k'.entered = k.entered
      BY <1>2, <1>6, <2>3 DEF Woken, Ungiven
    <3> QED BY <1>3, <1>6, <2>3, <3>1, <3>2
  <2> QED BY <2>1, <2>2, <2>3 DEF WaitersInv
<1>9. ShortInv'
  <2>1. \A u \in DOMAIN program : k'.left[u] > 0 =>
          k'.left[u] = k.left[u] /\ k'.entered[u] = k.entered[u] /\ (idx'[u] = idx[u] \/ Call(u).do # "take")
    BY <1>2, <1>4, <1>5 DEF Ungiven
  <2>2. pc'[t] = "call" /\ \A u \in Task \ {t} : pc'[u] \in {pc[u], "call"}
    BY <1>4
  <2> QED BY <1>1, <1>2, <1>3, <2>1, <2>2, ShortStep DEF Ranks, Ungiven
<1>10. HolderInv'
  <2> SUFFICES ASSUME NEW u \in DOMAIN program, Held(program, u, idx'[u]) # {}
               PROVE  pc'[u] = "call" /\ Ready(u, k')
    BY <1>3 DEF HolderInv
  <2>1. CASE u = t
    BY <1>1, <1>2, <1>4, <2>1 DEF Forward
  <2>2. CASE u # t
    BY <1>2, <1>4, <2>2 DEF Bounds, HolderInv, Forward
  <2> QED BY <2>1, <2>2
<1>11. WakerInv'
  <2> SUFFICES ASSUME NEW m \in Mutex, k'.holder[m] = None, NEW w \in Task, Contains(k'.waiting[m], w)
               PROVE  \E u \in DOMAIN program :
                        Takes(u, m)' /\ Ready(u, k') /\ BasePriority[u] >= BasePriority[w]
    BY <1>3 DEF WakerInv
  <2>1. Contains(k.waiting[m], w)
    BY <1>6
  <2>2. \E u \in DOMAIN program : Takes(u, m) /\ u # t /\ Ready(u, k') /\ BasePriority[u] >= BasePriority[w]
    <3>1. CASE m = q
      <4>1. PICK x \in Task : /\ k.waiting[q] # <<>> /\ x = Head(k.waiting[q])
                              /\ Contains(k.waiting[q], x) /\ BasePriority[x] >= BasePriority[w]
        BY <2>1, <3>1, FirstIs DEF Ranks
      <4>2. Ready(x, k')
        BY <1>2, <4>1 DEF Served
      <4>3. x \in DOMAIN program /\ Takes(x, q) /\ ~Ready(x, k)
        BY <1>1, <4>1, WaiterIs
      <4> QED BY <1>1, <3>1, <4>1, <4>2, <4>3
    <3>2. CASE m # q
      <4>1. k.holder[m] = None
        BY <1>2, <3>2
      <4>2. PICK u \in DOMAIN program : Takes(u, m) /\ Ready(u, k) /\ BasePriority[u] >= BasePriority[w]
        BY <2>1, <4>1 DEF Bounds, WakerInv
      <4>3. u # t
        BY <1>5, <4>2 DEF Takes
      <4> QED BY <1>2, <1>4, <4>2, <4>3 DEF Forward
    <3> QED BY <3>1, <3>2
  <2> QED BY <1>3, <1>4, <2>2 DEF Takes, Call
<1>12. BoundInv'
  <2> SUFFICES ASSUME NEW m \in Mutex, NEW h \in Task, k'.holder[m] = h,
                      NEW w \in Task, Contains(k'.waiting[m], w)
               PROVE  k'.prio[h] >= BasePriority[w] \/ Alone(h, w)
    BY <1>3 DEF BoundInv, Alone
  <2>1. m # q /\ k.holder[m] = h /\ Contains(k.waiting[m], w)
    BY <1>2, <1>4, <1>6
  <2>2. CASE h # t
    BY <1>2, <2>1, <2>2 DEF Bounds, BoundInv
  <2>3. CASE h = t
    <3>1. BasePriority[w] \in Nat /\ BasePriority[t] \in Nat
      BY <1>1, AtLeastBase DEF Ranks
    <3>2. CASE BasePriority[t] >= BasePriority[w]
      BY <1>2, <2>3, <3>2
    <3>3. CASE BasePriority[w] >= BasePriority[t]
      <4>1. m \in Held(program, t, idx[t])
        BY <2>1, <2>3, HolderIs
      <4>2. w \in DOMAIN program /\ w # t /\ Takes(w, m)
        BY <1>6
      <4> QED BY <1>1, <2>1, <2>3, <3>3, <4>1, <4>2, NestedIs
    <3> QED BY <3>1, <3>2, <3>3
  <2> QED BY <2>2, <2>3
<1> QED BY <1>2, <1>7, <1>8, <1>9, <1>10, <1>11, <1>12 DEF Ranks, UrgentInv, Bounds

(* A task gives a semaphore.                                                  *)
LEMMA RanksGive ==
  ASSUME Inv, Inv', Ranks, Bounds, NEW t, t = k.cur, Give(t)
  PROVE  Ranks' /\ Bounds'
<1>1. /\ t \in DOMAIN program /\ t \in Task /\ k \in KernelData
      /\ Sound(k) /\ Rows(k) /\ Ahead(k) /\ Mutex \subseteq Sem /\ None \notin Task
      /\ pc \in [Task -> PcStates] /\ idx \in [Task -> Nat \ {0}]
      /\ k.suspended <=> pc[t] \in SuspendedPc
      /\ pc[t] = "call" => Ready(t, k)
      /\ Call(t).do = "give" => Call(t).sem \in Sem
  BY RunnerIs
<1>2. PICK q : q = Call(t).sem
  OBVIOUS
<1>3. /\ pc[t] = "call" /\ Call(t).do = "give" /\ k' = GenericSend(q, k) /\ program' = program
      /\ pc' = [pc EXCEPT ![t] = "call"] /\ idx' = [idx EXCEPT ![t] = NextIdx(t)]
  BY <1>2 DEF Give, Calls, At, Return, Goto
<1>4. Ready(t, k) /\ ~k.suspended /\ q \in Sem
  BY <1>1, <1>2, <1>3 DEF SuspendedPc
<1>5. CASE q \in Mutex
  BY <1>2, <1>5, RanksGiveMutex
<1>6. CASE q \notin Mutex
  <2>1. Calm(k, k') /\ Urgent(k') /\ Forward(k, k') /\ Ungiven(k, k') /\ \A m \in Mutex : k'.holder[m] = k.holder[m]
    <3>1. CASE k.full[q]
      <4>1. k' = k
        BY <1>3, <3>1 DEF GenericSend
      <4> QED BY <4>1, ForwardNot DEF Calm, Ungiven, Ranks, UrgentInv
    <3>2. CASE ~k.full[q]
      <4> DEFINE a == CopyDataToQueue(q, k)
      <4>1. a.cur = k.cur /\ Lowered(k, a, q)
        BY <1>1, <1>4, <1>6, CopyDataToQueueIs
      <4>2. /\ Woken(k, k', q) /\ k'.prio = a.prio
            /\ Urgent(a) \/ Outranks(q, a) => Urgent(k')
        BY <1>1, <1>3, <1>4, <1>6, <3>2, SendWakes
      <4>3. /\ Forward(k, k') /\ Ungiven(k, k') /\ k'.lock = k.lock
            /\ k'.holder = [k.holder EXCEPT ![q] = None]
        BY <1>1, <1>3, <1>4, <1>6, <3>2, GenericSendIs
      <4> HIDE DEF a
      <4>4. a.prio = k.prio
        BY <1>6, <4>1 DEF Lowered
      <4>5. Urgent(k')
        BY <4>1, <4>2, <4>4 DEF Lowered, Urgent, Ranks, UrgentInv
      <4>6. \A m \in Mutex : k'.holder[m] = k.holder[m] /\ k'.waiting[m] = k.waiting[m]
        <5>1. k.holder \in [Sem -> Task \cup {None}]
          BY <1>1 DEF KernelData
        <5> QED BY <1>1, <1>4, <1>6, <4>2, <4>3, <5>1 DEF Woken
      <4>7. Calm(k, k')
        BY <4>2, <4>3, <4>4, <4>6 DEF Calm, Woken
      <4> QED BY <4>3, <4>5, <4>6, <4>7
    <3> QED BY <3>1, <3>2
  <2>2. pc'[t] = "call" /\ \A u \in Task \ {t} : pc'[u] = pc[u] /\ idx'[u] = idx[u]
    BY <1>1, <1>3
  <2>3. \A u \in Task : Ready(u, k) => Ready(u, k')
    BY <2>1 DEF Forward
  <2> QED BY <1>1, <1>3, <1>4, <2>1, <2>2, <2>3, QuietStep DEF Ungiven
<1> QED BY <1>5, <1>6

(* Every step of a task keeps both.                                           *)
LEMMA RanksTask ==
  ASSUME Inv, Inv', Ranks, Bounds, Step(k.cur)
  PROVE  Ranks' /\ Bounds'
BY RanksTake, RanksSuspend, RanksLock, RanksCheck, RanksPlace, RanksUnlock, RanksInsert, RanksResume,
   RanksYield, RanksGive, RanksDelete, RanksCreate, RanksReap DEF Step

(* The invariant of urgency holds once the scheduler has started, when nobody *)
(* waits or holds anything.                                                   *)
LEMMA RanksInit == Init => Ranks /\ Bounds
<1> SUFFICES ASSUME Init PROVE Ranks /\ Bounds
  OBVIOUS
<1>1. Inv /\ DOMAIN program \subseteq Task
  <2>1. Inv
    BY InitInv
  <2> QED BY <2>1, RunnerIs
<1>2. /\ k.cur = CHOOSE t \in Started : \A u \in Started : BasePriority[u] <= BasePriority[t]
      /\ k.prio = BasePriority /\ k.left = [t \in Task |-> 0] /\ k.missed = 0
      /\ k.holder = [q \in Sem |-> None] /\ k.lock = [q \in Sem |-> -1] /\ k.waiting = [q \in Sem |-> <<>>]
      /\ k.delayed = <<>> /\ k.overflow = <<>>
      /\ pc = [t \in Task |-> "call"] /\ idx = [t \in Task |-> 1] /\ child = None
      /\ k.ready = [p \in Priorities |-> SetToSeq({t \in Started : BasePriority[t] = p})]
  BY DEF Init
<1>3. Started \subseteq Task /\ Idle \in Started /\ IsFiniteSet(Started) /\ Mutex \subseteq Sem /\ None \notin Task
  <2>1. Idle \in DOMAIN program
    BY <1>1, ProgramsAssumption DEF Inv, ListInv, TypeOK
  <2>2. Started \subseteq Task /\ Idle \in Started
    BY <1>1, <2>1, KernelAssumption DEF Started
  <2> QED BY <2>2, FS_Subset, KernelAssumption
<1>4. \A u \in Started : BasePriority[u] <= BasePriority[k.cur]
  <2> DEFINE A == {BasePriority[t] : t \in Started}
  <2>1. A \subseteq Nat /\ A # {}
    BY <1>3, KernelAssumption
  <2>2. IsFiniteSet(A)
    <3> DEFINE f == [t \in Started |-> BasePriority[t]]
    <3>1. f \in Surjection(Started, A)
      BY DEF Surjection
    <3> QED BY <1>3, <3>1, FS_Surjection
  <2>3. PICK b \in A : \A n \in A : n <= b
    BY <2>1, <2>2, FiniteMax
  <2>4. \E t \in Started : \A u \in Started : BasePriority[u] <= BasePriority[t]
    BY <2>3
  <2> QED BY <1>2, <2>4
<1>5. \A u \in Task : Ready(u, k) => u \in Started
  <2> SUFFICES ASSUME NEW u \in Task, NEW p \in Priorities, Contains(k.ready[p], u) PROVE u \in Started
    BY DEF Ready
  <2> DEFINE S == {t \in Started : BasePriority[t] = p}
  <2>1. IsFiniteSet(S) /\ k.ready[p] = SetToSeq(S)
    BY <1>2, <1>3, FS_Subset
  <2> HIDE DEF S
  <2>2. u \in S
    BY <2>1, SetToSeqIs
  <2> QED BY <2>2 DEF S
<1>6. UrgentInv
  BY <1>2, <1>4, <1>5 DEF UrgentInv, Urgent
<1>7. \A m \in Mutex : k.holder[m] = None /\ k.lock[m] = -1 /\ k.waiting[m] = <<>>
  BY <1>2, <1>3
<1>8. \A u : ~Contains(<<>>, u)
  BY DEF Contains
<1>9. RaisedInv /\ WaitersInv
  BY <1>2, <1>7, <1>8 DEF RaisedInv, WaitersInv
<1>10. ShortInv
  <2>1. k.cur \in Task /\ \A u \in Task : pc[u] = "call"
    <3>1. k.cur \in Task
      BY <1>1, RunnerIs
    <3> QED BY <1>2, <3>1
  <2>2. \A u \in DOMAIN program : k.left[u] = 0
    BY <1>1, <1>2
  <2> QED BY <1>2, <2>1, <2>2 DEF ShortInv
<1>11. HolderInv
  <2>1. \A u \in DOMAIN program : idx[u] = 1
    BY <1>1, <1>2
  <2>2. \A u : Held(program, u, 1) = {}
    BY DEF Held
  <2> QED BY <2>1, <2>2 DEF HolderInv
<1>12. WakerInv /\ BoundInv
  BY <1>7, <1>8 DEF WakerInv, BoundInv
<1> QED BY <1>6, <1>9, <1>10, <1>11, <1>12 DEF Ranks, Bounds
-------------------------------------------------------------------------------
(* The theorems *)

(* Every step keeps the invariant.                                            *)
LEMMA StepInv == Inv /\ [Next]_vars => Inv'
<1> SUFFICES ASSUME Inv, [Next]_vars PROVE Inv'
  OBVIOUS
<1>1. CASE UNCHANGED vars
  <2>0. ListInv /\ WaitInv /\ NoLostWakeup
    BY DEF Inv
  <2>1. TypeOK' /\ Sound(k)' /\ Rows(k)' /\ Ahead(k)'
    BY <1>1, <2>0 DEF vars, ListInv, TypeOK
  <2>2. RunInv' /\ PlacedInv' /\ ReapInv'
    BY <1>1, <2>0 DEF vars, ListInv, RunInv, PlacedInv, ReapInv, Started
  <2>3. ProgInv' /\ PlaceInv'
    BY <1>1, <2>0 DEF vars, ListInv, ProgInv, PlaceInv, Call
  <2>4. HoldInv' /\ LockInv'
    BY <1>1, <2>0 DEF vars, ListInv, HoldInv, LockInv, Call
  <2>5. WaitInv' /\ NoLostWakeup'
    BY <1>1, <2>0 DEF vars, WaitInv, NoLostWakeup, OnItsWay, Sleeping, Started, Call
  <2> QED BY <2>1, <2>2, <2>3, <2>4, <2>5 DEF Inv, ListInv
<1>2. CASE Step(k.cur)
  BY <1>2, StepTake, StepSuspend, StepLock, StepCheck, StepPlace, StepUnlock, StepInsert, StepResume,
     StepYield, StepGive, StepDelete, StepCreate, StepReap DEF Step
<1>3. CASE Tick
  BY <1>3, TickStep
<1>4. CASE \E q \in IsrSem : Interrupt(q)
  BY <1>4, InterruptStep
<1> QED BY <1>1, <1>2, <1>3, <1>4 DEF Next

(* The invariant holds in every behaviour.                                    *)
LEMMA Invariance == Spec => []Inv
<1>1. Init => Inv
  BY InitInv
<1>2. Inv /\ [Next]_vars => Inv'
  BY StepInv
<1> QED BY <1>1, <1>2, PTL DEF Spec

(* Nobody is left asleep on a semaphore that is available.                    *)
THEOREM WakeupsAreNotLost == Spec => []NoLostWakeup
<1>1. Inv => NoLostWakeup
  BY DEF Inv
<1> QED BY <1>1, Invariance, PTL

(* The delayed lists are sorted, on either side of the tick counter.          *)
THEOREM SleepersStayInOrder == Spec => []SleepersAreInOrder
<1>1. Inv => SleepersAreInOrder
  <2> SUFFICES ASSUME Inv PROVE SleepersAreInOrder
    OBVIOUS
  <2>1. Rows(k) /\ Ahead(k) /\ k.delayed \in Seq(Task) /\ k.overflow \in Seq(Task)
    BY DEF Inv, ListInv, TypeOK, KernelData
  <2>2. ASSUME NEW i \in 1..Len(k.delayed) PROVE k.wake[k.delayed[i]] > k.tick
    <3>1. k.delayed[i] \in Task /\ Contains(k.delayed, k.delayed[i])
      BY <2>1, <2>2 DEF Contains
    <3> QED BY <2>1, <3>1 DEF Ahead
  <2>3. ASSUME NEW i \in 1..Len(k.overflow) PROVE k.wake[k.overflow[i]] < k.tick
    <3>1. k.overflow[i] \in Task /\ Contains(k.overflow, k.overflow[i])
      BY <2>1, <2>3 DEF Contains
    <3> QED BY <2>1, <3>1 DEF Rows
  <2> QED BY <2>1, <2>2, <2>3 DEF SleepersAreInOrder, Rows, Sorted
<1> QED BY <1>1, Invariance, PTL

(* A task is on one list of states, and waits for one event at most, asleep.  *)
THEOREM TasksAreOnOneList == Spec => []EachTaskIsOnOneList
<1>1. Inv => EachTaskIsOnOneList
  <2> SUFFICES ASSUME Inv PROVE EachTaskIsOnOneList
    OBVIOUS
  <2>1. /\ TypeOK /\ PlacedInv /\ Places(k) /\ Events(k) /\ DOMAIN program \subseteq Task
    BY ProgramsAssumption DEF Inv, ListInv, TypeOK, Sound
  <2>2. ASSUME NEW t \in DOMAIN program
        PROVE  LET states == {<<"ready", p>> : p \in {p \in Priorities : Contains(k.ready[p], t)}}
                             \cup {<<n, 0>> : n \in {n \in {"delayed", "overflow", "dying"} : Contains(k[n], t)}}
                   events == {q \in Sem : Blocked(t, q)} \cup
                             (IF Contains(k.pending, t) THEN {None} ELSE {})
               IN /\ t \notin Free(k) => \E l \in states : states = {l} /\ (l[1] = "ready" => l[2] = k.prio[t])
                  /\ Cardinality(events) <= 1
                  /\ events # {} => Sleeping(t)
    <3> DEFINE states == {<<"ready", p>> : p \in {p \in Priorities : Contains(k.ready[p], t)}}
                         \cup {<<n, 0>> : n \in {n \in {"delayed", "overflow", "dying"} : Contains(k[n], t)}}
               events == {q \in Sem : Blocked(t, q)} \cup
                         (IF Contains(k.pending, t) THEN {None} ELSE {})
    <3>0. t \in Task
      BY <2>1
    <3>1. /\ \A p \in Priorities : Contains(k.ready[p], t) =>
               p = k.prio[t] /\ ~Asleep(t, k) /\ ~Contains(k.dying, t)
          /\ ~(Contains(k.delayed, t) /\ Contains(k.overflow, t))
          /\ Contains(k.dying, t) => ~Asleep(t, k)
      BY <2>1, <3>0 DEF Places
    <3>2. /\ k["delayed"] = k.delayed /\ k["overflow"] = k.overflow /\ k["dying"] = k.dying
      OBVIOUS
    <3>3. ASSUME t \notin Free(k)
          PROVE  \E l \in states : states = {l} /\ (l[1] = "ready" => l[2] = k.prio[t])
      <4>1. Ready(t, k) \/ Contains(k.delayed, t) \/ Contains(k.overflow, t) \/ Contains(k.dying, t)
        BY <2>1, <3>3 DEF Free, PlacedInv, Started, Ready, Asleep
      <4>2. CASE Ready(t, k)
        <5>1. PICK p \in Priorities : Contains(k.ready[p], t)
          BY <4>2 DEF Ready
        <5>2. states = {<<"ready", p>>}
          BY <3>1, <3>2, <5>1 DEF Asleep
        <5>3. p = k.prio[t]
          BY <3>1, <5>1
        <5> HIDE DEF states
        <5> QED BY <5>2, <5>3
      <4>3. CASE ~Ready(t, k) /\ Contains(k.delayed, t)
        <5>1. states = {<<"delayed", 0>>}
          BY <3>1, <3>2, <4>3 DEF Asleep, Ready
        <5> HIDE DEF states
        <5> QED BY <5>1
      <4>4. CASE ~Ready(t, k) /\ Contains(k.overflow, t)
        <5>1. states = {<<"overflow", 0>>}
          BY <3>1, <3>2, <4>4 DEF Asleep, Ready
        <5> HIDE DEF states
        <5> QED BY <5>1
      <4>5. CASE ~Ready(t, k) /\ Contains(k.dying, t)
        <5>1. states = {<<"dying", 0>>}
          BY <3>1, <3>2, <4>5 DEF Asleep, Ready
        <5> HIDE DEF states
        <5> QED BY <5>1
      <4> QED BY <4>1, <4>2, <4>3, <4>4, <4>5
    <3>4. /\ Contains(k.pending, t) => Asleep(t, k) /\ \A q \in Sem : ~Blocked(t, q)
          /\ \A q \in Sem : Blocked(t, q) => Asleep(t, k) /\ \A r \in Sem : Blocked(t, r) => r = q
      BY <2>1, <3>0 DEF Events, Blocked
    <3>5. events = {} \/ \E e : events = {e}
      <4>1. CASE Contains(k.pending, t)
        BY <3>4, <4>1
      <4>2. CASE ~Contains(k.pending, t) /\ \E q \in Sem : Blocked(t, q)
        <5>1. PICK q \in Sem : Blocked(t, q)
          BY <4>2
        <5>2. events = {q}
          BY <3>4, <4>2, <5>1
        <5> QED BY <5>2
      <4>3. CASE ~Contains(k.pending, t) /\ ~\E q \in Sem : Blocked(t, q)
        BY <4>3
      <4> QED BY <4>1, <4>2, <4>3
    <3>6. events # {} => Sleeping(t)
      BY <3>4 DEF Sleeping, Asleep
    <3> HIDE DEF events
    <3>7. Cardinality(events) <= 1
      <4>1. CASE events = {}
        BY <4>1, FS_EmptySet
      <4>2. CASE \E e : events = {e}
        BY <4>2, FS_Singleton
      <4> QED BY <3>5, <4>1, <4>2
    <3> QED BY <3>3, <3>6, <3>7 DEF events
  <2> QED BY <2>1, <2>2 DEF EachTaskIsOnOneList
<1> QED BY <1>1, Invariance, PTL

(* Every step keeps the invariant of urgency.                                 *)
LEMMA StepRanks == Inv /\ Inv' /\ Ranks /\ Bounds /\ [Next]_vars => Ranks' /\ Bounds'
<1> SUFFICES ASSUME Inv, Inv', Ranks, Bounds, [Next]_vars PROVE Ranks' /\ Bounds'
  OBVIOUS
<1>1. CASE UNCHANGED vars
  <2>1. Ranks'
    BY <1>1 DEF vars, Ranks, UrgentInv, RaisedInv, WaitersInv, ShortInv, Call, Elapsed
  <2>2. Bounds'
    BY <1>1 DEF vars, Bounds, HolderInv, WakerInv, BoundInv, Takes, Call, Alone
  <2> QED BY <2>1, <2>2
<1>2. CASE Step(k.cur)
  BY <1>2, RanksTask
<1>3. CASE Tick
  BY <1>3, RanksTick
<1>4. CASE \E q \in IsrSem : Interrupt(q)
  BY <1>4, RanksInterrupt
<1> QED BY <1>1, <1>2, <1>3, <1>4 DEF Next

(* The invariant of urgency holds in every behaviour.                         *)
LEMMA RanksInvariance == Spec => [](Inv /\ Ranks /\ Bounds)
<1>1. Init => Inv /\ Ranks /\ Bounds
  BY InitInv, RanksInit
<1>2. (Inv /\ Ranks /\ Bounds) /\ [Next]_vars => (Inv /\ Ranks /\ Bounds)'
  BY StepInv, StepRanks
<1> QED BY <1>1, <1>2, PTL DEF Spec

(* Whenever the scheduler is not suspended, no ready task is more urgent than *)
(* the running one.                                                           *)
THEOREM MostUrgentTaskRuns == Spec => []MostUrgentRuns
<1>1. Inv /\ Ranks /\ Bounds => MostUrgentRuns
  <2> SUFFICES ASSUME Inv, Ranks PROVE MostUrgentRuns
    OBVIOUS
  <2>1. Sound(k) /\ Urgent(k)
    BY DEF Inv, ListInv, Ranks, UrgentInv
  <2> QED BY <2>1, UrgentIs DEF MostUrgentRuns
<1> QED BY <1>1, RanksInvariance, PTL

(* While a task sleeps on a mutex, its holder or a task at least as urgent as *)
(* the sleeper runs, and only who holds a mutex has an inherited priority.    *)
THEOREM InversionStaysBounded == Spec => []InversionIsBounded
<1>1. Inv /\ Ranks /\ Bounds => InversionIsBounded
  <2> SUFFICES ASSUME Inv, Ranks, Bounds PROVE InversionIsBounded
    OBVIOUS
  <2>1. PICK t \in DOMAIN program : t = k.cur
    BY RunnerIs
  <2>2. t \in Task /\ Mutex \subseteq Sem /\ None \notin Task /\ DOMAIN program \subseteq Task
    BY <2>1, RunnerIs
  <2>3. ASSUME NEW m \in Mutex, NEW w \in Task, Contains(k.waiting[m], w)
        PROVE  k.prio[t] >= k.prio[w] \/ k.holder[m] = t
    <3>1. /\ w \in DOMAIN program /\ ~Ready(w, k)
          /\ \A p \in Sem : Contains(k.waiting[p], w) => p = m
      BY <2>2, <2>3, WaiterIs
    <3>2. k.prio[w] = BasePriority[w]
      BY <2>3, NotRaised DEF Ranks, WaitersInv
    <3>3. \A u \in Task : k.prio[u] \in Nat /\ BasePriority[u] \in Nat /\ k.prio[u] >= BasePriority[u]
      BY AtLeastBase DEF Ranks
    <3>4. \A u \in Task : Ready(u, k) => k.prio[u] <= k.prio[t]
      BY <2>1 DEF Ranks, UrgentInv, Urgent
    <3>5. CASE k.holder[m] = None
      <4>1. PICK u \in DOMAIN program : Ready(u, k) /\ BasePriority[u] >= BasePriority[w]
        BY <2>3, <3>5 DEF Bounds, WakerInv
      <4> QED BY <2>2, <3>2, <3>3, <3>4, <4>1
    <3>6. CASE k.holder[m] # None
      <4>1. PICK h \in Task : k.holder[m] = h
        BY <2>2, <3>6 DEF Inv, ListInv, HoldInv
      <4>2. Ready(h, k)
        BY <4>1, HolderIs DEF Bounds, HolderInv
      <4>3. CASE k.prio[h] >= BasePriority[w]
        BY <2>2, <3>2, <3>3, <3>4, <4>2, <4>3
      <4>4. CASE Alone(h, w)
        <5> SUFFICES ASSUME t # h, ~(k.prio[t] >= BasePriority[w]) PROVE FALSE
          BY <3>2, <4>1
        <5>1. t # w
          BY <2>2, <3>3
        <5>2. ~(BasePriority[t] >= BasePriority[h])
          BY <2>2, <4>4, <5>1 DEF Alone
        <5>3. k.prio[t] >= BasePriority[h] /\ k.prio[t] # BasePriority[t]
          BY <2>2, <3>3, <3>4, <4>2, <5>2
        <5>4. PICK n \in Mutex, v \in Task :
                 k.holder[n] = t /\ Contains(k.waiting[n], v) /\ BasePriority[v] >= k.prio[t]
          BY <2>2, <5>3 DEF Ranks, RaisedInv
        <5>5. v \in DOMAIN program /\ v # h
          BY <2>2, <4>2, <5>4, WaiterIs
        <5>6. BasePriority[v] >= BasePriority[h]
          BY <2>2, <3>3, <5>3, <5>4
        <5>7. v = w
          BY <4>4, <5>5, <5>6 DEF Alone
        <5> QED BY <2>2, <3>1, <4>1, <5>4, <5>7
      <4> QED BY <2>3, <4>1, <4>3, <4>4 DEF Bounds, BoundInv
    <3> QED BY <3>5, <3>6
  <2>4. ASSUME NEW m \in Mutex, NEW i \in 1..Len(k.waiting[m])
        PROVE  k.prio[k.cur] >= k.prio[k.waiting[m][i]] \/ k.holder[m] = k.cur
    <3>1. k.waiting[m] \in Seq(Task)
      BY <2>2 DEF Inv, ListInv, TypeOK, KernelData
    <3>2. k.waiting[m][i] \in Task /\ Contains(k.waiting[m], k.waiting[m][i])
      BY <2>4, <3>1 DEF Contains
    <3> QED BY <2>1, <2>3, <3>2
  <2>5. \A u \in Task : k.prio[u] # BasePriority[u] => \E m \in Mutex : k.holder[m] = u
    BY DEF Ranks, RaisedInv
  <2> QED BY <2>4, <2>5 DEF InversionIsBounded
<1> QED BY <1>1, RanksInvariance, PTL
===============================================================================
